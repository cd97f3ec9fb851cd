------------------------------ MODULE Recovery ------------------------------
(***************************************************************************)
(* An engine that journals every command before it applies it and every    *)
(* event before it delivers it, takes snapshots, crashes between any two   *)
(* steps, and is recovered from the last snapshot and the journal after    *)
(* it: the loop of tests/snapshot.cpp:95-101 and of bench/matcherrun.cpp,  *)
(* and the recovery of bench/matcherrecover.cpp.                           *)
(*                                                                         *)
(* The lines of the journal and of the snapshot are what survives a crash; *)
(* where in the journal a snapshot was taken is for the operator to know,  *)
(* since neither file says.  The operator lets the events that recovery    *)
(* prints take the place of those journaled after the snapshot, and ends a *)
(* line that a crash cut short before the journal goes on.                 *)
(***************************************************************************)
EXTENDS Snapshot, EventLines

CONSTANTS
    Commands,     \* [sym, cmd]: the commands clients may send
    Config,       \* the engine's default configuration
    OwnConfigs,   \* those that add_symbol() gives a book
    MaxCommands,  \* bound on the commands sent
    MaxCrashes,   \* bound on the crashes
    Tears         \* the files, "journal" or "snapshot", a crash may cut short

VARIABLES
    journal,  \* the lines of the command journal
    egress,   \* the lines of the event journal
    snap,     \* [file, at, mark, of]: the last snapshot, how many commands and
              \* events were journaled when it was taken, and (history) of what
    engine,   \* the engine in memory
    pending,  \* the events of the command in progress still to be emitted
    pos,      \* the lines of the journal applied by the recovery in progress
    phase,    \* "ready", "recorded", "emitting", "down", "replaying" or
              \* "refused": recovery ended with an error
    sent,     \* the commands recorded whole (history)
    ideal,    \* ideal[n + 1]: the engine and the event journal of a run without a
              \* crash after the first n of them (history)
    crashes   \* how many crashes there were (bound)

files == <<journal, egress, snap>>
vars == <<files, engine, pending, pos, phase, sent, ideal, crashes>>

Init ==
    /\ journal = <<>> /\ egress = <<>>
    /\ snap = [file |-> EngineLines(NewEngine(Config)), at |-> 0, mark |-> 0,
               of |-> NewEngine(Config)]
    /\ engine = NewEngine(Config)
    /\ pending = <<>> /\ pos = 0
    /\ phase = "ready"
    /\ sent = <<>> /\ ideal = <<[engine |-> NewEngine(Config), egress |-> <<>>]>>
    /\ crashes = 0

----------------------------------------------------------------------------
(* Serving.                                                                *)

AddOwnSymbol(sym, cfg) ==
    /\ phase = "ready"
    /\ engine' = AddSymbol(engine, sym, cfg)
    /\ UNCHANGED <<files, pending, pos, phase, sent, ideal, crashes>>

\* The command is appended to the journal; it is not applied yet.
Record(c) ==
    LET before == ideal[Len(ideal)]
        done == Submitted(before.engine, c.sym, c.cmd)
    IN  /\ phase = "ready" /\ Len(sent) < MaxCommands
        /\ journal' = Append(journal, Written(c.sym, c.cmd))
        /\ phase' = "recorded"
        /\ sent' = Append(sent, c)
        /\ ideal' = Append(ideal, [engine |-> done.engine,
                                  egress |-> before.egress \o Printed(done.events)])
        /\ UNCHANGED <<egress, snap, engine, pending, pos, crashes>>

Submit ==
    LET c == sent[Len(sent)]
        done == Submitted(engine, c.sym, c.cmd)
    IN  /\ phase = "recorded"
        /\ engine' = done.engine
        /\ pending' = done.events
        /\ phase' = "emitting"
        /\ UNCHANGED <<files, pos, sent, ideal, crashes>>

\* Mutant of Deliver: the other events of the command are not waited for.
DeliverFirst ==
    /\ phase = "emitting"
    /\ egress' = egress \o Printed(<<Head(pending)>>)
    /\ pending' = Tail(pending)
    /\ phase' = "ready"
    /\ UNCHANGED <<journal, snap, engine, pos, sent, ideal, crashes>>

\* One call of the sink, which appends the event to the event journal.
Deliver ==
    /\ phase = "emitting"
    /\ egress' = egress \o Printed(<<Head(pending)>>)
    /\ pending' = Tail(pending)
    /\ phase' = IF Len(pending) = 1 THEN "ready" ELSE "emitting"
    /\ UNCHANGED <<journal, snap, engine, pos, sent, ideal, crashes>>

TakeSnapshot ==
    /\ phase = "ready"
    /\ snap' = [file |-> EngineLines(engine), at |-> Len(journal),
                mark |-> Len(egress), of |-> engine]
    /\ UNCHANGED <<journal, egress, engine, pending, pos, phase, sent, ideal, crashes>>

----------------------------------------------------------------------------
(* Crashes.                                                                *)

GoDown ==
    /\ crashes < MaxCrashes
    /\ crashes' = crashes + 1
    /\ phase' = "down"
    /\ pending' = <<>>
    /\ UNCHANGED <<egress, engine, pos, sent, ideal>>

Crash ==
    /\ phase \notin {"down", "refused"}
    /\ GoDown
    /\ UNCHANGED <<journal, snap>>

\* The write of a command's line is cut short.
CrashWhileRecording(c) ==
    /\ "journal" \in Tears
    /\ phase = "ready" /\ Len(sent) < MaxCommands
    /\ \E line \in Torn(Written(c.sym, c.cmd)) : journal' = Append(journal, line)
    /\ GoDown
    /\ UNCHANGED snap

\* The snapshot is written over the last one, and only its first lines get to
\* the disk.  (Cuts inside a line are left out: an order without its qty has
\* quantity 0, with which the store has no defined behaviour.)
CrashWhileSaving ==
    /\ "snapshot" \in Tears
    /\ phase = "ready"
    /\ \E n \in 0 .. Len(EngineLines(engine)) - 1 :
          snap' = [file |-> SubSeq(EngineLines(engine), 1, n),
                   at |-> Len(journal), mark |-> Len(egress), of |-> engine]
    /\ GoDown
    /\ UNCHANGED journal

----------------------------------------------------------------------------
(* Recovery.                                                               *)

\* Mutant of Restart: the first line after the snapshot is passed over.
RestartPastLine ==
    /\ phase = "down"
    /\ engine' = RestoreEngine(Parse(snap.file))
    /\ pos' = IF snap.at < Len(journal) THEN snap.at + 1 ELSE snap.at
    /\ egress' = SubSeq(egress, 1, snap.mark)
    /\ phase' = "replaying"
    /\ UNCHANGED <<journal, snap, pending, sent, ideal, crashes>>

Restart ==
    /\ phase = "down"
    /\ engine' = RestoreEngine(Parse(snap.file))
    /\ pos' = snap.at
    /\ egress' = SubSeq(egress, 1, snap.mark)
    /\ phase' = "replaying"
    /\ UNCHANGED <<journal, snap, pending, sent, ideal, crashes>>

\* Mutant of ReplayLine: the line is read and nothing comes of it.
ReplaySpins ==
    /\ phase = "replaying" /\ pos < Len(journal)
    /\ Parsed(journal[pos + 1]).ok
    /\ UNCHANGED vars

\* (The singleton set is a LET that TLC evaluates once.)
ReplayLine ==
    /\ phase = "replaying" /\ pos < Len(journal)
    /\ \E read \in {Parsed(journal[pos + 1])} :
         /\ read.ok
         /\ \E done \in {Submitted(engine, read.sym, read.cmd)} :
             /\ engine' = done.engine
             /\ egress' = egress \o Printed(done.events)
    /\ pos' = pos + 1
    /\ UNCHANGED <<journal, snap, pending, phase, sent, ideal, crashes>>

\* The line is not a command: recovery exits with an error.
Refuse ==
    /\ phase = "replaying" /\ pos < Len(journal)
    /\ ~Parsed(journal[pos + 1]).ok
    /\ phase' = "refused"
    /\ UNCHANGED <<files, engine, pending, pos, sent, ideal, crashes>>

Resume ==
    /\ phase = "replaying" /\ pos = Len(journal)
    /\ phase' = "ready"
    /\ UNCHANGED <<files, engine, pending, pos, sent, ideal, crashes>>

Recover == Restart \/ ReplayLine \/ Refuse \/ Resume

Next ==
    \/ \E c \in Commands : Record(c) \/ CrashWhileRecording(c)
    \/ \E c \in Commands, cfg \in OwnConfigs : AddOwnSymbol(c.sym, cfg)
    \/ Submit \/ Deliver \/ TakeSnapshot
    \/ Crash \/ CrashWhileSaving
    \/ Recover

\* A Restart step, told by its effect on phase alone: phase = "down" is all its
\* guard, and no other step goes from there to "replaying".
Restarts == phase = "down" /\ phase' = "replaying"

\* A program that has begun to serve a command, or to recover, goes on with it.
Spec ==
    /\ Init /\ [][Next]_vars
    /\ WF_vars(Submit \/ Deliver)
    /\ WF_phase(Restarts)
    /\ WF_vars(ReplayLine \/ Refuse \/ Resume)

----------------------------------------------------------------------------
(* Safety.                                                                 *)

\* The run without a crash, after all the commands that were recorded.
WithoutCrash == ideal[Len(ideal)]

\* The engine without the books that have not had a command yet: add_symbol() is
\* not journaled, and such a book is as good as none.
Used(e) ==
    LET syms == {sym \in DOMAIN e.books : e.books[sym].seq > 0}
    IN  [e EXCEPT !.books = [sym \in syms |-> @[sym]]]

Phases == {"ready", "recorded", "emitting", "down", "replaying", "refused"}

TypeOK ==
    /\ phase \in Phases
    /\ sent \in Seq(Commands) /\ Len(sent) <= MaxCommands
    /\ snap.at <= Len(journal) /\ snap.mark <= Len(egress)
    /\ pos <= Len(journal)
    /\ pending # <<>> <=> phase = "emitting"
    /\ crashes \in 0 .. MaxCrashes

\* Whenever the engine serves, its books (orders, priority, configurations)
\* and their numbering are those of a run without a crash: every recorded
\* command took effect once, every other never (spec/JOURNAL.md:17-18).
RecoversUninterrupted ==
    phase = "ready" => Used(engine) = WithoutCrash.engine

\* The event journal never holds, nor does recovery ever print, what a run
\* without a crash would not; nothing is missing when the engine serves
\* (spec/JOURNAL.md:30-32).
EventsAreRepeated ==
    IF phase = "ready" THEN egress = WithoutCrash.egress
    ELSE IsPrefix(egress, WithoutCrash.egress)

\* A snapshot of the engine that serves is restored to the engine it was taken
\* of, and its snapshot is the same, line by line (spec/JOURNAL.md:69-70).
RoundTrips ==
    phase = "ready" =>
      LET again == RestoreEngine(Parse(EngineLines(engine)))
      IN  again = engine /\ EngineLines(again) = EngineLines(engine)

\* The events of each symbol are numbered 1, 2, 3, ... across crashes,
\* snapshots and books added late: none is skipped, none comes twice.
NumbersAreDense ==
    \A i \in DOMAIN egress :
      Get(egress[i], "seq") =
        Cardinality({j \in 1 .. i :
                       Get(egress[j], "symbol") = Get(egress[i], "symbol")})

\* A book in memory is never made anew by serving: its configuration stays and
\* its numbers never go back, however often add_symbol() names its symbol.
BookIsKept ==
    phase' \notin {"down", "replaying"} =>
      \A sym \in DOMAIN engine.books :
        /\ sym \in DOMAIN engine'.books
        /\ engine'.books[sym].cfg = engine.books[sym].cfg
        /\ engine'.books[sym].seq >= engine.books[sym].seq

BooksAreKept == [][BookIsKept]_vars

\* When recovery refuses a journal it has replayed every command recorded
\* whole, and printed what they make: only the line of a command that was
\* never recorded is at fault (bench/matcherrecover.cpp:3).  (A torn line that
\* an earlier recovery took for a command is a fault of its own, and so is a
\* snapshot that lost something: what is saved must be what a run without a
\* crash has, the engine and the events.)
RefusesOnlyTheTail ==
    /\ phase = "refused" /\ Len(journal) = Len(sent) + 1
    /\ snap.file = EngineLines(snap.of)
    /\ snap.of = ideal[snap.at + 1].engine
    /\ SubSeq(egress, 1, snap.mark) = ideal[snap.at + 1].egress
    => /\ pos = Len(sent)
       /\ engine = WithoutCrash.engine
       /\ egress = WithoutCrash.egress

\* A snapshot that was cut short loses books and orders, the last ones of the
\* file, and does no other harm: what is restored keeps its number, its place
\* and its quantity, unless the header itself is lost.
TearOnlyLoses ==
    phase = "replaying" /\ pos = snap.at /\ snap.file # <<>> =>
      \A sym \in DOMAIN engine.books :
        /\ sym \in DOMAIN snap.of.books
        /\ engine.books[sym].seq = snap.of.books[sym].seq
        /\ \A side \in Sides : IsPrefix(engine.books[sym].orders[side],
                                        snap.of.books[sym].orders[side])

----------------------------------------------------------------------------
(* The durable log that this implements.                                   *)

Durable ==
    INSTANCE DurableLog WITH
      S0 <- NewEngine(Config),
      Apply <- LAMBDA e, c : Submitted(e, c.sym, c.cmd).engine,
      log <- sent,
      states <- [i \in DOMAIN ideal |-> ideal[i].engine],
      state <- Used(engine),
      saved <- Used(snap.of),
      at <- snap.at,
      phase <- IF phase = "emitting" THEN "ready" ELSE phase

ImplementsDurableLog == Durable!Spec

----------------------------------------------------------------------------
(* Liveness.                                                               *)

\* Whatever crashes come between, the engine serves again.  By then every
\* command recorded has been applied and its events are out, by
\* RecoversUninterrupted and EventsAreRepeated.
ServesAgain == phase # "ready" ~> phase = "ready"
============================================================================

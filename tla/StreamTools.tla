---------------------------- MODULE StreamTools ----------------------------
(***************************************************************************)
(* Three programs that read the same file, a header line and then a line   *)
(* per command: matcherrun (bench/matcherrun.cpp), matchersnap             *)
(* (bench/matchersnap.cpp) and matcherfuzz (bench/matcherfuzz.cpp).        *)
(*                                                                         *)
(* A step takes the next line of the file through all three, so that every *)
(* state is the end of some file.  Lines that are empty, which all three   *)
(* pass over, are left out.                                                *)
(***************************************************************************)
EXTENDS Snapshot, EventLines

CONSTANTS
    Headers,     \* the first lines of files
    FileLines,   \* the other lines, commands and malformed lines
    MaxLines     \* bound on the lines of a file

VARIABLES
    header,  \* what parse_header() makes of the first line
    lines,   \* the lines read since (history)
    run,     \* matcherrun: [engine, out, ok]
    fuzz,    \* matcherfuzz: the same; out is a buffer, of which an error may lose
             \* what was not flushed
    dump     \* matchersnap: [engine, cmd], cmd its scratch command

toolVars == <<header, lines, run, fuzz, dump>>

\* parse_header()
HeaderOf(line) ==
    [cfg |-> BookConfig(IF Get(line, "index") = "tree" THEN "Tree" ELSE "Ladder",
                        Num(line, "pmin"), Or(Get(line, "pmax"), 1000000),
                        Or(Get(line, "max_orders"), 65536)),
     engine |-> Get(line, "engine") = "true"]

\* A Command that nothing was assigned to: its kind is not initialised, and
\* what is there may be no kind at all.
Unassigned == {Changing(kind, 0, 0, 0) : kind \in {"New", "Cancel", "Replace",
                                                   "None"}}

ToolsInit ==
    \E first \in Headers, cmd \in Unassigned :
      LET h == HeaderOf(first)
      IN  /\ header = h /\ lines = <<>>
          /\ run = [engine |-> NewEngine(h.cfg), out |-> <<>>, ok |-> TRUE]
          /\ fuzz = [engine |-> NewEngine([h.cfg EXCEPT !.index = "Ladder"]),
                     out |-> <<>>, ok |-> TRUE]
          /\ dump = [engine |-> NewEngine(h.cfg), cmd |-> cmd]

\* The lines of events: an engine's have the symbol, those of a book alone have
\* none to print.
Shown(events, tagged) ==
    IF tagged THEN Printed(events)
    ELSE [i \in DOMAIN events |-> Canonical(events[i].seq, events[i].ev)]

\* A program that ends at the first line that is not a command.
ReadStrictly(tool, sym, read, tagged) ==
    LET done == Submitted(tool.engine, sym, read.cmd)
    IN  IF tool.ok /\ read.ok
        THEN [tool EXCEPT !.engine = done.engine,
                          !.out = @ \o Shown(done.events, tagged)]
        ELSE [tool EXCEPT !.ok = FALSE]

\* Mutant of FuzzSymbol: the single book, whatever the header asks for.
FuzzSymbol0(read) == 0

\* matcherfuzz has a single book, whatever the symbol, unless the header asks
\* for an engine.
FuzzSymbol(read) == IF header.engine THEN read.sym ELSE 0

\* matchersnap does not look at what parse_command() returns: a line that is
\* not a command leaves the scratch command as it was, and it is applied.  The
\* first form is a mutant: the command is applied to the book of symbol 0.
ReadToSymbol0(read) ==
    LET cmd == IF read.ok THEN read.cmd ELSE dump.cmd
    IN  [engine |-> Submitted(dump.engine, 0, cmd).engine, cmd |-> cmd]

ReadRegardless(read) ==
    LET cmd == IF read.ok THEN read.cmd ELSE dump.cmd
    IN  [engine |-> IF cmd.kind = "None" THEN BookOrCreate(dump.engine, read.sym)
                    ELSE Submitted(dump.engine, read.sym, cmd).engine,
         cmd |-> cmd]

ReadLine(line) ==
    LET read == Parsed(line)
    IN  /\ Len(lines) < MaxLines
        /\ lines' = Append(lines, line)
        /\ run' = ReadStrictly(run, read.sym, read, TRUE)
        /\ fuzz' = ReadStrictly(fuzz, FuzzSymbol(read), read, header.engine)
        /\ dump' = ReadRegardless(read)
        /\ UNCHANGED header

ToolsNext == \E line \in FileLines : ReadLine(line)

ToolsSpec == ToolsInit /\ [][ToolsNext]_toolVars

----------------------------------------------------------------------------

\* matcherrun --snap and matchersnap write the same snapshot of a file that
\* matcherrun reads to the end.
SnapshotsAgree == run.ok => EngineLines(run.engine) = EngineLines(dump.engine)

\* A line without its symbol, if it has one.
Nameless(line) ==
    LET named == {k \in DOMAIN line : line[k].key = "symbol"}
    IN  IF named = {} THEN line ELSE RemoveAt(line, CHOOSE k \in named : TRUE)

WithoutSymbol(printed) == [i \in DOMAIN printed |-> Nameless(printed[i])]

\* matcherfuzz prints what matcherrun prints of a file without a malformed
\* line, and both end at the first one of a file with one: with an engine
\* always, with a single book when the file has a single symbol, as long as the
\* header asks for the ladder that matcherfuzz uses.
StreamsAgree ==
    header.cfg.index = "Ladder" =>
      /\ fuzz.ok = run.ok
      /\ run.ok /\ header.engine => fuzz.out = run.out
      /\ run.ok /\ Cardinality({Parsed(lines[i]).sym : i \in DOMAIN lines}) = 1
           => WithoutSymbol(fuzz.out) = WithoutSymbol(run.out)
============================================================================

----------------------------- MODULE DurableLog -----------------------------
(***************************************************************************)
(* What recovery promises of a deterministic state machine that writes     *)
(* every command to a log before applying it, and saves its state from     *)
(* time to time (spec/JOURNAL.md, as recovery in bench/matcherrecover.cpp  *)
(* and tests/snapshot.cpp carries it out).  Recovery is shown to implement *)
(* this module with an engine for the state machine.                       *)
(***************************************************************************)
EXTENDS Naturals, Sequences

CONSTANTS
    Commands,     \* what the log records
    S0,           \* the state before any command
    Apply(_, _)   \* the state a command makes of a state

VARIABLES
    log,     \* the commands recorded, never lost
    states,  \* states[i + 1] is the state after the first i commands
    state,   \* the state in memory
    saved,   \* the state in the last snapshot
    at,      \* how many commands it covers
    pos,     \* how many commands of the log are applied, while replaying
    phase    \* "ready", "recorded", "down" or "replaying"

vars == <<log, states, state, saved, at, pos, phase>>

Init ==
    /\ log = <<>> /\ states = <<S0>>
    /\ state = S0
    /\ saved = S0 /\ at = 0
    /\ pos = 0
    /\ phase = "ready"

Record(c) ==
    /\ phase = "ready"
    /\ log' = Append(log, c)
    /\ states' = Append(states, Apply(states[Len(states)], c))
    /\ phase' = "recorded"
    /\ UNCHANGED <<state, saved, at, pos>>

Submit ==
    /\ phase = "recorded"
    /\ state' = Apply(state, log[Len(log)])
    /\ phase' = "ready"
    /\ UNCHANGED <<log, states, saved, at, pos>>

Save ==
    /\ phase = "ready"
    /\ saved' = state /\ at' = Len(log)
    /\ UNCHANGED <<log, states, state, pos, phase>>

\* The state in memory is lost: no later step reads it before it is set.
Crash ==
    /\ phase # "down"
    /\ phase' = "down"
    /\ UNCHANGED <<log, states, state, saved, at, pos>>

Restart ==
    /\ phase = "down"
    /\ state' = saved /\ pos' = at
    /\ phase' = "replaying"
    /\ UNCHANGED <<log, states, saved, at>>

Replay ==
    /\ phase = "replaying" /\ pos < Len(log)
    /\ state' = Apply(state, log[pos + 1])
    /\ pos' = pos + 1
    /\ UNCHANGED <<log, states, saved, at, phase>>

Resume ==
    /\ phase = "replaying" /\ pos = Len(log)
    /\ phase' = "ready"
    /\ UNCHANGED <<log, states, state, saved, at, pos>>

Next ==
    \/ \E c \in Commands : Record(c)
    \/ Submit \/ Save \/ Crash \/ Restart \/ Replay \/ Resume

Spec == Init /\ [][Next]_vars

----------------------------------------------------------------------------

\* Whenever the system serves, its state is that of a run that never crashed:
\* every command recorded is applied once and in order (spec/JOURNAL.md:17-18).
Exact == phase = "ready" => state = states[Len(states)]

\* The snapshot is the state after the commands it covers, whatever was
\* recorded since.
SavedIsPast == at <= Len(log) /\ saved = states[at + 1]

\* A replay in progress has the state after the commands it has applied.
ReplayIsPast ==
    phase = "replaying" => pos <= Len(log) /\ state = states[pos + 1]
============================================================================

------------------------------ MODULE OrderMap ------------------------------
(***************************************************************************)
(* The open-addressed map from order id to location (OrderMap,             *)
(* include/matcher/detail/internals.hpp), with linear probing and          *)
(* backward-shift deletion, as the book uses it: a replace holds the       *)
(* pointer get() gave it while it crosses, other entries are removed       *)
(* meanwhile, and the location is written through the pointer only if no   *)
(* entry has moved since.                                                  *)
(*                                                                         *)
(* home stands for mix(k) & mask: it is fixed, and any function will do.   *)
(* An entry is NIL where its tag is 0; the tag's hash bits only save a     *)
(* comparison of keys, and are left out.                                   *)
(***************************************************************************)
EXTENDS Integers, FiniteSets

CONSTANTS
    Keys,        \* order ids
    Vals,        \* locations
    Cap,         \* mask + 1
    LiveMax,     \* the most entries the book keeps: max_orders
    RemovesMod,  \* one more than the largest count of removes
    NIL          \* no value

\* The constructor doubles cap until it is at least twice live_max; all that
\* probing needs is an empty slot.
ASSUME SomeSlotIsEmpty == Cap \in Nat /\ LiveMax \in 0 .. (Cap - 1)
\* A replace removes fewer entries than would bring the count of removes
\* round to where it was.
ASSUME RemovesOutlastReplace == RemovesMod \in Nat \ {0} /\ LiveMax <= RemovesMod

VARIABLES
    home,      \* [Keys -> Slots]: where the probing of a key begins
    entries,   \* [Slots -> Entries \cup {NIL}]
    len,       \* the number of entries
    removes,   \* bumped by every remove
    ploc,      \* the pointer a running replace holds, or NIL
    promised   \* [Keys -> Vals \cup {NIL}]: what the calls made so far amount to

vars == <<home, entries, len, removes, ploc, promised>>

Slots == 0 .. (Cap - 1)
Entries == [key : Keys, val : Vals]
Pointers == [key : Keys, at : Slots, removes : 0 .. (RemovesMod - 1)]

ASSUME NilIsNoValue == NIL \notin Vals \cup Entries \cup Pointers

----------------------------------------------------------------------------

\* The slot where probing for k ends: the first, from its home on, that holds
\* k or is empty.
Stops(k, i) == entries[i] = NIL \/ entries[i].key = k

EndOfProbe(k) ==
    LET at(d) == (home[k] + d) % Cap
        d0 == CHOOSE d \in Slots : /\ Stops(k, at(d))
                                   /\ \A e \in 0 .. (d - 1) : ~Stops(k, at(e))
    IN  at(d0)

\* get(): the location of k, or NIL.
Get(k) ==
    LET e == entries[EndOfProbe(k)] IN IF e = NIL THEN NIL ELSE e.val

Contains(k) == Get(k) # NIL

\* Mutant of Crosses: an entry whose home is the hole itself stays.
CrossesPastHole(hole, j, h) ==
    IF hole < j THEN ~(hole <= h /\ h <= j) ELSE ~(hole <= h \/ h <= j)

\* The probe chain of an entry at j, whose home is h, crosses the hole: its
\* home is not in the cyclic interval after the hole up to j.
Crosses(hole, j, h) ==
    IF hole < j THEN ~(hole < h /\ h <= j) ELSE ~(hole < h \/ h <= j)

\* One step of the backward shift, at slot j.
ShiftStep(st, j) ==
    IF st.done \/ st.entries[j] = NIL THEN [st EXCEPT !.done = TRUE]
    ELSE IF Crosses(st.hole, j, home[st.entries[j].key])
         THEN [st EXCEPT !.entries[st.hole] = st.entries[j],
                         !.entries[j] = NIL,
                         !.hole = j]
         ELSE st

\* The entries after the one at slot i is removed.  The first form is a
\* mutant: the hole is left where it is.
WithHole(i) == [entries EXCEPT ![i] = NIL]

Without(i) ==
    LET scan[d \in 0 .. Cap] ==
          IF d = 0 THEN [entries |-> WithHole(i), hole |-> i, done |-> FALSE]
          ELSE ShiftStep(scan[d - 1], (i + d) % Cap)
    IN  scan[Cap].entries

----------------------------------------------------------------------------

\* There is room for one more order.  The first form is a mutant.
HasMoreRoom == len <= LiveMax
HasRoom == len < LiveMax

\* insert(): overwrites the entry of k, or takes the empty slot its probe
\* ends at.
Put(k, v) ==
    /\ entries' = [entries EXCEPT ![EndOfProbe(k)] = [key |-> k, val |-> v]]
    /\ len' = IF Contains(k) THEN len ELSE len + 1
    /\ promised' = [promised EXCEPT ![k] = v]

\* An order comes to rest: rest() inserts a key it knows to be absent.
Insert(k, v) ==
    /\ ploc = NIL
    /\ ~Contains(k) /\ HasRoom
    /\ Put(k, v)
    /\ UNCHANGED <<home, removes, ploc>>

\* remove(): does nothing if the probe ends at an empty slot.
Drop(k) ==
    /\ IF Contains(k)
       THEN /\ entries' = Without(EndOfProbe(k))
            /\ len' = len - 1
            /\ removes' = (removes + 1) % RemovesMod
       ELSE UNCHANGED <<entries, len, removes>>
    /\ promised' = [promised EXCEPT ![k] = NIL]

\* An order leaves: a cancel, or a fill by the cross of any other order.
Remove(k) ==
    /\ Contains(k)
    /\ ploc # NIL => ploc.key # k
    /\ Drop(k)
    /\ UNCHANGED <<home, ploc>>

\* replace() keeps the pointer to its entry and the count of removes, and
\* begins to cross.
BeginReplace(k) ==
    /\ ploc = NIL
    /\ Contains(k)
    /\ ploc' = [key |-> k, at |-> EndOfProbe(k), removes |-> removes]
    /\ UNCHANGED <<home, entries, len, removes, promised>>

\* The replace has filled its order.
EndReplaceFilled ==
    /\ ploc # NIL
    /\ Drop(ploc.key)
    /\ ploc' = NIL
    /\ UNCHANGED home

\* The pointer still points at its entry, as far as replace() can tell.  The
\* first form is a mutant: it never asks.
AlwaysValid == TRUE
PointerIsValid == removes = ploc.removes

\* The order is back in the book, at location v.
EndReplaceRests(v) ==
    /\ ploc # NIL
    /\ IF PointerIsValid
       THEN /\ entries' = [entries EXCEPT ![ploc.at] =
                             IF @ = NIL THEN NIL ELSE [@ EXCEPT !.val = v]]
            /\ promised' = [promised EXCEPT ![ploc.key] = v]
            /\ UNCHANGED len
       ELSE Put(ploc.key, v)
    /\ ploc' = NIL
    /\ UNCHANGED <<home, removes>>

Init ==
    /\ home \in [Keys -> Slots]
    /\ entries = [i \in Slots |-> NIL]
    /\ len = 0
    /\ removes = 0
    /\ ploc = NIL
    /\ promised = [k \in Keys |-> NIL]

Next ==
    \/ \E k \in Keys : Remove(k) \/ BeginReplace(k)
    \/ \E k \in Keys, v \in Vals : Insert(k, v)
    \/ EndReplaceFilled
    \/ \E v \in Vals : EndReplaceRests(v)

Spec == Init /\ [][Next]_vars

----------------------------------------------------------------------------

TypeOK ==
    /\ home \in [Keys -> Slots]
    /\ entries \in [Slots -> Entries \cup {NIL}]
    /\ len \in 0 .. LiveMax
    /\ removes \in 0 .. (RemovesMod - 1)
    /\ ploc \in Pointers \cup {NIL}
    /\ promised \in [Keys -> Vals \cup {NIL}]

\* Whatever the hash, and however entries have been shifted, get() finds every
\* key that was put and not removed, with its last value, and no other key.
GetsWhatWasPut == \A k \in Keys : Get(k) = promised[k]

\* There are as many entries as keys, so no key is stored twice (a second copy
\* would come back to life when the first is removed) and a probe that finds
\* nothing ends.
EntriesAreCounted ==
    /\ len = Cardinality({i \in Slots : entries[i] # NIL})
    /\ len = Cardinality({k \in Keys : promised[k] # NIL})
============================================================================

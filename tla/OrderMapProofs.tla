--------------------------- MODULE OrderMapProofs ---------------------------
(***************************************************************************)
(* The order map finds what was put, for every set of ids, every capacity, *)
(* every hash function, and however backward shifts have moved entries.    *)
(*                                                                         *)
(* A table is Sound when no key is stored twice and no empty slot lies     *)
(* between the home of an entry and the entry.  A removal breaks the       *)
(* second part; the backward shift restores it, and the proof of that is   *)
(* an induction on the slots it scans.                                     *)
(***************************************************************************)
EXTENDS OrderMap, InductionLemmas

----------------------------------------------------------------------------
(* The table as a circle.                                                  *)

\* How many slots a probe that begins at a goes before it reaches b.
Dist(a, b) == IF a <= b THEN b - a ELSE b - a + Cap

LEMMA SlotNumbers ==
    /\ Cap \in Nat \ {0} /\ LiveMax \in Nat /\ LiveMax < Cap
    /\ \A s \in Slots : s \in Int /\ 0 <= s /\ s < Cap
    /\ \A s \in Int : 0 <= s /\ s < Cap => s \in Slots
BY SomeSlotIsEmpty DEF Slots

LEMMA DistFacts ==
    ASSUME NEW a \in Slots, NEW b \in Slots
    PROVE  /\ Dist(a, b) \in 0 .. (Cap - 1)
           /\ (a + Dist(a, b)) % Cap = b
<1>1. Cap \in Nat \ {0} /\ a \in Int /\ b \in Int /\ 0 <= a /\ a < Cap
        /\ 0 <= b /\ b < Cap
  BY SlotNumbers
<1>2. CASE a <= b
  BY <1>1, <1>2, ModLeast DEF Dist
<1>3. CASE ~(a <= b)
  <2>1. PICK x \in Int : x = a + Dist(a, b)
    BY <1>1 DEF Dist
  <2>2. x = Cap * 1 + b /\ b \in 0 .. (Cap - 1) /\ 1 \in Int
    BY <1>1, <1>3, <2>1 DEF Dist
  <2>3. x % Cap = b
    BY <1>1, <2>2, RemainderIs
  <2> QED  BY <1>1, <1>3, <2>1, <2>3 DEF Dist
<1> QED  BY <1>2, <1>3

LEMMA StepFacts ==
    ASSUME NEW a \in Slots, NEW d \in 0 .. (Cap - 1)
    PROVE  /\ (a + d) % Cap \in Slots
           /\ Dist(a, (a + d) % Cap) = d
<1>1. Cap \in Nat \ {0} /\ a \in Int /\ 0 <= a /\ a < Cap
  BY SlotNumbers
<1>2. CASE a + d < Cap
  <2>1. (a + d) % Cap = a + d
    BY <1>1, <1>2, ModLeast
  <2> QED  BY <1>1, <1>2, <2>1 DEF Slots, Dist
<1>3. CASE ~(a + d < Cap)
  <2>1. a + d = Cap * 1 + (a + d - Cap) /\ a + d \in Int
          /\ a + d - Cap \in 0 .. (Cap - 1)
    BY <1>1, <1>3
  <2>2. (a + d) % Cap = a + d - Cap
    BY <1>1, <2>1, RemainderIs
  <2> QED  BY <1>1, <1>3, <2>1, <2>2 DEF Slots, Dist
<1> QED  BY <1>2, <1>3

LEMMA DistOnce ==
    ASSUME NEW a \in Slots, NEW b \in Slots, NEW c \in Slots,
           Dist(a, b) = Dist(a, c)
    PROVE  b = c
BY SlotNumbers DEF Dist

----------------------------------------------------------------------------
(* Sound tables.                                                           *)

Tables == [Slots -> Entries \cup {NIL}]

\* The probe for the entry at j passes slot s before it gets there.
Passes(E, j, s) == Dist(home[E[j].key], s) < Dist(home[E[j].key], j)

Unique(E) ==
    \A i, j \in Slots :
       E[i] # NIL /\ E[j] # NIL /\ E[i].key = E[j].key => i = j

\* Every entry is reached from its home, except perhaps over the slot hole.
ReachedBut(E, hole) ==
    \A j, s \in Slots : E[j] # NIL /\ Passes(E, j, s) /\ s # hole => E[s] # NIL

Reached(E) ==
    \A j, s \in Slots : E[j] # NIL /\ Passes(E, j, s) => E[s] # NIL

Occupied(E) == {i \in Slots : E[i] # NIL}

Sound(E) ==
    /\ E \in Tables /\ Unique(E) /\ Reached(E)
    /\ \E z \in Slots : E[z] = NIL

LEMMA EntryFacts ==
    ASSUME home \in [Keys -> Slots], NEW E \in Tables, NEW j \in Slots,
           E[j] # NIL
    PROVE  E[j] \in Entries /\ E[j].key \in Keys /\ E[j].val \in Vals
             /\ home[E[j].key] \in Slots
BY DEF Tables, Entries

\* A probe ends, at the first slot that holds the key or is empty.
LEMMA ProbeEnds ==
    ASSUME home \in [Keys -> Slots], Sound(entries), NEW k \in Keys
    PROVE  LET i == EndOfProbe(k)
           IN  /\ i \in Slots /\ Stops(k, i)
               /\ \A s \in Slots :
                     Dist(home[k], s) < Dist(home[k], i) => ~Stops(k, s)
<1> DEFINE h == home[k]
           at(d) == (h + d) % Cap
           Ends(d) == /\ Stops(k, at(d))
                      /\ \A e \in 0 .. (d - 1) : ~Stops(k, at(e))
           d0 == CHOOSE d \in Slots : Ends(d)
           S == {d \in Slots : Stops(k, at(d))}
<1>1. h \in Slots
  OBVIOUS
<1>2. \E d \in Slots : Ends(d)
  <2>1. PICK z \in Slots : entries[z] = NIL
    BY DEF Sound
  <2>2. Dist(h, z) \in Slots /\ at(Dist(h, z)) = z
    BY <1>1, DistFacts DEF Slots
  <2>3. S \subseteq Nat /\ S # {}
    BY <2>1, <2>2, SlotNumbers DEF Stops
  <2>4. PICK d \in S : \A e \in S : d <= e
    <3> HIDE DEF S
    <3> QED  BY <2>3, NatLeast
  <2>5. d \in Slots /\ Stops(k, at(d))
    OBVIOUS
  <2>6. ASSUME NEW e \in 0 .. (d - 1), Stops(k, at(e))
        PROVE  FALSE
    <3>1. e \in Slots /\ e < d
      BY <2>5, SlotNumbers
    <3>2. e \in S
      BY <2>6, <3>1
    <3> HIDE DEF S
    <3> QED  BY <2>4, <2>5, <3>1, <3>2, SlotNumbers
  <2> QED  BY <2>5, <2>6
<1>3. d0 \in Slots /\ Ends(d0)
  <2> HIDE DEF Ends
  <2> QED  BY <1>2
<1>4. EndOfProbe(k) = at(d0)
  BY DEF EndOfProbe
<1>5. at(d0) \in Slots /\ Dist(h, at(d0)) = d0
  <2> HIDE DEF d0, h
  <2> QED  BY <1>1, <1>3, StepFacts DEF Slots
<1>6. ASSUME NEW s \in Slots, Dist(h, s) < d0
      PROVE  ~Stops(k, s)
  <2> HIDE DEF d0, h
  <2>1. Dist(h, s) \in 0 .. (d0 - 1) /\ at(Dist(h, s)) = s
    BY <1>1, <1>3, <1>6, DistFacts, SlotNumbers
  <2>2. \A e \in 0 .. (d0 - 1) : ~Stops(k, at(e))
    BY <1>3
  <2> HIDE DEF at
  <2> QED  BY <2>1, <2>2
<1>7. Stops(k, at(d0))
  BY <1>3
<1> HIDE DEF at, d0
<1> QED  BY <1>4, <1>5, <1>6, <1>7

\* The probe for a key that is stored ends at its entry.
LEMMA ProbeFinds ==
    ASSUME home \in [Keys -> Slots], Sound(entries), NEW j \in Slots,
           entries[j] # NIL
    PROVE  EndOfProbe(entries[j].key) = j
<1> DEFINE k == entries[j].key
           i == EndOfProbe(k)
<1>1. k \in Keys /\ home[k] \in Slots
  BY EntryFacts DEF Sound
<1>2. /\ i \in Slots /\ Stops(k, i)
      /\ \A s \in Slots : Dist(home[k], s) < Dist(home[k], i) => ~Stops(k, s)
  <2> HIDE DEF k
  <2> QED  BY <1>1, ProbeEnds
<1>3. Stops(k, j)
  BY DEF Stops
<1>4. /\ Dist(home[k], i) \in 0 .. (Cap - 1)
      /\ Dist(home[k], j) \in 0 .. (Cap - 1)
  <2> HIDE DEF k, i
  <2> QED  BY <1>1, <1>2, DistFacts
<1>5. ~(Dist(home[k], j) < Dist(home[k], i))
  BY <1>2, <1>3
<1>6. CASE Dist(home[k], i) = Dist(home[k], j)
  <2> HIDE DEF k, i
  <2>1. i = j
    BY <1>1, <1>2, <1>6, DistOnce
  <2> QED  BY <2>1 DEF i, k
<1>7. CASE Dist(home[k], i) < Dist(home[k], j)
  <2>1. entries[i] # NIL
    BY <1>2, <1>7 DEF Sound, Reached, Passes
  <2>2. entries[i].key = k
    BY <1>2, <2>1 DEF Stops
  <2> QED  BY <1>2, <2>1, <2>2 DEF Sound, Unique
<1> HIDE DEF k, i
<1> QED  BY <1>4, <1>5, <1>6, <1>7 DEF k, i

\* The probe for any other key ends at an empty slot.
LEMMA ProbeMisses ==
    ASSUME home \in [Keys -> Slots], Sound(entries), NEW k \in Keys,
           \A j \in Slots : entries[j] # NIL => entries[j].key # k
    PROVE  entries[EndOfProbe(k)] = NIL /\ EndOfProbe(k) \in Slots
BY ProbeEnds DEF Stops

----------------------------------------------------------------------------
(* The backward shift.                                                     *)

ScanInit(i) == [entries |-> WithHole(i), hole |-> i, done |-> FALSE]

\* The scan of Without, for n slots.
ScanBody(i, n, f) ==
    [d \in 0 .. n |-> IF d = 0 THEN ScanInit(i)
                      ELSE ShiftStep(f[d - 1], (i + d) % Cap)]

LEMMA ScanExists ==
    ASSUME NEW i
    PROVE  \A n \in Nat : \E f : f = ScanBody(i, n, f)
<1> DEFINE T == {n \in Nat : \E f : f = ScanBody(i, n, f)}
<1>1. 0 \in T
  <2> DEFINE f == [d \in 0 .. 0 |-> ScanInit(i)]
  <2>1. f = ScanBody(i, 0, f)
    BY DEF ScanBody
  <2> QED  BY <2>1
<1>2. ASSUME NEW n \in Nat, n \in T
      PROVE  n + 1 \in T
  <2>1. PICK f : f = ScanBody(i, n, f)
    BY <1>2
  <2> DEFINE g == [d \in 0 .. (n + 1) |->
                     IF d = n + 1 THEN ShiftStep(f[n], (i + d) % Cap) ELSE f[d]]
  <2>2. g = ScanBody(i, n + 1, g)
    <3>1. \A d \in 0 .. n : g[d] = f[d]
      OBVIOUS
    <3>2. \A d \in 0 .. n : f[d] = IF d = 0 THEN ScanInit(i)
                                   ELSE ShiftStep(f[d - 1], (i + d) % Cap)
      BY <2>1 DEF ScanBody
    <3>3. ASSUME NEW d \in 0 .. (n + 1)
          PROVE  g[d] = IF d = 0 THEN ScanInit(i)
                        ELSE ShiftStep(g[d - 1], (i + d) % Cap)
      <4>1. CASE d = n + 1
        <5>1. g[d] = ShiftStep(f[n], (i + d) % Cap)
          BY <4>1
        <5>2. g[n] = f[n] /\ d - 1 = n /\ d # 0
          BY <3>1, <4>1
        <5> HIDE DEF g
        <5> QED  BY <5>1, <5>2
      <4>2. CASE d \in 0 .. n
        <5>1. d # 0 => g[d - 1] = f[d - 1]
          BY <3>1, <4>2
        <5>2. g[d] = f[d]
          BY <3>1, <4>2
        <5> HIDE DEF g
        <5> QED  BY <3>2, <4>2, <5>1, <5>2
      <4> QED  BY <4>1, <4>2
    <3>4. g = [d \in 0 .. (n + 1) |-> g[d]]
      OBVIOUS
    <3> HIDE DEF g
    <3> QED  BY <3>3, <3>4 DEF ScanBody
  <2> QED  BY <2>2
<1> HIDE DEF T
<1>3. \A n \in Nat : n \in T
  BY <1>1, <1>2, NatInductive
<1> QED  BY <1>3 DEF T

\* Without is the state of the scan after Cap slots.
LEMMA WithoutIsScan ==
    ASSUME NEW i
    PROVE  \E f : f = ScanBody(i, Cap, f) /\ Without(i) = f[Cap].entries
<1> DEFINE f == CHOOSE f : f = ScanBody(i, Cap, f)
<1>1. f = ScanBody(i, Cap, f)
  <2>1. \E g : g = ScanBody(i, Cap, g)
    BY ScanExists, SomeSlotIsEmpty
  <2> QED  BY <2>1
<1>2. Without(i) = f[Cap].entries
  BY DEF Without, ScanBody, ScanInit
<1> HIDE DEF f
<1> QED  BY <1>1, <1>2

LEMMA CrossesIsPasses ==
    ASSUME NEW hole \in Slots, NEW j \in Slots, NEW h \in Slots, hole # j
    PROVE  Crosses(hole, j, h) <=> Dist(h, hole) < Dist(h, j)
BY SlotNumbers DEF Crosses, Dist

\* A probe that passes the hole on the way to s, which is not between the hole
\* and z going forward, passes z as well.
LEMMA PassesFurther ==
    ASSUME NEW i \in Slots, NEW hole \in Slots, NEW z \in Slots, NEW s \in Slots,
           NEW h \in Slots,
           Dist(i, hole) < Dist(i, z), s # hole, s # z,
           ~(Dist(i, hole) < Dist(i, s) /\ Dist(i, s) < Dist(i, z)),
           Dist(h, hole) < Dist(h, s)
    PROVE  Dist(h, z) < Dist(h, s)
BY SlotNumbers DEF Dist

Scans == [entries : Tables, hole : Slots, done : BOOLEAN]

\* E holds what E0 holds, without the entry at i, and has an empty slot at hole.
Keeps(E0, i, E, hole) ==
    /\ E \in Tables /\ Unique(E)
    /\ hole \in Slots /\ E[hole] = NIL /\ E0[hole] # NIL
    /\ \A s \in Slots : E0[s] = NIL => E[s] = NIL
    /\ \A s \in Slots : E[s] # NIL => \E t \in Slots : t # i /\ E0[t] = E[s]
    /\ \A t \in Slots : t # i /\ E0[t] # NIL => \E s \in Slots : E[s] = E0[t]
    /\ Cardinality(Occupied(E)) = Cardinality(Occupied(E0)) - 1

\* The d slots after i have been scanned: but for the hole they are full, and
\* no entry from the hole on is reached over the hole.
Scanned(i, d, E, hole) ==
    /\ ReachedBut(E, hole)
    /\ Dist(i, hole) <= d
    /\ \A s \in Slots : Dist(i, s) <= d /\ s # hole => E[s] # NIL
    /\ \A s \in Slots : Dist(i, hole) < Dist(i, s) /\ Dist(i, s) <= d
                          => ~Passes(E, s, hole)

ScanInv(E0, i, d, st) ==
    /\ st \in Scans
    /\ Keeps(E0, i, st.entries, st.hole)
    /\ IF st.done THEN Reached(st.entries)
       ELSE Scanned(i, d, st.entries, st.hole)

LEMMA OccupiedFinite ==
    ASSUME NEW E
    PROVE  IsFiniteSet(Occupied(E)) /\ Cardinality(Occupied(E)) \in Nat
<1>1. Cap - 1 \in Int /\ 0 \in Int
  BY SlotNumbers
<1>2. IsFiniteSet(Slots)
  BY <1>1, FS_Interval DEF Slots
<1>3. IsFiniteSet(Occupied(E))
  BY <1>2, FS_Subset DEF Occupied
<1> QED  BY <1>3, FS_CardinalityType

\* The entry at j is moved into the hole.
Moved(E, hole, j) == [E EXCEPT ![hole] = E[j], ![j] = NIL]

LEMMA MovedAt ==
    ASSUME NEW E \in Tables, NEW hole \in Slots, NEW j \in Slots, hole # j,
           NEW E2, E2 = Moved(E, hole, j), NEW s \in Slots
    PROVE  E2[s] = IF s = j THEN NIL ELSE IF s = hole THEN E[j] ELSE E[s]
BY DEF Tables, Moved

LEMMA MoveKeeps ==
    ASSUME NEW E0, NEW i, NEW E, NEW hole, NEW j \in Slots,
           Keeps(E0, i, E, hole), E[j] # NIL,
           NEW E2, E2 = Moved(E, hole, j)
    PROVE  Keeps(E0, i, E2, j)
<1>1. /\ E \in Tables /\ Unique(E)
      /\ hole \in Slots /\ E[hole] = NIL /\ E0[hole] # NIL
      /\ \A s \in Slots : E0[s] = NIL => E[s] = NIL
      /\ \A s \in Slots : E[s] # NIL => \E t \in Slots : t # i /\ E0[t] = E[s]
      /\ \A t \in Slots : t # i /\ E0[t] # NIL => \E s \in Slots : E[s] = E0[t]
      /\ Cardinality(Occupied(E)) = Cardinality(Occupied(E0)) - 1
  BY DEF Keeps
<1>2. hole # j
  BY <1>1
<1>3. \A s \in Slots : E2[s] = IF s = j THEN NIL
                               ELSE IF s = hole THEN E[j] ELSE E[s]
  BY <1>1, <1>2, MovedAt
<1>4. E2 \in Tables
  BY <1>1 DEF Tables, Moved
<1>5. Unique(E2)
  BY <1>1, <1>2, <1>3 DEF Unique
<1>6. E0[j] # NIL /\ \A s \in Slots : E0[s] = NIL => E2[s] = NIL
  BY <1>1, <1>3
<1>7. ASSUME NEW s \in Slots, E2[s] # NIL
      PROVE  \E t \in Slots : t # i /\ E0[t] = E2[s]
  <2>1. PICK x \in Slots : E[x] = E2[s] /\ E[x] # NIL
    BY <1>3, <1>7
  <2>2. PICK t \in Slots : t # i /\ E0[t] = E[x]
    BY <1>1, <2>1
  <2> QED  BY <2>1, <2>2
<1>8. ASSUME NEW t \in Slots, t # i, E0[t] # NIL
      PROVE  \E s \in Slots : E2[s] = E0[t]
  <2>1. PICK s \in Slots : E[s] = E0[t]
    BY <1>1, <1>8
  <2>2. CASE s = j
    BY <1>1, <1>2, <1>3, <2>1, <2>2
  <2>3. CASE s # j
    <3>1. s # hole
      BY <1>1, <1>8, <2>1
    <3>2. E2[s] = E[s]
      BY <1>3, <2>3, <3>1
    <3> QED  BY <2>1, <3>2
  <2> QED  BY <2>2, <2>3
<1>9. Cardinality(Occupied(E2)) = Cardinality(Occupied(E))
  <2>1. IsFiniteSet(Occupied(E))
    BY OccupiedFinite
  <2>2. /\ Occupied(E2) = (Occupied(E) \ {j}) \cup {hole}
        /\ j \in Occupied(E) /\ hole \notin Occupied(E) \ {j}
    <3>1. \A s \in Slots : E2[s] # NIL <=> s = hole \/ (E[s] # NIL /\ s # j)
      BY <1>1, <1>2, <1>3
    <3>2. /\ \A s : s \in Occupied(E2) <=> s \in Slots /\ E2[s] # NIL
          /\ \A s : s \in Occupied(E) <=> s \in Slots /\ E[s] # NIL
      BY DEF Occupied
    <3> QED  BY <1>1, <3>1, <3>2
  <2>3. IsFiniteSet(Occupied(E) \ {j})
          /\ Cardinality(Occupied(E) \ {j}) = Cardinality(Occupied(E)) - 1
    BY <2>1, <2>2, FS_RemoveElement
  <2>4. Cardinality((Occupied(E) \ {j}) \cup {hole})
          = Cardinality(Occupied(E) \ {j}) + 1
    BY <2>2, <2>3, FS_AddElement
  <2>5. Cardinality(Occupied(E)) \in Nat
    BY <2>1, FS_CardinalityType
  <2>6. Cardinality(Occupied(E2)) = Cardinality(Occupied(E) \ {j}) + 1
    BY <2>2, <2>4
  <2> QED  BY <2>3, <2>5, <2>6
<1> QED  BY <1>1, <1>2, <1>3, <1>4, <1>5, <1>6, <1>7, <1>8, <1>9 DEF Keeps

\* An empty slot ends the scan, since no probe goes over it to an entry.
LEMMA ScanEnds ==
    ASSUME home \in [Keys -> Slots], NEW i \in Slots,
           NEW d \in 0 .. (Cap - 2), NEW E \in Tables, NEW hole \in Slots,
           Scanned(i, d, E, hole), NEW z \in Slots, Dist(i, z) = d + 1,
           E[z] = NIL
    PROVE  Reached(E)
<1> SUFFICES ASSUME NEW j \in Slots, NEW s \in Slots, E[j] # NIL,
                    Passes(E, j, s), E[s] = NIL
             PROVE  FALSE
  BY DEF Reached
<1>1. s = hole
  BY DEF Scanned, ReachedBut
<1>2. home[E[j].key] \in Slots
  BY EntryFacts
<1>3. Dist(i, hole) < Dist(i, z) /\ j # hole /\ j # z
  <2>1. Dist(i, hole) <= d /\ Dist(i, hole) \in Int
    BY DistFacts DEF Scanned
  <2>2. j # hole
    BY <1>1
  <2> QED  BY <2>1, <2>2
<1>4. ~(Dist(i, hole) < Dist(i, j) /\ Dist(i, j) < Dist(i, z))
  <2>1. Dist(i, j) \in Int
    BY DistFacts
  <2>2. ~(Dist(i, hole) < Dist(i, j) /\ Dist(i, j) <= d)
    BY <1>1 DEF Scanned
  <2> QED  BY <2>1, <2>2
<1>5. Passes(E, j, z)
  <2>1. Dist(home[E[j].key], hole) < Dist(home[E[j].key], j)
    BY <1>1 DEF Passes
  <2>2. PICK h \in Slots : h = home[E[j].key]
    BY <1>2
  <2>3. Dist(h, z) < Dist(h, j)
    BY <1>3, <1>4, <2>1, <2>2, PassesFurther
  <2> QED  BY <2>2, <2>3 DEF Passes
<1>6. z # hole
  BY <1>3, DistFacts
<1> QED  BY <1>5, <1>6 DEF Scanned, ReachedBut

LEMMA ScanDone ==
    ASSUME NEW E0, NEW i, NEW d, NEW E \in Tables, NEW hole \in Slots,
           Keeps(E0, i, E, hole), Reached(E)
    PROVE  ScanInv(E0, i, d, [entries |-> E, hole |-> hole, done |-> TRUE])
<1> DEFINE st == [entries |-> E, hole |-> hole, done |-> TRUE]
<1>1. st \in Scans /\ st.entries = E /\ st.hole = hole /\ st.done = TRUE
  BY DEF Scans
<1> HIDE DEF st
<1>2. ScanInv(E0, i, d, st)
  BY <1>1 DEF ScanInv
<1> QED  BY <1>2 DEF st

LEMMA ScanGoesOn ==
    ASSUME NEW E0, NEW i, NEW d, NEW E \in Tables, NEW hole \in Slots,
           Keeps(E0, i, E, hole), Scanned(i, d, E, hole)
    PROVE  ScanInv(E0, i, d, [entries |-> E, hole |-> hole, done |-> FALSE])
<1> DEFINE st == [entries |-> E, hole |-> hole, done |-> FALSE]
<1>1. st \in Scans /\ st.entries = E /\ st.hole = hole /\ st.done = FALSE
  BY DEF Scans
<1> HIDE DEF st
<1>2. ScanInv(E0, i, d, st)
  BY <1>1 DEF ScanInv
<1> QED  BY <1>2 DEF st

LEMMA ScanStep ==
    ASSUME home \in [Keys -> Slots], NEW i \in Slots, NEW E0,
           NEW d \in 1 .. Cap, NEW st, ScanInv(E0, i, d - 1, st),
           NEW z \in Slots, E0[z] = NIL
    PROVE  ScanInv(E0, i, d, ShiftStep(st, (i + d) % Cap))
<1>1. PICK E \in Tables, hole \in Slots, done \in BOOLEAN :
              st = [entries |-> E, hole |-> hole, done |-> done]
  <2>1. st \in Scans
    BY DEF ScanInv
  <2>2. st = [entries |-> st.entries, hole |-> st.hole, done |-> st.done]
          /\ st.entries \in Tables /\ st.hole \in Slots /\ st.done \in BOOLEAN
    BY <2>1 DEF Scans
  <2> QED  BY <2>2, Zenon
<1>2. st.entries = E /\ st.hole = hole /\ st.done = done
  BY <1>1
<1>3. Keeps(E0, i, E, hole)
  BY <1>2 DEF ScanInv
<1>0. PICK j : j = (i + d) % Cap
  OBVIOUS
<1> DEFINE st2 == ShiftStep(st, j)
<1>4. CASE done
  <2>1. st2 = [st EXCEPT !.done = TRUE]
    BY <1>2, <1>4 DEF ShiftStep
  <2>2. st2 = [entries |-> E, hole |-> hole, done |-> TRUE]
    BY <1>1, <2>1
  <2>3. Reached(E)
    BY <1>2, <1>4 DEF ScanInv
  <2> QED  BY <1>3, <2>2, <2>3, ScanDone, <1>0
<1>5. CASE ~done
  <2>1. Scanned(i, d - 1, E, hole)
    BY <1>2, <1>5 DEF ScanInv
  \* The empty slot z has not been scanned, so there is a slot to scan.
  <2>2. d \in 1 .. (Cap - 1) /\ d - 1 \in 0 .. (Cap - 2)
    <3>1. E[z] = NIL /\ z # hole
      BY <1>3 DEF Keeps
    <3>2. ~(Dist(i, z) <= d - 1)
      BY <2>1, <3>1 DEF Scanned
    <3>3. Dist(i, z) \in 0 .. (Cap - 1)
      BY DistFacts
    <3> QED  BY <3>2, <3>3, SlotNumbers
  <2>3. j \in Slots /\ Dist(i, j) = d
    <3>1. d \in 0 .. (Cap - 1)
      BY <2>2
    <3> QED  BY <1>0, <3>1, StepFacts
  <2>4. Dist(i, hole) \in 0 .. (Cap - 1) /\ Dist(i, hole) <= d - 1
    BY <2>1, DistFacts DEF Scanned
  <2>5. hole # j
    BY <2>2, <2>3, <2>4
  <2>6. CASE E[j] = NIL
    <3>1. st2 = [st EXCEPT !.done = TRUE]
      BY <1>2, <2>6 DEF ShiftStep
    <3>2. st2 = [entries |-> E, hole |-> hole, done |-> TRUE]
      BY <1>1, <3>1
    <3>3. Reached(E)
      <4>1. Dist(i, j) = (d - 1) + 1
        BY <2>2, <2>3
      <4> QED  BY <2>1, <2>2, <2>3, <2>6, <4>1, ScanEnds
    <3> QED  BY <1>3, <3>2, <3>3, ScanDone, <1>0
  <2>7. CASE E[j] # NIL /\ Crosses(hole, j, home[E[j].key])
    <3>0. PICK E2 : E2 = Moved(E, hole, j)
      OBVIOUS
    <3>1. st2 = [st EXCEPT !.entries[st.hole] = st.entries[j],
                           !.entries[j] = NIL, !.hole = j]
      BY <1>2, <1>5, <2>7 DEF ShiftStep
    <3>2. st2 = [entries |-> E2, hole |-> j, done |-> FALSE]
      BY <1>1, <1>2, <1>5, <3>0, <3>1 DEF Moved
    <3>3. /\ \A s \in Slots : E2[s] = IF s = j THEN NIL
                                      ELSE IF s = hole THEN E[j] ELSE E[s]
          /\ Keeps(E0, i, E2, j)
      <4>1. j \in Slots /\ E[j] # NIL
        BY <2>3, <2>7
      <4>2. Keeps(E0, i, E2, j)
        BY <1>3, <3>0, <4>1, MoveKeeps
      <4>3. \A s \in Slots : E2[s] = IF s = j THEN NIL
                                      ELSE IF s = hole THEN E[j] ELSE E[s]
        BY <2>5, <3>0, <4>1, MovedAt
      <4> QED  BY <4>2, <4>3
    <3>4. PICK h \in Slots : h = home[E[j].key]
      BY <2>3, <2>7, EntryFacts
    <3>5. Dist(h, hole) < Dist(h, j)
      BY <2>3, <2>5, <2>7, <3>4, CrossesIsPasses
    <3>6. ReachedBut(E2, j)
      <4> SUFFICES ASSUME NEW m \in Slots, NEW s \in Slots, E2[m] # NIL,
                          Passes(E2, m, s), s # j, E2[s] = NIL
                   PROVE  FALSE
        BY DEF ReachedBut
      <4>1. s # hole /\ E[s] = NIL
        BY <2>3, <2>5, <2>7, <3>3
      <4>2. CASE m = hole
        <5>1. E2[m] = E[j]
          BY <2>5, <3>3, <4>2
        <5>2. Dist(h, s) < Dist(h, hole)
          BY <3>4, <4>2, <5>1 DEF Passes
        <5>3. /\ Dist(h, s) \in Int /\ Dist(h, hole) \in Int
              /\ Dist(h, j) \in Int
          BY <2>3, DistFacts
        <5>4. Dist(h, s) < Dist(h, j)
          BY <3>5, <5>2, <5>3
        <5> QED  BY <2>1, <2>3, <2>7, <3>4, <4>1, <5>4
                    DEF Scanned, ReachedBut, Passes
      <4>3. CASE m # hole
        <5>1. m # j /\ E2[m] = E[m] /\ E[m] # NIL
          BY <2>3, <3>3, <4>3
        <5>2. Passes(E, m, s)
          BY <5>1 DEF Passes
        <5> QED  BY <2>1, <4>1, <5>1, <5>2 DEF Scanned, ReachedBut
      <4> QED  BY <4>2, <4>3
    <3>7. ASSUME NEW s \in Slots, Dist(i, s) <= d, s # j
          PROVE  E2[s] # NIL
      <4>1. CASE s = hole
        BY <2>3, <2>5, <2>7, <3>3, <4>1
      <4>2. CASE s # hole
        <5>1. Dist(i, s) \in Int /\ Dist(i, s) # d
          BY <2>3, <3>7, DistFacts, DistOnce
        <5>2. Dist(i, s) <= d - 1
          BY <2>2, <3>7, <5>1
        <5>3. E[s] # NIL
          BY <2>1, <4>2, <5>2 DEF Scanned
        <5> QED  BY <3>3, <3>7, <4>2, <5>3
      <4> QED  BY <4>1, <4>2
    <3>8. Scanned(i, d, E2, j)
      <4>1. Dist(i, j) <= d
        BY <2>2, <2>3
      <4>2. \A s \in Slots : Dist(i, j) < Dist(i, s) /\ Dist(i, s) <= d
                               => ~Passes(E2, s, j)
        BY <2>2, <2>3, DistFacts
      <4> QED  BY <3>6, <3>7, <4>1, <4>2 DEF Scanned
    <3>9. E2 \in Tables
      BY <3>3 DEF Keeps
    <3> QED  BY <2>3, <3>2, <3>3, <3>8, <3>9, ScanGoesOn, <1>0
  <2>8. CASE E[j] # NIL /\ ~Crosses(hole, j, home[E[j].key])
    <3>1. st2 = st
      BY <1>2, <1>5, <2>8 DEF ShiftStep
    <3>2. ~Passes(E, j, hole)
      <4>1. home[E[j].key] \in Slots
        BY <2>3, <2>8, EntryFacts
      <4> QED  BY <2>3, <2>5, <2>8, <4>1, CrossesIsPasses DEF Passes
    <3>3. ASSUME NEW s \in Slots, Dist(i, s) <= d
          PROVE  s = j \/ Dist(i, s) <= d - 1
      <4>1. Dist(i, s) \in Int
        BY DistFacts
      <4> QED  BY <2>2, <2>3, <3>3, <4>1, DistOnce
    <3>4. Scanned(i, d, E, hole)
      <4>1. Dist(i, hole) <= d
        BY <2>2, <2>4
      <4>2. \A s \in Slots : Dist(i, s) <= d /\ s # hole => E[s] # NIL
        BY <2>1, <2>8, <3>3 DEF Scanned
      <4>3. \A s \in Slots : Dist(i, hole) < Dist(i, s) /\ Dist(i, s) <= d
                               => ~Passes(E, s, hole)
        BY <2>1, <3>2, <3>3 DEF Scanned
      <4> QED  BY <2>1, <4>1, <4>2, <4>3 DEF Scanned
    <3>5. st \in Scans
      BY DEF ScanInv
    <3> HIDE DEF st2
    <3> QED  BY <1>0, <1>2, <1>3, <1>5, <3>1, <3>4, <3>5 DEF ScanInv, st2
  <2> QED  BY <2>6, <2>7, <2>8
<1> QED  BY <1>4, <1>5

LEMMA ScanBegins ==
    ASSUME home \in [Keys -> Slots], Sound(entries), NEW i \in Slots,
           entries[i] # NIL
    PROVE  ScanInv(entries, i, 0, ScanInit(i))
<1>1. PICK E : E = WithHole(i)
  OBVIOUS
<1>2. /\ entries \in Tables /\ Unique(entries) /\ Reached(entries)
  BY DEF Sound
<1>3. E \in Tables /\ \A s \in Slots : E[s] = IF s = i THEN NIL ELSE entries[s]
  BY <1>1, <1>2 DEF WithHole, Tables
<1>4. Cardinality(Occupied(E)) = Cardinality(Occupied(entries)) - 1
  <2>1. IsFiniteSet(Occupied(entries)) /\ Cardinality(Occupied(entries)) \in Nat
    BY OccupiedFinite
  <2>2. i \in Occupied(entries) /\ Occupied(E) = Occupied(entries) \ {i}
    BY <1>3 DEF Occupied
  <2> QED  BY <2>1, <2>2, FS_RemoveElement
<1>5. Keeps(entries, i, E, i)
  <2>1. Unique(E)
    BY <1>2, <1>3 DEF Unique
  <2> QED  BY <1>3, <1>4, <2>1 DEF Keeps
<1>6. ReachedBut(E, i)
  <2> SUFFICES ASSUME NEW j \in Slots, NEW s \in Slots, E[j] # NIL,
                      Passes(E, j, s), s # i
               PROVE  E[s] # NIL
    BY DEF ReachedBut
  <2>1. E[j] = entries[j] /\ E[s] = entries[s]
    BY <1>3
  <2>2. Passes(entries, j, s)
    BY <2>1 DEF Passes
  <2> QED  BY <1>2, <2>1, <2>2 DEF Reached
<1>7. Dist(i, i) = 0
  BY SlotNumbers DEF Dist
<1>8. ASSUME NEW s \in Slots, Dist(i, s) <= 0
      PROVE  s = i
  <2>1. Dist(i, s) = Dist(i, i)
    BY <1>7, <1>8, DistFacts
  <2> QED  BY <2>1, DistOnce
<1>9. Scanned(i, 0, E, i)
  BY <1>6, <1>7, <1>8 DEF Scanned
<1>10. ScanInv(entries, i, 0, [entries |-> E, hole |-> i, done |-> FALSE])
  BY <1>3, <1>5, <1>9, ScanGoesOn
<1> QED  BY <1>1, <1>10 DEF ScanInit

\* Removing an entry leaves a sound table, with the other entries and no more.
LEMMA WithoutSound ==
    ASSUME home \in [Keys -> Slots], Sound(entries), NEW i \in Slots,
           entries[i] # NIL
    PROVE  /\ Sound(Without(i))
           /\ \E hole \in Slots : Keeps(entries, i, Without(i), hole)
<1>1. PICK f : f = ScanBody(i, Cap, f) /\ Without(i) = f[Cap].entries
  BY WithoutIsScan
<1>2. PICK z \in Slots : entries[z] = NIL
  BY DEF Sound
<1> DEFINE T == {d \in Nat : d <= Cap => ScanInv(entries, i, d, f[d])}
<1>3. Cap \in Nat /\ 0 < Cap
  BY SlotNumbers
<1>4. \A d \in 0 .. Cap : f[d] = IF d = 0 THEN ScanInit(i)
                                 ELSE ShiftStep(f[d - 1], (i + d) % Cap)
  BY <1>1 DEF ScanBody
<1>5. 0 \in T
  <2>1. f[0] = ScanInit(i)
    BY <1>3, <1>4
  <2> QED  BY <2>1, ScanBegins
<1>6. ASSUME NEW n \in Nat, n \in T
      PROVE  n + 1 \in T
  <2> SUFFICES ASSUME n + 1 <= Cap
               PROVE  ScanInv(entries, i, n + 1, f[n + 1])
    OBVIOUS
  <2>1. PICK d : d = n + 1
    OBVIOUS
  <2>2. d \in 1 .. Cap /\ d - 1 = n
    BY <1>3, <2>1
  <2>3. f[d] = ShiftStep(f[d - 1], (i + d) % Cap)
    BY <1>4, <2>2
  <2>4. ScanInv(entries, i, d - 1, f[d - 1])
    BY <1>3, <1>6, <2>2
  <2>5. ScanInv(entries, i, d, ShiftStep(f[d - 1], (i + d) % Cap))
    BY <1>2, <2>2, <2>4, ScanStep
  <2> QED  BY <2>1, <2>3, <2>5
<1> HIDE DEF T
<1>7. Cap \in T
  BY <1>3, <1>5, <1>6, NatInductive
<1>8. PICK st : st = f[Cap] /\ ScanInv(entries, i, Cap, st)
  BY <1>3, <1>7 DEF T
<1>9. PICK E, hole : E = st.entries /\ hole = st.hole
  OBVIOUS
<1>10. Keeps(entries, i, E, hole)
  BY <1>8, <1>9 DEF ScanInv
<1>11. hole \in Slots /\ E[hole] = NIL /\ E \in Tables /\ Unique(E)
         /\ E[z] = NIL /\ z # hole
  BY <1>2, <1>10 DEF Keeps
\* The scan has come across the empty slot z.
<1>12. Reached(E)
  <2>1. CASE ~st.done
    <3>1. Scanned(i, Cap, E, hole)
      BY <1>8, <1>9, <2>1 DEF ScanInv
    <3>2. Dist(i, z) <= Cap
      BY <1>3, DistFacts
    <3> QED  BY <1>11, <3>1, <3>2 DEF Scanned
  <2>2. CASE st.done
    BY <1>8, <1>9, <2>2 DEF ScanInv
  <2> QED  BY <2>1, <2>2
<1>13. Without(i) = E
  BY <1>1, <1>8, <1>9
<1> QED  BY <1>10, <1>11, <1>12, <1>13 DEF Sound

----------------------------------------------------------------------------
(* The invariant.                                                          *)

LiveKeys(P) == {k \in Keys : P[k] # NIL}

\* The table E holds what P promises, and the count n is right.
Agree(E, P) ==
    /\ \A j \in Slots : E[j] # NIL => P[E[j].key] = E[j].val
    /\ \A k \in LiveKeys(P) : \E j \in Slots : E[j] # NIL /\ E[j].key = k

Core(E, n, P) ==
    /\ E \in Tables /\ Unique(E) /\ Reached(E)
    /\ P \in [Keys -> Vals \cup {NIL}] /\ Agree(E, P)
    /\ n \in 0 .. LiveMax
    /\ n = Cardinality(Occupied(E))
    /\ IsFiniteSet(LiveKeys(P)) /\ n = Cardinality(LiveKeys(P))

\* While a replace runs its order stays promised, and the count of removes has
\* gone up by the entries that left since: if by none, nothing has moved.
PointerHolds ==
    ploc # NIL =>
       /\ promised[ploc.key] # NIL
       /\ \E r \in 0 .. (LiveMax - len) :
             /\ removes = (ploc.removes + r) % RemovesMod
             /\ r = 0 => entries[ploc.at] # NIL /\ entries[ploc.at].key = ploc.key

MapInv ==
    /\ home \in [Keys -> Slots]
    /\ removes \in 0 .. (RemovesMod - 1)
    /\ ploc \in Pointers \cup {NIL}
    /\ Core(entries, len, promised)
    /\ PointerHolds

\* The table is never full.
LEMMA InvSound ==
    ASSUME MapInv
    PROVE  home \in [Keys -> Slots] /\ Sound(entries)
<1>1. entries \in Tables /\ Unique(entries) /\ Reached(entries)
        /\ len \in 0 .. LiveMax /\ len = Cardinality(Occupied(entries))
  BY DEF MapInv, Core
<1>2. Cardinality(Slots) = Cap
  <2>1. 0 \in Int /\ Cap - 1 \in Int /\ ~(0 > Cap - 1) /\ Cap \in Int
    BY SlotNumbers
  <2>2. Cardinality(0 .. (Cap - 1)) = (Cap - 1) - 0 + 1
    BY <2>1, FS_Interval
  <2> QED  BY <2>1, <2>2 DEF Slots
<1>3. Occupied(entries) # Slots
  BY <1>1, <1>2, SlotNumbers
<1>4. \E z \in Slots : entries[z] = NIL
  BY <1>3 DEF Occupied
<1> QED  BY <1>1, <1>4 DEF MapInv, Sound

\* A key is promised exactly if its probe ends at an entry, which holds what is
\* promised.
LEMMA GetIs ==
    ASSUME MapInv, NEW k \in Keys
    PROVE  /\ EndOfProbe(k) \in Slots
           /\ promised[k] # NIL => /\ entries[EndOfProbe(k)] # NIL
                                   /\ entries[EndOfProbe(k)].key = k
                                   /\ entries[EndOfProbe(k)].val = promised[k]
           /\ promised[k] = NIL =>
                 /\ entries[EndOfProbe(k)] = NIL
                 /\ \A j \in Slots : entries[j] # NIL => entries[j].key # k
<1>1. home \in [Keys -> Slots] /\ Sound(entries)
  BY InvSound
<1>2. Agree(entries, promised) /\ entries \in Tables
  BY DEF MapInv, Core
<1>3. CASE promised[k] # NIL
  <2>1. PICK j \in Slots : entries[j] # NIL /\ entries[j].key = k
    BY <1>2, <1>3 DEF Agree, LiveKeys
  <2>2. EndOfProbe(k) = j
    BY <1>1, <2>1, ProbeFinds
  <2> QED  BY <1>2, <1>3, <2>1, <2>2 DEF Agree
<1>4. CASE promised[k] = NIL
  <2>1. \A j \in Slots : entries[j] # NIL => entries[j].key # k
    <3> SUFFICES ASSUME NEW j \in Slots, entries[j] # NIL, entries[j].key = k
                 PROVE  FALSE
      OBVIOUS
    <3>1. entries[j].val \in Vals
      BY <1>1, <1>2, EntryFacts
    <3>2. promised[entries[j].key] = entries[j].val
      BY <1>2 DEF Agree
    <3> QED  BY <1>4, <3>1, <3>2, NilIsNoValue
  <2> QED  BY <1>1, <1>4, <2>1, ProbeMisses
<1> QED  BY <1>3, <1>4

LEMMA ContainsIs ==
    ASSUME MapInv, NEW k \in Keys
    PROVE  /\ Contains(k) <=> promised[k] # NIL
           /\ Get(k) = promised[k]
<1>1. PICK i : i = EndOfProbe(k)
  OBVIOUS
<1>2. CASE promised[k] # NIL
  BY <1>1, <1>2, GetIs DEF Contains, Get
<1>3. CASE promised[k] = NIL
  BY <1>1, <1>3, GetIs DEF Contains, Get
<1> QED  BY <1>2, <1>3

----------------------------------------------------------------------------
(* What the calls do to the table.                                         *)

\* A new entry where the probe for its key ended.
LEMMA FreshPut ==
    ASSUME MapInv, NEW k \in Keys, NEW v \in Vals, promised[k] = NIL,
           len < LiveMax,
           NEW E, E = [entries EXCEPT ![EndOfProbe(k)] = [key |-> k, val |-> v]],
           NEW P, P = [promised EXCEPT ![k] = v]
    PROVE  Core(E, len + 1, P)
<1>1. PICK i \in Slots : i = EndOfProbe(k)
  BY GetIs
<1>2. PICK e : e = [key |-> k, val |-> v]
  OBVIOUS
<1>3. e \in Entries /\ e.key = k /\ e.val = v /\ e # NIL /\ v # NIL
  BY <1>2, NilIsNoValue DEF Entries
<1>4. /\ entries \in Tables /\ Unique(entries) /\ Reached(entries)
      /\ promised \in [Keys -> Vals \cup {NIL}] /\ Agree(entries, promised)
      /\ len \in 0 .. LiveMax /\ len = Cardinality(Occupied(entries))
      /\ IsFiniteSet(LiveKeys(promised))
      /\ len = Cardinality(LiveKeys(promised))
  BY DEF MapInv, Core
<1>5. /\ entries[i] = NIL
      /\ \A j \in Slots : entries[j] # NIL => entries[j].key # k
  BY <1>1, GetIs
<1>6. E \in Tables /\ \A j \in Slots : E[j] = IF j = i THEN e ELSE entries[j]
  BY <1>1, <1>2, <1>3, <1>4 DEF Tables
<1>7. /\ P \in [Keys -> Vals \cup {NIL}]
      /\ \A x \in Keys : P[x] = IF x = k THEN v ELSE promised[x]
  BY <1>4
<1>8. Unique(E)
  BY <1>3, <1>4, <1>5, <1>6 DEF Unique
<1>9. Reached(E)
  <2> SUFFICES ASSUME NEW j \in Slots, NEW s \in Slots, E[j] # NIL,
                      Passes(E, j, s)
               PROVE  E[s] # NIL
    BY DEF Reached
  <2>1. CASE j = i
    <3>1. Dist(home[k], s) < Dist(home[k], i)
      BY <1>3, <1>6, <2>1 DEF Passes
    <3>2. ~Stops(k, s)
      <4>1. home \in [Keys -> Slots] /\ Sound(entries)
        BY InvSound
      <4> QED  BY <1>1, <3>1, <4>1, ProbeEnds
    <3> QED  BY <1>3, <1>6, <3>2 DEF Stops
  <2>2. CASE j # i
    <3>1. E[j] = entries[j]
      BY <1>6, <2>2
    <3>2. Passes(entries, j, s)
      BY <3>1 DEF Passes
    <3>3. entries[s] # NIL
      BY <1>4, <3>1, <3>2 DEF Reached
    <3> QED  BY <1>3, <1>6, <3>3
  <2> QED  BY <2>1, <2>2
<1>10. Agree(E, P)
  <2>1. ASSUME NEW j \in Slots, E[j] # NIL
        PROVE  P[E[j].key] = E[j].val
    <3>1. CASE j = i
      BY <1>3, <1>6, <1>7, <3>1
    <3>2. CASE j # i
      <4>1. E[j] = entries[j] /\ entries[j].key # k
        BY <1>5, <1>6, <2>1, <3>2
      <4>2. entries[j].key \in Keys /\ promised[entries[j].key] = entries[j].val
        BY <1>4, <2>1, <4>1, EntryFacts DEF Agree, MapInv
      <4> QED  BY <1>7, <4>1, <4>2
    <3> QED  BY <3>1, <3>2
  <2>2. ASSUME NEW x \in LiveKeys(P)
        PROVE  \E j \in Slots : E[j] # NIL /\ E[j].key = x
    <3>1. CASE x = k
      BY <1>3, <1>6, <3>1
    <3>2. CASE x # k
      <4>1. x \in LiveKeys(promised)
        BY <1>7, <2>2, <3>2 DEF LiveKeys
      <4>2. PICK j \in Slots : entries[j] # NIL /\ entries[j].key = x
        BY <1>4, <4>1 DEF Agree
      <4> QED  BY <1>5, <1>6, <4>2
    <3> QED  BY <3>1, <3>2
  <2> QED  BY <2>1, <2>2 DEF Agree
<1>11. Cardinality(Occupied(E)) = len + 1
  <2>1. Occupied(E) = Occupied(entries) \cup {i} /\ i \notin Occupied(entries)
    BY <1>3, <1>5, <1>6 DEF Occupied
  <2>2. PICK O : O = Occupied(entries)
    OBVIOUS
  <2>3. IsFiniteSet(O) /\ Cardinality(O) = len /\ i \notin O
    BY <1>4, <2>1, <2>2, OccupiedFinite
  <2>4. Cardinality(O \cup {i}) = len + 1
    BY <2>3, FS_AddElement
  <2> QED  BY <2>1, <2>2, <2>4
<1>12. IsFiniteSet(LiveKeys(P)) /\ Cardinality(LiveKeys(P)) = len + 1
  <2>1. LiveKeys(P) = LiveKeys(promised) \cup {k} /\ k \notin LiveKeys(promised)
    BY <1>3, <1>7 DEF LiveKeys
  <2>2. PICK L : L = LiveKeys(promised)
    OBVIOUS
  <2>3. IsFiniteSet(L) /\ Cardinality(L) = len /\ k \notin L
    BY <1>4, <2>1, <2>2
  <2>4. IsFiniteSet(L \cup {k}) /\ Cardinality(L \cup {k}) = len + 1
    BY <2>3, FS_AddElement
  <2> QED  BY <2>1, <2>2, <2>4
<1>13. len + 1 \in 0 .. LiveMax
  BY <1>4, SlotNumbers
<1> QED  BY <1>6, <1>7, <1>8, <1>9, <1>10, <1>11, <1>12, <1>13 DEF Core

\* A new location for a key whose entry is at i.
LEMMA Overwritten ==
    ASSUME MapInv, NEW i \in Slots, entries[i] # NIL, NEW k, entries[i].key = k,
           NEW v \in Vals,
           NEW E, E = [entries EXCEPT ![i] = [key |-> k, val |-> v]],
           NEW P, P = [promised EXCEPT ![k] = v]
    PROVE  Core(E, len, P)
<1>1. PICK e : e = [key |-> k, val |-> v]
  OBVIOUS
<1>2. /\ entries \in Tables /\ Unique(entries) /\ Reached(entries)
      /\ promised \in [Keys -> Vals \cup {NIL}] /\ Agree(entries, promised)
      /\ len \in 0 .. LiveMax /\ len = Cardinality(Occupied(entries))
      /\ IsFiniteSet(LiveKeys(promised))
      /\ len = Cardinality(LiveKeys(promised))
  BY DEF MapInv, Core
<1>3. k \in Keys /\ promised[k] = entries[i].val /\ promised[k] # NIL
  BY <1>2, EntryFacts, NilIsNoValue DEF Agree, MapInv
<1>4. e \in Entries /\ e.key = k /\ e.val = v /\ e # NIL /\ v # NIL
  BY <1>1, <1>3, NilIsNoValue DEF Entries
<1>5. E \in Tables /\ \A j \in Slots : E[j] = IF j = i THEN e ELSE entries[j]
  BY <1>1, <1>2, <1>4 DEF Tables
<1>6. /\ P \in [Keys -> Vals \cup {NIL}]
      /\ \A x \in Keys : P[x] = IF x = k THEN v ELSE promised[x]
  BY <1>2
<1>7. \A j \in Slots : /\ E[j] # NIL <=> entries[j] # NIL
                       /\ E[j] # NIL => E[j].key = entries[j].key
  BY <1>4, <1>5
<1>8. Unique(E)
  BY <1>2, <1>7 DEF Unique
<1>9. Reached(E)
  BY <1>2, <1>7 DEF Reached, Passes
<1>10. Agree(E, P)
  <2>1. ASSUME NEW j \in Slots, E[j] # NIL
        PROVE  P[E[j].key] = E[j].val
    <3>1. CASE j = i
      BY <1>3, <1>4, <1>5, <1>6, <3>1
    <3>2. CASE j # i
      <4>1. E[j] = entries[j] /\ entries[j] # NIL /\ entries[j].key # k
        BY <1>2, <1>5, <2>1, <3>2 DEF Unique
      <4>2. entries[j].key \in Keys /\ promised[entries[j].key] = entries[j].val
        BY <1>2, <4>1, EntryFacts DEF Agree, MapInv
      <4> QED  BY <1>6, <4>1, <4>2
    <3> QED  BY <3>1, <3>2
  <2>2. ASSUME NEW x \in LiveKeys(P)
        PROVE  \E j \in Slots : E[j] # NIL /\ E[j].key = x
    <3>1. x \in LiveKeys(promised)
      BY <1>3, <1>6 DEF LiveKeys
    <3>2. PICK j \in Slots : entries[j] # NIL /\ entries[j].key = x
      BY <1>2, <3>1 DEF Agree
    <3> QED  BY <1>7, <3>2
  <2> QED  BY <2>1, <2>2 DEF Agree
<1>11. Occupied(E) = Occupied(entries)
  BY <1>7 DEF Occupied
<1>12. LiveKeys(P) = LiveKeys(promised)
  BY <1>3, <1>4, <1>6 DEF LiveKeys
<1> QED  BY <1>2, <1>5, <1>6, <1>8, <1>9, <1>10, <1>11, <1>12 DEF Core

\* The entry of k is removed.
LEMMA Dropped ==
    ASSUME MapInv, NEW k \in Keys, promised[k] # NIL,
           NEW E, E = Without(EndOfProbe(k)),
           NEW P, P = [promised EXCEPT ![k] = NIL]
    PROVE  Core(E, len - 1, P) /\ len >= 1
<1>1. PICK i \in Slots : i = EndOfProbe(k)
  BY GetIs
<1>2. entries[i] # NIL /\ entries[i].key = k
  BY <1>1, GetIs
<1>3. /\ entries \in Tables /\ Unique(entries) /\ Reached(entries)
      /\ promised \in [Keys -> Vals \cup {NIL}] /\ Agree(entries, promised)
      /\ len \in 0 .. LiveMax /\ len = Cardinality(Occupied(entries))
      /\ IsFiniteSet(LiveKeys(promised))
      /\ len = Cardinality(LiveKeys(promised))
  BY DEF MapInv, Core
<1>4. /\ Sound(Without(i))
      /\ \E hole \in Slots : Keeps(entries, i, Without(i), hole)
  BY <1>2, InvSound, WithoutSound
<1>5. E = Without(i)
  BY <1>1
<1>6. PICK hole \in Slots : Keeps(entries, i, E, hole)
  BY <1>4, <1>5
<1>7. E \in Tables /\ Unique(E) /\ Reached(E)
  BY <1>4, <1>5 DEF Sound
<1>8. /\ \A s \in Slots : E[s] # NIL =>
            \E t \in Slots : t # i /\ entries[t] = E[s]
      /\ \A t \in Slots : t # i /\ entries[t] # NIL =>
            \E s \in Slots : E[s] = entries[t]
      /\ Cardinality(Occupied(E)) = Cardinality(Occupied(entries)) - 1
  BY <1>6 DEF Keeps
<1>9. /\ P \in [Keys -> Vals \cup {NIL}]
      /\ \A x \in Keys : P[x] = IF x = k THEN NIL ELSE promised[x]
  BY <1>3
<1>10. Agree(E, P)
  <2>1. ASSUME NEW j \in Slots, E[j] # NIL
        PROVE  P[E[j].key] = E[j].val
    <3>1. PICK t \in Slots : t # i /\ entries[t] = E[j]
      BY <1>8, <2>1
    <3>2. entries[t] # NIL /\ entries[t].key # k
      BY <1>2, <1>3, <2>1, <3>1 DEF Unique
    <3>3. entries[t].key \in Keys /\ promised[entries[t].key] = entries[t].val
      BY <1>3, <3>2, EntryFacts DEF Agree, MapInv
    <3> QED  BY <1>9, <3>1, <3>2, <3>3
  <2>2. ASSUME NEW x \in LiveKeys(P)
        PROVE  \E j \in Slots : E[j] # NIL /\ E[j].key = x
    <3>1. x \in LiveKeys(promised) /\ x # k
      BY <1>9, <2>2 DEF LiveKeys
    <3>2. PICK t \in Slots : entries[t] # NIL /\ entries[t].key = x
      BY <1>3, <3>1 DEF Agree
    <3>3. t # i
      BY <1>2, <3>1, <3>2
    <3>4. PICK s \in Slots : E[s] = entries[t]
      BY <1>8, <3>2, <3>3
    <3> QED  BY <3>2, <3>4
  <2> QED  BY <2>1, <2>2 DEF Agree
<1>11. PICK L : L = LiveKeys(promised)
  OBVIOUS
<1>12. k \in L /\ LiveKeys(P) = L \ {k}
  BY <1>9, <1>11 DEF LiveKeys
<1>13. IsFiniteSet(L) /\ len = Cardinality(L)
  BY <1>3, <1>11
<1>14. IsFiniteSet(L \ {k}) /\ Cardinality(L \ {k}) = len - 1
  BY <1>12, <1>13, FS_RemoveElement
<1>15. len - 1 \in Nat
  BY <1>14, FS_CardinalityType
<1>16. len >= 1 /\ len - 1 \in 0 .. LiveMax
  BY <1>3, <1>15, SlotNumbers
<1> QED  BY <1>3, <1>7, <1>8, <1>9, <1>10, <1>12, <1>14, <1>16 DEF Core

\* What a step makes of the table holds of the new state.
LEMMA CoreHolds ==
    ASSUME home' = home, NEW E, NEW n, NEW P, Core(E, n, P),
           entries' = E, len' = n, promised' = P
    PROVE  Core(entries, len, promised)'
BY DEF Core, Unique, Reached, Passes, Agree, Occupied, LiveKeys, Tables

----------------------------------------------------------------------------
(* The steps.                                                              *)

LEMMA DropCore ==
    ASSUME MapInv, NEW k \in Keys, promised[k] # NIL, Drop(k), home' = home
    PROVE  /\ Core(entries, len, promised)'
           /\ removes' = (removes + 1) % RemovesMod
           /\ len \in 1 .. LiveMax /\ len' = len - 1
           /\ promised' = [promised EXCEPT ![k] = NIL]
<1>1. /\ entries' = Without(EndOfProbe(k)) /\ len' = len - 1
      /\ removes' = (removes + 1) % RemovesMod
      /\ promised' = [promised EXCEPT ![k] = NIL]
  BY ContainsIs DEF Drop
<1>2. PICK E, P : E = Without(EndOfProbe(k)) /\ P = [promised EXCEPT ![k] = NIL]
  OBVIOUS
<1>3. Core(E, len - 1, P) /\ len >= 1
  BY <1>2, Dropped
<1>4. Core(entries, len, promised)'
  <2>1. entries' = E /\ len' = len - 1 /\ promised' = P
    BY <1>1, <1>2
  <2>2. PICK n : n = len - 1
    OBVIOUS
  <2> QED  BY <1>3, <2>1, <2>2, CoreHolds
<1>5. len \in 0 .. LiveMax
  BY DEF MapInv, Core
<1> QED  BY <1>1, <1>3, <1>4, <1>5, SlotNumbers

LEMMA RemovesRange ==
    ASSUME NEW a \in Int
    PROVE  a % RemovesMod \in 0 .. (RemovesMod - 1)
BY DivMod, RemovesOutlastReplace

LEMMA InsertKeeps ==
    ASSUME MapInv, NEW k \in Keys, NEW v \in Vals, Insert(k, v)
    PROVE  MapInv'
<1>1. /\ ploc = NIL /\ ploc' = NIL /\ home' = home /\ removes' = removes
      /\ ~Contains(k) /\ len < LiveMax
      /\ entries' = [entries EXCEPT ![EndOfProbe(k)] = [key |-> k, val |-> v]]
      /\ len' = len + 1
      /\ promised' = [promised EXCEPT ![k] = v]
  BY DEF Insert, Put, HasRoom
<1>2. promised[k] = NIL
  BY <1>1, ContainsIs
<1>3. PICK E, P :
         /\ E = [entries EXCEPT ![EndOfProbe(k)] = [key |-> k, val |-> v]]
         /\ P = [promised EXCEPT ![k] = v]
  OBVIOUS
<1>4. PICK n : n = len + 1
  OBVIOUS
<1>5. Core(E, n, P)
  <2>1. len < LiveMax
    BY <1>1
  <2> QED  BY <1>2, <1>3, <1>4, <2>1, FreshPut
<1>6. entries' = E /\ len' = n /\ promised' = P /\ home' = home
  BY <1>1, <1>3, <1>4
<1>7. Core(entries, len, promised)'
  BY <1>5, <1>6, CoreHolds
<1> QED  BY <1>1, <1>7 DEF MapInv, PointerHolds

LEMMA RemoveKeeps ==
    ASSUME MapInv, NEW k \in Keys, Remove(k)
    PROVE  MapInv'
<1>1. /\ ploc' = ploc /\ home' = home /\ Drop(k)
      /\ ploc # NIL => ploc.key # k
  BY DEF Remove
<1>2. promised[k] # NIL
  BY ContainsIs DEF Remove
<1>3. /\ Core(entries, len, promised)'
      /\ removes' = (removes + 1) % RemovesMod
      /\ len \in 1 .. LiveMax /\ len' = len - 1
      /\ promised' = [promised EXCEPT ![k] = NIL]
  BY <1>1, <1>2, DropCore
<1>4. /\ home \in [Keys -> Slots] /\ removes \in 0 .. (RemovesMod - 1)
      /\ ploc \in Pointers \cup {NIL}
      /\ promised \in [Keys -> Vals \cup {NIL}]
  BY DEF MapInv, Core
<1>5. removes' \in 0 .. (RemovesMod - 1)
  BY <1>3, <1>4, RemovesRange
<1>6. PointerHolds'
  <2> SUFFICES ASSUME ploc # NIL
               PROVE  /\ promised'[ploc.key] # NIL
                      /\ \E r \in 0 .. (LiveMax - len') :
                            /\ removes' = (ploc.removes + r) % RemovesMod
                            /\ r = 0 => /\ entries'[ploc.at] # NIL
                                        /\ entries'[ploc.at].key = ploc.key
    BY <1>1 DEF PointerHolds
  <2>1. ploc.key \in Keys /\ ploc.removes \in Int /\ ploc.key # k
    BY <1>1, <1>4 DEF Pointers
  <2>2. promised[ploc.key] # NIL
    BY DEF MapInv, PointerHolds
  <2>3. promised'[ploc.key] # NIL
    BY <1>3, <1>4, <2>1, <2>2
  <2>4. PICK r \in 0 .. (LiveMax - len) :
                removes = (ploc.removes + r) % RemovesMod
    BY DEF MapInv, PointerHolds
  <2>5. /\ r + 1 \in 0 .. (LiveMax - len') /\ r + 1 # 0
        /\ ploc.removes + r \in Int
    BY <1>3, <2>1, <2>4, SlotNumbers
  <2>6. removes' = (ploc.removes + (r + 1)) % RemovesMod
    <3>1. PICK a \in Int : a = ploc.removes + r
      BY <2>5
    <3>2. ((a % RemovesMod) + 1) % RemovesMod = (a + 1) % RemovesMod
      BY <3>1, ModAdd, RemovesOutlastReplace
    <3>3. a + 1 = ploc.removes + (r + 1)
      BY <2>1, <2>4, <3>1
    <3> QED  BY <1>3, <2>4, <3>1, <3>2, <3>3
  <2> QED  BY <2>3, <2>5, <2>6
<1> QED  BY <1>1, <1>3, <1>4, <1>5, <1>6 DEF MapInv

LEMMA BeginReplaceKeeps ==
    ASSUME MapInv, NEW k \in Keys, BeginReplace(k)
    PROVE  MapInv'
<1>1. /\ ploc' = [key |-> k, at |-> EndOfProbe(k), removes |-> removes]
      /\ home' = home /\ entries' = entries /\ len' = len
      /\ removes' = removes /\ promised' = promised
  BY DEF BeginReplace
<1>2. /\ promised[k] # NIL /\ EndOfProbe(k) \in Slots
      /\ entries[EndOfProbe(k)] # NIL /\ entries[EndOfProbe(k)].key = k
  BY ContainsIs, GetIs DEF BeginReplace
<1>3. /\ home \in [Keys -> Slots] /\ removes \in 0 .. (RemovesMod - 1)
      /\ Core(entries, len, promised) /\ len \in 0 .. LiveMax
  BY DEF MapInv, Core
<1>4. PICK p : p = [key |-> k, at |-> EndOfProbe(k), removes |-> removes]
  OBVIOUS
<1>5. /\ p \in Pointers /\ p.key = k /\ p.at = EndOfProbe(k)
      /\ p.removes = removes
  BY <1>2, <1>3, <1>4 DEF Pointers
<1>6. removes = (p.removes + 0) % RemovesMod
  <2>1. removes \in Nat /\ removes < RemovesMod /\ removes + 0 = removes
    BY <1>3, RemovesOutlastReplace
  <2> QED  BY <1>5, <2>1, ModLeast, RemovesOutlastReplace
<1>7. 0 \in 0 .. (LiveMax - len)
  BY <1>3, SlotNumbers
<1>8. \E r \in 0 .. (LiveMax - len) :
          /\ removes = (p.removes + r) % RemovesMod
          /\ r = 0 => entries[p.at] # NIL /\ entries[p.at].key = p.key
  BY <1>2, <1>5, <1>6, <1>7
<1>9. PointerHolds'
  BY <1>1, <1>2, <1>4, <1>5, <1>8 DEF PointerHolds
<1>10. Core(entries, len, promised)'
  BY <1>1, <1>3 DEF Core, Unique, Reached, Passes, Agree, Occupied, LiveKeys,
                    Tables
<1> QED  BY <1>1, <1>3, <1>4, <1>5, <1>9, <1>10 DEF MapInv

LEMMA EndFilledKeeps ==
    ASSUME MapInv, EndReplaceFilled
    PROVE  MapInv'
<1>1. ploc # NIL /\ Drop(ploc.key) /\ ploc' = NIL /\ home' = home
  BY DEF EndReplaceFilled
<1>2. PICK k \in Keys : k = ploc.key
  BY <1>1 DEF MapInv, Pointers
<1>3. promised[k] # NIL
  BY <1>1, <1>2 DEF MapInv, PointerHolds
<1>4. Drop(k)
  BY <1>1, <1>2
<1>5. Core(entries, len, promised)' /\ removes' = (removes + 1) % RemovesMod
  BY <1>1, <1>3, <1>4, DropCore
<1>6. home \in [Keys -> Slots] /\ removes \in 0 .. (RemovesMod - 1)
  BY DEF MapInv
<1>7. removes' \in 0 .. (RemovesMod - 1)
  BY <1>5, <1>6, RemovesRange
<1> QED  BY <1>1, <1>5, <1>6, <1>7 DEF MapInv, PointerHolds

\* A count of removes that is back where it was has not moved: it would have to
\* go round, and there are not that many entries to remove.
LEMMA ValidPointer ==
    ASSUME MapInv, ploc # NIL, PointerIsValid
    PROVE  entries[ploc.at] # NIL /\ entries[ploc.at].key = ploc.key
<1>1. PICK k \in Keys : k = ploc.key /\ promised[k] # NIL
  BY DEF MapInv, PointerHolds, Pointers
<1>2. PICK p \in 0 .. (RemovesMod - 1) : p = ploc.removes
  BY DEF MapInv, Pointers
<1>3. PICK r \in 0 .. (LiveMax - len) :
         /\ removes = (p + r) % RemovesMod
         /\ r = 0 => entries[ploc.at] # NIL /\ entries[ploc.at].key = ploc.key
  BY <1>2 DEF MapInv, PointerHolds
<1>4. len \in 0 .. LiveMax /\ len >= 1
  <2>1. len >= 1
    BY <1>1, Dropped
  <2> QED  BY <2>1 DEF MapInv, Core
<1>5. r \in Nat /\ r < RemovesMod /\ RemovesMod \in Nat \ {0}
  BY <1>3, <1>4, SlotNumbers, RemovesOutlastReplace
<1>6. p = (p + r) % RemovesMod
  BY <1>2, <1>3 DEF PointerIsValid
<1>7. r = 0
  <2>1. CASE p + r < RemovesMod
    <3>1. (p + r) % RemovesMod = p + r
      BY <1>2, <1>5, <2>1, ModLeast
    <3> QED  BY <1>2, <1>5, <1>6, <3>1
  <2>2. CASE ~(p + r < RemovesMod)
    <3>1. /\ p + r \in Int /\ p + r - RemovesMod \in 0 .. (RemovesMod - 1)
          /\ p + r = RemovesMod * 1 + (p + r - RemovesMod)
      BY <1>2, <1>5, <2>2
    <3>2. (p + r) % RemovesMod = p + r - RemovesMod
      BY <1>5, <3>1, RemainderIs
    <3> QED  BY <1>2, <1>5, <1>6, <3>1, <3>2
  <2> QED  BY <2>1, <2>2
<1> QED  BY <1>3, <1>7

LEMMA EndRestsKeeps ==
    ASSUME MapInv, NEW v \in Vals, EndReplaceRests(v)
    PROVE  MapInv'
<1>1. /\ ploc # NIL /\ ploc' = NIL /\ home' = home /\ removes' = removes
  BY DEF EndReplaceRests
<1>2. PICK k \in Keys : k = ploc.key
  BY <1>1 DEF MapInv, Pointers
<1>3. promised[k] # NIL
  BY <1>1, <1>2 DEF MapInv, PointerHolds
<1>4. promised' = [promised EXCEPT ![k] = v] /\ len' = len
  BY <1>2, <1>3, ContainsIs DEF EndReplaceRests, Put
\* Either way the entry of k gets the new location.
<1>5. \E i \in Slots :
         /\ entries[i] # NIL /\ entries[i].key = k
         /\ entries' = [entries EXCEPT ![i] = [key |-> k, val |-> v]]
  <2>1. CASE PointerIsValid
    <3>1. PICK i : i = ploc.at
      OBVIOUS
    <3>2. i \in Slots /\ entries[i] # NIL /\ entries[i].key = k
      BY <1>1, <1>2, <2>1, <3>1, ValidPointer DEF MapInv, Pointers
    <3>3. entries' = [entries EXCEPT ![i] = [entries[i] EXCEPT !.val = v]]
      BY <2>1, <3>1, <3>2 DEF EndReplaceRests
    <3>4. entries[i] \in Entries
      BY <3>2, EntryFacts DEF MapInv, Core
    <3>5. [entries[i] EXCEPT !.val = v] = [key |-> k, val |-> v]
      BY <3>2, <3>4 DEF Entries
    <3> QED  BY <3>2, <3>3, <3>5
  <2>2. CASE ~PointerIsValid
    BY <1>2, <1>3, <2>2, GetIs DEF EndReplaceRests, Put
  <2> QED  BY <2>1, <2>2
<1>6. PICK i \in Slots :
         /\ entries[i] # NIL /\ entries[i].key = k
         /\ entries' = [entries EXCEPT ![i] = [key |-> k, val |-> v]]
  BY <1>5
<1>7. PICK E, P, n : /\ E = [entries EXCEPT ![i] = [key |-> k, val |-> v]]
                     /\ P = [promised EXCEPT ![k] = v] /\ n = len
  OBVIOUS
<1>8. Core(E, n, P)
  BY <1>6, <1>7, Overwritten
<1>9. entries' = E /\ len' = n /\ promised' = P
  BY <1>4, <1>6, <1>7
<1>10. Core(entries, len, promised)'
  BY <1>1, <1>8, <1>9, CoreHolds
<1> QED  BY <1>1, <1>10 DEF MapInv, PointerHolds

LEMMA MapInit == Init => MapInv
<1> SUFFICES ASSUME Init
             PROVE  MapInv
  OBVIOUS
<1>1. 0 \in 0 .. (RemovesMod - 1) /\ 0 \in 0 .. LiveMax
  BY SlotNumbers, RemovesOutlastReplace
<1>2. Occupied(entries) = {} /\ LiveKeys(promised) = {}
  BY DEF Init, Occupied, LiveKeys
<1>3. Core(entries, len, promised)
  <2>1. entries \in Tables /\ Unique(entries) /\ Reached(entries)
    BY DEF Init, Tables, Unique, Reached
  <2>2. promised \in [Keys -> Vals \cup {NIL}] /\ Agree(entries, promised)
    BY <1>2 DEF Init, Agree
  <2> QED  BY <1>1, <1>2, <2>1, <2>2, FS_EmptySet DEF Core, Init
<1> QED  BY <1>1, <1>3 DEF Init, MapInv, PointerHolds

LEMMA MapStep == MapInv /\ [Next]_vars => MapInv'
<1> SUFFICES ASSUME MapInv, [Next]_vars
             PROVE  MapInv'
  OBVIOUS
<1>1. CASE \E k \in Keys : Remove(k) \/ BeginReplace(k)
  BY <1>1, RemoveKeeps, BeginReplaceKeeps
<1>2. CASE \E k \in Keys, v \in Vals : Insert(k, v)
  BY <1>2, InsertKeeps
<1>3. CASE EndReplaceFilled
  BY <1>3, EndFilledKeeps
<1>4. CASE \E v \in Vals : EndReplaceRests(v)
  BY <1>4, EndRestsKeeps
<1>5. CASE UNCHANGED vars
  BY <1>5 DEF vars, MapInv, PointerHolds, Core, Unique, Reached, Passes, Agree,
              Occupied, LiveKeys, Tables
<1> QED  BY <1>1, <1>2, <1>3, <1>4, <1>5 DEF Next

----------------------------------------------------------------------------

\* For any ids, hash and capacity, every table the book can make of the map
\* satisfies the invariant above.
THEOREM MapIsSound == Spec => []MapInv
BY MapInit, MapStep, PTL DEF Spec

\* The slots stay what they are, the count of entries stays within the book's
\* limit, and a pointer held by replace() points into the table.
THEOREM TypesHold == Spec => []TypeOK
<1>1. MapInv => TypeOK
  BY DEF MapInv, Core, Tables, TypeOK
<1> QED  BY <1>1, MapIsSound, PTL

\* get() finds every id that was put and not removed, at its last location, and
\* no other id: the backward shift of remove() never strands an entry behind an
\* empty slot, and a replace() that crossed while entries moved never writes
\* through a stale pointer.
THEOREM FindsWhatWasPut == Spec => []GetsWhatWasPut
<1>1. MapInv => GetsWhatWasPut
  BY ContainsIs DEF GetsWhatWasPut
<1> QED  BY <1>1, MapIsSound, PTL

\* No id is stored twice and none is lost: the count the map keeps is the number
\* of full slots and the number of ids the book has at rest.
THEOREM CountsEntries == Spec => []EntriesAreCounted
<1>1. MapInv => EntriesAreCounted
  BY DEF MapInv, Core, EntriesAreCounted, Occupied, LiveKeys
<1> QED  BY <1>1, MapIsSound, PTL
=============================================================================

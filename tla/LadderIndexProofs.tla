------------------------- MODULE LadderIndexProofs -------------------------
(***************************************************************************)
(* The invariant of LadderIndex, for every range of ticks and every width  *)
(* of a word and of a Qty.                                                 *)
(*                                                                         *)
(* IndexInv is inductive.  It says of every bit what it stands for, also   *)
(* of those of the last word that are no ticks, and of every flag which    *)
(* word it is of.  What carries the proof is that a tick is a word and a   *)
(* bit in it, and that ticks are ordered by word first (AtSplit, AtJoin,   *)
(* AtOrder): a rescan that looks inside a word, and then for the nearest   *)
(* flagged word, misses nothing.                                           *)
(*                                                                         *)
(* The loops over words are shown to compute what they are for by giving a *)
(* second solution of the same recursion, the first or the last flagged    *)
(* word, or the sum over what is in reach, and that it has only one        *)
(* (LoopEnds, LoopEndsBelow).                                              *)
(***************************************************************************)
EXTENDS LadderIndex, InductionLemmas

----------------------------------------------------------------------------
(* Words and bits.                                                         *)

\* The tick of bit b of word w.
At(w, b) == w * Word + b

LEMMA WordsApart ==
    ASSUME NEW a \in Nat, NEW c \in Nat, a < c
    PROVE  a * Word + Word <= c * Word
<1> PICK d \in Nat : c = a + 1 + d
  <2> c - a - 1 \in Nat /\ c = a + 1 + (c - a - 1)
    OBVIOUS
  <2> QED  OBVIOUS
<1>1. c * Word = a * Word + Word + d * Word
  BY LadderShape
<1>2. d * Word \in Nat /\ a * Word \in Nat
  BY LadderShape
<1> QED  BY <1>1, <1>2, LadderShape

LEMMA AtOrder ==
    ASSUME NEW a \in Nat, NEW b \in Bits, NEW c \in Nat, NEW d \in Bits
    PROVE  At(a, b) <= At(c, d) <=> a < c \/ (a = c /\ b <= d)
<1>1. a * Word \in Nat /\ c * Word \in Nat
  BY LadderShape
<1>2. a < c => a * Word + Word <= c * Word
  BY WordsApart
<1>3. c < a => c * Word + Word <= a * Word
  BY WordsApart
<1>4. b \in Nat /\ b < Word /\ d \in Nat /\ d < Word
  BY LadderShape DEF Bits
<1> HIDE DEF Bits
<1>5. CASE a < c
  BY <1>1, <1>2, <1>4, <1>5, LadderShape DEF At
<1>6. CASE c < a
  BY <1>1, <1>3, <1>4, <1>6, LadderShape DEF At
<1>7. CASE a = c
  BY <1>1, <1>4, <1>7, LadderShape DEF At
<1> QED  BY <1>5, <1>6, <1>7

LEMMA AtSplit ==
    ASSUME NEW i \in Nat
    PROVE  /\ i \div Word \in Nat /\ i % Word \in Bits
           /\ i = At(i \div Word, i % Word)
BY LadderShape DEF Bits, At

LEMMA AtJoin ==
    ASSUME NEW w \in Nat, NEW b \in Bits
    PROVE  /\ At(w, b) \in Nat
           /\ At(w, b) \div Word = w /\ At(w, b) % Word = b
<1> DEFINE i == At(w, b)
<1>1. i \in Nat
  BY LadderShape DEF Bits, At
<1> HIDE DEF i
<1>2. /\ i \div Word \in Nat /\ i % Word \in Bits
      /\ i = At(i \div Word, i % Word)
  BY <1>1, AtSplit
<1>3. i = At(w, b)
  BY DEF i
<1>4. i <= i
  BY <1>1
<1>5. At(w, b) <= At(i \div Word, i % Word) /\ At(i \div Word, i % Word) <= At(w, b)
  BY <1>2, <1>3, <1>4
<1>6. w < i \div Word \/ (w = i \div Word /\ b <= i % Word)
  BY <1>2, <1>5, AtOrder
<1>7. i \div Word < w \/ (i \div Word = w /\ i % Word <= b)
  BY <1>2, <1>5, AtOrder
<1>8. i \div Word = w /\ i % Word = b
  BY <1>2, <1>6, <1>7, LadderShape DEF Bits
<1> QED  BY <1>1, <1>8 DEF i

LEMMA WordsCover ==
    ASSUME NEW n \in Nat \ {0}, NEW i \in 0 .. (n - 1)
    PROVE  i \div Word \in WordsFor(n)
<1> DEFINE k == n + Word - 1
           m == k \div Word
           r == k % Word
           q == i \div Word
<1>1. m \in Nat /\ r \in Bits /\ n + Word - 1 = At(m, r)
  <2>1. k \in Nat
    BY LadderShape
  <2> HIDE DEF k
  <2>2. m \in Nat /\ r \in Bits /\ k = At(m, r)
    BY <2>1, AtSplit
  <2> QED  BY <2>2 DEF k
<1>2. q \in Nat /\ i % Word \in Bits /\ i = At(q, i % Word)
  BY AtSplit
<1> HIDE DEF m, r, q
<1>3. ~(m <= q)
  <2> SUFFICES ASSUME m <= q
               PROVE  FALSE
    OBVIOUS
  <2>1. m * Word <= q * Word
    BY <1>1, <1>2, WordsApart, LadderShape
  <2>2. q * Word <= i
    BY <1>2, LadderShape DEF At, Bits
  <2>3. m * Word + (Word - 1) >= n + Word - 1
    BY <1>1, LadderShape DEF At, Bits
  <2>4. m * Word \in Nat /\ q * Word \in Nat
    BY <1>1, <1>2, LadderShape
  <2> QED  BY <2>1, <2>2, <2>3, <2>4, LadderShape
<1> QED  BY <1>1, <1>2, <1>3 DEF WordsFor, m, q

\* A tick is a bit of a word there is.
LEMMA TickHasWord ==
    ASSUME NEW i \in Ticks
    PROVE  /\ i \in Nat /\ i \div Word \in Words /\ i % Word \in Bits
           /\ i = At(i \div Word, i % Word)
<1>1. i \in 0 .. (Span - 1) /\ i \in Nat /\ Span \in Nat \ {0}
  BY LadderShape DEF Ticks
<1> QED  BY <1>1, WordsCover, AtSplit DEF Words

\* A word is a bit of a summary word there is.
LEMMA WordHasFlag ==
    ASSUME NEW w \in Words
    PROVE  /\ w \in Nat /\ w \div Word \in SummaryWords /\ w % Word \in Bits
           /\ w = At(w \div Word, w % Word)
<1> DEFINE n == (Span + Word - 1) \div Word
<1>1. w \in 0 .. (n - 1)
  BY DEF Words, WordsFor
<1>2. n \in Nat
  <2> DEFINE k == Span + Word - 1
  <2>1. k \in Nat
    BY LadderShape
  <2> HIDE DEF k
  <2>2. k \div Word \in Nat
    BY <2>1, AtSplit
  <2> QED  BY <2>2 DEF k
<1> HIDE DEF n
<1>3. w \in Nat /\ n \in Nat \ {0}
  BY <1>1, <1>2
<1>4. Words = 0 .. (n - 1)
  BY DEF Words, WordsFor, n
<1>5. Cardinality(Words) = n
  BY <1>3, <1>4, FS_Interval
<1>6. w \div Word \in SummaryWords
  BY <1>1, <1>3, <1>5, WordsCover DEF SummaryWords
<1> QED  BY <1>3, <1>6, AtSplit

----------------------------------------------------------------------------
(* The least and the greatest of a set.                                    *)

LEMMA MinIsLeast ==
    ASSUME NEW S, S \subseteq Nat, S # {}
    PROVE  Min(S) \in S /\ \A y \in S : Min(S) <= y
<1> DEFINE R == {ss \in Nat \X Nat : ss[1] < ss[2]}
<1>1. IsWellFoundedOn(R, Nat)
  BY NatLessThanWellFounded, Zenon DEF OpToRel
<1>2. PICK x \in S : \A y \in S : ~(<<y, x>> \in R)
  BY <1>1, WFMin, Zenon
<1>3. ASSUME NEW y \in S
      PROVE  x <= y
  <2>1. x \in Nat /\ y \in Nat
    OBVIOUS
  <2>2. y < x => <<y, x>> \in R
    BY <2>1
  <2>3. ~(<<y, x>> \in R)
    BY <1>2
  <2> HIDE DEF R
  <2> QED  BY <2>1, <2>2, <2>3
<1> HIDE DEF R
<1>4. \E z \in S : \A y \in S : z =< y
  BY <1>3
<1> QED  BY <1>4 DEF Min

LEMMA MaxIsGreatest ==
    ASSUME NEW n \in Nat, NEW S, S \subseteq 0 .. n, S # {}
    PROVE  Max(S) \in S /\ \A y \in S : y <= Max(S)
<1> DEFINE T == {n - x : x \in S}
<1>1. T \subseteq Nat /\ T # {}
  <2>1. \A x \in S : n - x \in Nat
    OBVIOUS
  <2> QED  BY <2>1
<1>2. Min(T) \in T /\ \A y \in T : Min(T) <= y
  <2> HIDE DEF T
  <2> QED  BY <1>1, MinIsLeast
<1>3. PICK x \in S : Min(T) = n - x
  BY <1>2
<1>4. \A y \in S : n - x <= n - y
  BY <1>2, <1>3
<1>5. \A y \in S : x >= y
  BY <1>4
<1>6. \E z \in S : \A y \in S : z >= y
  BY <1>5
<1>7. Max(S) \in S /\ \A y \in S : Max(S) >= y
  BY <1>6 DEF Max
<1>8. \A y \in S : y \in Int
  OBVIOUS
<1> QED  BY <1>7, <1>8

LEMMA MinIs ==
    ASSUME NEW S, S \subseteq Nat, NEW x \in S, \A y \in S : x <= y
    PROVE  Min(S) = x
<1>1. Min(S) \in S /\ \A y \in S : Min(S) <= y
  BY MinIsLeast
<1>2. Min(S) \in Nat /\ x \in Nat /\ Min(S) <= x /\ x <= Min(S)
  BY <1>1
<1> QED  BY <1>2

LEMMA MaxIs ==
    ASSUME NEW S, S \subseteq Nat, NEW x \in S, \A y \in S : y <= x
    PROVE  Max(S) = x
<1>1. x \in Nat /\ S \subseteq 0 .. x
  OBVIOUS
<1>2. Max(S) \in S /\ \A y \in S : y <= Max(S)
  BY <1>1, MaxIsGreatest
<1>3. Max(S) \in Nat /\ Max(S) <= x /\ x <= Max(S)
  BY <1>2
<1> QED  BY <1>3

----------------------------------------------------------------------------
(* Loops over words.                                                       *)

LEMMA WordsAre == \E n \in Nat : Words = 0 .. (n - 1)
<1> DEFINE k == Span + Word - 1
           n == k \div Word
<1>1. k \in Nat
  BY LadderShape
<1> HIDE DEF k
<1>2. n \in Nat
  BY <1>1, AtSplit
<1> HIDE DEF n
<1>3. Words = 0 .. (n - 1)
  BY DEF Words, WordsFor, n, k
<1> QED  BY <1>2, <1>3

LEMMA NextStartIs ==
    ASSUME NEW t \in Nat
    PROVE  /\ NextStart(t) \in Nat /\ t < NextStart(t)
           /\ NextStart(t) - 1 = At(t \div Word, Word - 1)
           /\ \A j \in Nat : NextStart(t) <= j <=> t \div Word < j \div Word
<1> DEFINE k == t \div Word
<1>1. k \in Nat /\ t % Word \in Bits /\ t = At(k, t % Word)
  BY AtSplit
<1>2. NextStart(t) = k * Word + Word
  BY DEF NextStart
<1> HIDE DEF k
<1>3. k * Word \in Nat
  BY <1>1, LadderShape
<1>4. t < NextStart(t) /\ NextStart(t) \in Nat
  BY <1>1, <1>2, <1>3, LadderShape DEF At, Bits
<1>5. NextStart(t) - 1 = At(k, Word - 1)
  BY <1>2, <1>3, LadderShape DEF At
<1>6. NextStart(t) = At(k + 1, 0)
  <2>1. (k + 1) * Word = k * Word + Word
    BY <1>1, LadderShape
  <2> QED  BY <1>2, <1>3, <2>1, LadderShape DEF At
<1>7. ASSUME NEW j \in Nat
      PROVE  NextStart(t) <= j <=> k < j \div Word
  <2>1. j \div Word \in Nat /\ j % Word \in Bits /\ j = At(j \div Word, j % Word)
    BY AtSplit
  <2>2. 0 \in Bits /\ k + 1 \in Nat /\ 0 <= j % Word
    BY <1>1, <2>1, LadderShape DEF Bits
  <2>3. At(k + 1, 0) <= At(j \div Word, j % Word) <=>
          k + 1 < j \div Word \/ (k + 1 = j \div Word /\ 0 <= j % Word)
    BY <2>1, <2>2, AtOrder
  <2> QED  BY <1>1, <1>6, <2>1, <2>2, <2>3
<1> QED  BY <1>4, <1>5, <1>7 DEF k

\* Two functions that agree from n on, and wherever they agree at the start of
\* the next word.
Alike(n, f, g) ==
    /\ \A t \in Nat : n <= t => f[t] = g[t]
    /\ \A t \in Nat : f[NextStart(t)] = g[NextStart(t)] => f[t] = g[t]

LEMMA LoopEnds ==
    ASSUME NEW n \in Nat, NEW f, NEW g, Alike(n, f, g)
    PROVE  \A t \in Nat : f[t] = g[t]
<1> USE DEF Alike
<1> DEFINE T == {k \in Nat : \A t \in Nat : n <= t + k => f[t] = g[t]}
<1>1. 0 \in T
  OBVIOUS
<1>2. ASSUME NEW k \in Nat, k \in T
      PROVE  k + 1 \in T
  <2> SUFFICES ASSUME NEW t \in Nat, n <= t + (k + 1)
               PROVE  f[t] = g[t]
    OBVIOUS
  <2>1. CASE n <= t
    BY <2>1
  <2>2. CASE t < n
    <3>1. PICK u \in Nat : u = NextStart(t) /\ t < u
      BY NextStartIs
    <3>2. n <= u + k
      BY <3>1
    <3>3. f[u] = g[u]
      BY <1>2, <3>2
    <3> QED  BY <3>1, <3>3
  <2> QED  BY <2>1, <2>2
<1>3. \A k \in Nat : k \in T
  <2> HIDE DEF T
  <2> QED  BY <1>1, <1>2, NatInductive
<1>4. ASSUME NEW t \in Nat
      PROVE  f[t] = g[t]
  <2>1. n \in T /\ n <= t + n
    BY <1>3
  <2> QED  BY <2>1
<1> QED  BY <1>4

\* The same for loops that go down to -1.
LEMMA LoopEndsBelow ==
    ASSUME NEW n \in Nat, NEW f, NEW g, f[-1] = g[-1],
           \A t \in 0 .. (n - 1) :
             \E u \in (-1) .. (t - 1) : f[u] = g[u] => f[t] = g[t]
    PROVE  \A t \in (-1) .. (n - 1) : f[t] = g[t]
<1> DEFINE T == {k \in Nat : \A t \in (-1) .. (n - 1) : t < k => f[t] = g[t]}
<1>1. 0 \in T
  <2>1. \A t \in (-1) .. (n - 1) : t < 0 => t = -1
    OBVIOUS
  <2> QED  BY <2>1
<1>2. ASSUME NEW k \in Nat, k \in T
      PROVE  k + 1 \in T
  <2> SUFFICES ASSUME NEW t \in (-1) .. (n - 1), t < k + 1
               PROVE  f[t] = g[t]
    OBVIOUS
  <2>1. CASE t < 0
    BY <1>1, <2>1
  <2>2. CASE 0 <= t
    <3>1. PICK u \in (-1) .. (t - 1) : f[u] = g[u] => f[t] = g[t]
      BY <2>2
    <3>2. u \in (-1) .. (n - 1) /\ u < k
      BY <3>1
    <3> QED  BY <1>2, <3>1, <3>2
  <2> QED  BY <2>1, <2>2
<1>3. \A k \in Nat : k \in T
  <2> HIDE DEF T
  <2> QED  BY <1>1, <1>2, NatInductive
<1>4. ASSUME NEW t \in (-1) .. (n - 1)
      PROVE  f[t] = g[t]
  <2>1. n \in T /\ t < n
    BY <1>3
  <2> QED  BY <2>1
<1> QED  BY <1>4

----------------------------------------------------------------------------
(* The scans of a summary.                                                 *)

FlaggedIn(sm) == {w \in Words : w % Word \in sm[w \div Word]}

\* Every flag is of a word.
NoFlagElse(sm) == \A v \in SummaryWords : \A b \in sm[v] : At(v, b) \in Words

IsSummary(sm) == sm \in [SummaryWords -> SUBSET Bits] /\ NoFlagElse(sm)

\* The first flagged word from t up, and from t down.
FirstFrom(sm, t) ==
    LET up == {v \in FlaggedIn(sm) : t <= v}
    IN  IF up = {} THEN NIL ELSE Min(up)
LastUpTo(sm, t) ==
    LET down == {v \in FlaggedIn(sm) : v <= t}
    IN  IF down = {} THEN NIL ELSE Max(down)

\* The flags of a summary word that a mask leaves.
FlagsFrom(sm, t) == sm[t \div Word] \cap BitsFrom(t % Word)
FlagsUpTo(sm, t) == sm[t \div Word] \cap BitsUpTo(t % Word)

\* A turn of the two loops.
UpBody(sm, f) ==
    [t \in Nat |-> IF t \notin Words THEN NIL
                   ELSE IF FlagsFrom(sm, t) # {}
                   THEN (t \div Word) * Word + Min(FlagsFrom(sm, t))
                   ELSE f[NextStart(t)]]
DownBody(sm, f) ==
    [t \in Words \cup {-1} |->
       IF t < 0 THEN NIL
       ELSE IF FlagsUpTo(sm, t) # {}
       THEN (t \div Word) * Word + Max(FlagsUpTo(sm, t))
       ELSE f[(t \div Word) * Word - 1]]

\* Which words the flags of a summary word are of.
LEMMA FlagOf ==
    ASSUME NEW sm, IsSummary(sm), NEW v \in SummaryWords, NEW b \in sm[v]
    PROVE  /\ b \in Bits /\ b \in Nat /\ v \in Nat
           /\ At(v, b) \in FlaggedIn(sm) /\ At(v, b) \in Nat
           /\ At(v, b) \div Word = v /\ At(v, b) % Word = b
<1>1. b \in Bits /\ b \in Nat /\ v \in Nat
  BY LadderShape DEF IsSummary, Bits, SummaryWords, WordsFor
<1>2. At(v, b) \in Words
  BY DEF IsSummary, NoFlagElse
<1>3. At(v, b) \in Nat /\ At(v, b) \div Word = v /\ At(v, b) % Word = b
  BY <1>1, AtJoin
<1> QED  BY <1>1, <1>2, <1>3 DEF FlaggedIn

\* A flagged word not below t is flagged in the word of t, not below t, or in a
\* word further up.
LEMMA UpSplits ==
    ASSUME NEW sm, NEW t \in Words, NEW v \in FlaggedIn(sm)
    PROVE  /\ v \in Nat /\ v % Word \in Bits /\ v = At(v \div Word, v % Word)
           /\ t <= v <=> \/ v \div Word = t \div Word /\ v % Word \in FlagsFrom(sm, t)
                         \/ NextStart(t) <= v
<1>1. /\ v \in Nat /\ v \div Word \in Nat /\ v % Word \in Bits
      /\ v = At(v \div Word, v % Word)
  BY WordHasFlag, AtSplit DEF FlaggedIn
<1>2. /\ t \in Nat /\ t \div Word \in Nat /\ t % Word \in Bits
      /\ t = At(t \div Word, t % Word)
  BY WordHasFlag, AtSplit
<1>3. At(t \div Word, t % Word) <= At(v \div Word, v % Word) <=>
        \/ t \div Word < v \div Word
        \/ t \div Word = v \div Word /\ t % Word <= v % Word
  BY <1>1, <1>2, AtOrder
<1>4. NextStart(t) <= v <=> t \div Word < v \div Word
  BY <1>1, <1>2, NextStartIs
<1>5. v \div Word = t \div Word =>
        (t % Word <= v % Word <=> v % Word \in FlagsFrom(sm, t))
  <2>1. v % Word \in sm[v \div Word]
    BY DEF FlaggedIn
  <2>2. t % Word <= v % Word <=> v % Word \in BitsFrom(t % Word)
    BY <1>1, <1>2, LadderShape DEF Bits, BitsFrom
  <2> QED  BY <2>1, <2>2 DEF FlagsFrom
<1>6. (t <= v) <=> (At(t \div Word, t % Word) <= At(v \div Word, v % Word))
  BY <1>1, <1>2
<1> QED  BY <1>1, <1>3, <1>4, <1>5, <1>6

\* The same on the way down.
LEMMA DownSplits ==
    ASSUME NEW sm, NEW t \in Words, NEW v \in FlaggedIn(sm)
    PROVE  /\ v \in Nat /\ v % Word \in Bits /\ v = At(v \div Word, v % Word)
           /\ v <= t <=> \/ v \div Word = t \div Word /\ v % Word \in FlagsUpTo(sm, t)
                         \/ v <= (t \div Word) * Word - 1
<1>1. /\ v \in Nat /\ v \div Word \in Nat /\ v % Word \in Bits
      /\ v = At(v \div Word, v % Word)
  BY WordHasFlag, AtSplit DEF FlaggedIn
<1>2. /\ t \in Nat /\ t \div Word \in Nat /\ t % Word \in Bits
      /\ t = At(t \div Word, t % Word)
  BY WordHasFlag, AtSplit
<1>3. At(v \div Word, v % Word) <= At(t \div Word, t % Word) <=>
        \/ v \div Word < t \div Word
        \/ v \div Word = t \div Word /\ v % Word <= t % Word
  BY <1>1, <1>2, AtOrder
<1>4. v <= (t \div Word) * Word - 1 <=> v \div Word < t \div Word
  <2>1. 0 \in Bits /\ 0 <= v % Word /\ At(t \div Word, 0) = (t \div Word) * Word
    BY <1>1, <1>2, LadderShape DEF Bits, At
  <2>2. At(t \div Word, 0) <= At(v \div Word, v % Word) <=>
          \/ t \div Word < v \div Word
          \/ t \div Word = v \div Word /\ 0 <= v % Word
    BY <1>1, <1>2, <2>1, AtOrder
  <2>3. (t \div Word) * Word \in Int
    BY <1>2, LadderShape
  <2>4. (t \div Word) * Word <= v <=> t \div Word <= v \div Word
    BY <1>1, <1>2, <2>1, <2>2
  <2> QED  BY <1>1, <1>2, <2>3, <2>4
<1>5. v \div Word = t \div Word =>
        (v % Word <= t % Word <=> v % Word \in FlagsUpTo(sm, t))
  <2>1. v % Word \in sm[v \div Word]
    BY DEF FlaggedIn
  <2>2. v % Word <= t % Word <=> v % Word \in BitsUpTo(t % Word)
    BY <1>1, <1>2, LadderShape DEF Bits, BitsUpTo
  <2> QED  BY <2>1, <2>2 DEF FlagsUpTo
<1>6. (v <= t) <=> (At(v \div Word, v % Word) <= At(t \div Word, t % Word))
  BY <1>1, <1>2
<1> QED  BY <1>1, <1>3, <1>4, <1>5, <1>6

\* What the search for the first flag from t up comes to, a turn at a time.
LEMMA FirstFromTurns ==
    ASSUME NEW sm, IsSummary(sm)
    PROVE  [t \in Nat |-> FirstFrom(sm, t)] = UpBody(sm, [t \in Nat |-> FirstFrom(sm, t)])
<1> DEFINE Up(t) == {v \in FlaggedIn(sm) : t <= v}
<1> SUFFICES ASSUME NEW t \in Nat
             PROVE  FirstFrom(sm, t) =
                      IF t \notin Words THEN NIL
                      ELSE IF FlagsFrom(sm, t) # {}
                      THEN (t \div Word) * Word + Min(FlagsFrom(sm, t))
                      ELSE FirstFrom(sm, NextStart(t))
  BY NextStartIs DEF UpBody
<1>1. FlaggedIn(sm) \subseteq Words /\ FlaggedIn(sm) \subseteq Nat
  BY WordHasFlag DEF FlaggedIn
<1>2. CASE t \notin Words
  <2>1. \A v \in Words : ~(t <= v)
    BY <1>2, WordsAre
  <2>2. Up(t) = {}
    BY <1>1, <2>1
  <2> QED  BY <1>2, <2>2 DEF FirstFrom
<1>3. CASE t \in Words /\ FlagsFrom(sm, t) # {}
  <2> DEFINE k == t \div Word
             m == Min(FlagsFrom(sm, t))
  <2>1. k \in SummaryWords /\ k \in Nat
    BY <1>3, WordHasFlag, AtSplit
  <2>2. FlagsFrom(sm, t) \subseteq Nat /\ FlagsFrom(sm, t) \subseteq sm[k]
    BY <2>1, LadderShape DEF FlagsFrom, IsSummary, Bits
  <2>3. m \in FlagsFrom(sm, t) /\ \A y \in FlagsFrom(sm, t) : m <= y
    BY <1>3, <2>2, MinIsLeast
  <2> HIDE DEF m
  <2>4. /\ At(k, m) \in FlaggedIn(sm) /\ m \in Bits
        /\ At(k, m) \div Word = k /\ At(k, m) % Word = m
    BY <2>1, <2>2, <2>3, FlagOf
  <2>5. At(k, m) \in Up(t)
    <3>1. t <= At(k, m)
      BY <1>3, <2>3, <2>4, UpSplits
    <3> QED  BY <2>4, <3>1
  <2>6. ASSUME NEW v \in Up(t)
        PROVE  At(k, m) <= v
    <3>1. v \in FlaggedIn(sm) /\ t <= v
      OBVIOUS
    <3>2. /\ v \in Nat /\ v % Word \in Bits /\ v = At(v \div Word, v % Word)
          /\ \/ v \div Word = k /\ v % Word \in FlagsFrom(sm, t)
             \/ NextStart(t) <= v
      BY <1>3, <3>1, UpSplits
    <3>3. v \div Word \in Nat
      BY <3>2, AtSplit
    <3>4. k < v \div Word \/ (k = v \div Word /\ m <= v % Word)
      BY <2>3, <3>2, NextStartIs
    <3> QED  BY <2>1, <2>4, <3>2, <3>3, <3>4, AtOrder
  <2>7. Up(t) \subseteq Nat
    BY <1>1
  <2> HIDE DEF Up, k
  <2>8. Min(Up(t)) = At(k, m)
    BY <2>5, <2>6, <2>7, MinIs
  <2> QED  BY <1>3, <2>5, <2>8 DEF FirstFrom, Up, At, k, m
<1>4. CASE t \in Words /\ FlagsFrom(sm, t) = {}
  <2>1. \A v \in FlaggedIn(sm) : t <= v <=> NextStart(t) <= v
    BY <1>4, UpSplits
  <2>2. Up(t) = Up(NextStart(t))
    BY <2>1
  <2> QED  BY <1>4, <2>2 DEF FirstFrom
<1> QED  BY <1>2, <1>3, <1>4

\* The loop of rescan() for an ask finds the first flagged word from s up.
LEMMA WordUpFinds ==
    ASSUME NEW sm, IsSummary(sm), NEW s \in Nat
    PROVE  WordUp(sm, s) = FirstFrom(sm, s)
<1> DEFINE f == CHOOSE g : g = UpBody(sm, g)
           U == [t \in Nat |-> FirstFrom(sm, t)]
<1>1. U = UpBody(sm, U)
  BY FirstFromTurns
<1>2. f = UpBody(sm, f)
  <2>1. \E g : g = UpBody(sm, g)
    BY <1>1
  <2> QED  BY <2>1
<1>3. WordUp(sm, s) = f[s]
  BY DEF WordUp, UpBody, FlagsFrom
<1> HIDE DEF f, U
<1>4. PICK n \in Nat : Words = 0 .. (n - 1)
  BY WordsAre
<1>5. \A t \in Nat : n <= t => f[t] = U[t]
  <2> SUFFICES ASSUME NEW t \in Nat, n <= t
               PROVE  f[t] = U[t]
    OBVIOUS
  <2>1. t \notin Words
    BY <1>4
  <2>2. f[t] = NIL
    BY <1>2, <2>1 DEF UpBody
  <2>3. U[t] = NIL
    BY <1>1, <2>1 DEF UpBody
  <2> QED  BY <2>2, <2>3
<1>6. ASSUME NEW t \in Nat
      PROVE  f[NextStart(t)] = U[NextStart(t)] => f[t] = U[t]
  <2> DEFINE Turn(x) == IF t \notin Words THEN NIL
                        ELSE IF FlagsFrom(sm, t) # {}
                        THEN (t \div Word) * Word + Min(FlagsFrom(sm, t))
                        ELSE x
  <2>1. f[t] = Turn(f[NextStart(t)])
    BY <1>2 DEF UpBody
  <2>2. U[t] = Turn(U[NextStart(t)])
    BY <1>1 DEF UpBody
  <2> QED  BY <2>1, <2>2
<1>7. Alike(n, f, U)
  BY <1>5, <1>6 DEF Alike
<1>8. \A t \in Nat : f[t] = U[t]
  BY <1>4, <1>7, LoopEnds
<1> QED  BY <1>3, <1>8 DEF U

\* The word of a place begins no higher than it.
LEMMA StartBelow ==
    ASSUME NEW t \in Words
    PROVE  /\ t \in Nat /\ (t \div Word) * Word - 1 \in (-1) .. (t - 1)
           /\ (t \div Word) * Word - 1 \in Words \cup {-1}
<1>1. t \in Nat /\ t \div Word \in Nat /\ t % Word \in Bits
      /\ t = At(t \div Word, t % Word)
  BY WordHasFlag, AtSplit
<1>2. PICK k \in Nat : k = t \div Word
  BY <1>1
<1>3. k * Word \in Nat /\ k * Word <= t
  BY <1>1, <1>2, LadderShape DEF At, Bits
<1>4. k * Word - 1 \in Words \cup {-1}
  BY <1>1, <1>3, WordsAre
<1> QED  BY <1>1, <1>2, <1>3, <1>4

LEMMA LastUpToTurns ==
    ASSUME NEW sm, IsSummary(sm)
    PROVE  [t \in Words \cup {-1} |-> LastUpTo(sm, t)] =
             DownBody(sm, [t \in Words \cup {-1} |-> LastUpTo(sm, t)])
<1> DEFINE Down(t) == {v \in FlaggedIn(sm) : v <= t}
<1>0. \A t \in Words : t \in Nat /\ (t \div Word) * Word - 1 \in Words \cup {-1}
  BY StartBelow
<1> SUFFICES ASSUME NEW t \in Words \cup {-1}
             PROVE  LastUpTo(sm, t) =
                      IF t < 0 THEN NIL
                      ELSE IF FlagsUpTo(sm, t) # {}
                      THEN (t \div Word) * Word + Max(FlagsUpTo(sm, t))
                      ELSE LastUpTo(sm, (t \div Word) * Word - 1)
  <2>1. ASSUME NEW t \in Words \cup {-1}, ~(t < 0)
        PROVE  (t \div Word) * Word - 1 \in Words \cup {-1}
    BY <1>0, <2>1
  <2> QED  BY <2>1 DEF DownBody
<1>1. FlaggedIn(sm) \subseteq Words /\ FlaggedIn(sm) \subseteq Nat
  BY WordHasFlag DEF FlaggedIn
<1>2. CASE t = -1
  <2>1. Down(t) = {}
    BY <1>1, <1>2
  <2> QED  BY <1>2, <2>1 DEF LastUpTo
<1>3. CASE t \in Words /\ FlagsUpTo(sm, t) # {}
  <2> DEFINE k == t \div Word
             m == Max(FlagsUpTo(sm, t))
  <2>1. k \in SummaryWords /\ k \in Nat /\ t \in Nat
    BY <1>3, WordHasFlag, AtSplit
  <2>2. /\ FlagsUpTo(sm, t) \subseteq 0 .. (Word - 1) /\ Word - 1 \in Nat
        /\ FlagsUpTo(sm, t) \subseteq sm[k]
    BY <2>1, LadderShape DEF FlagsUpTo, IsSummary, Bits
  <2>3. m \in FlagsUpTo(sm, t) /\ \A y \in FlagsUpTo(sm, t) : y <= m
    BY <1>3, <2>2, MaxIsGreatest
  <2> HIDE DEF m
  <2>4. /\ At(k, m) \in FlaggedIn(sm) /\ m \in Bits
        /\ At(k, m) \div Word = k /\ At(k, m) % Word = m
    BY <2>1, <2>2, <2>3, FlagOf
  <2>5. At(k, m) \in Down(t)
    <3>1. At(k, m) <= t
      BY <1>3, <2>3, <2>4, DownSplits
    <3> QED  BY <2>4, <3>1
  <2>6. ASSUME NEW v \in Down(t)
        PROVE  v <= At(k, m)
    <3>1. v \in FlaggedIn(sm) /\ v <= t
      OBVIOUS
    <3>2. /\ v \in Nat /\ v % Word \in Bits /\ v = At(v \div Word, v % Word)
          /\ \/ v \div Word = k /\ v % Word \in FlagsUpTo(sm, t)
             \/ v <= k * Word - 1
      BY <1>3, <3>1, DownSplits
    <3>3. v \div Word \in Nat
      BY <3>2, AtSplit
    <3>4. v \div Word < k \/ (v \div Word = k /\ v % Word <= m)
      <4>1. CASE v \div Word = k /\ v % Word \in FlagsUpTo(sm, t)
        BY <4>1, <2>3
      <4>2. CASE v <= k * Word - 1
        <5>1. 0 \in Bits /\ 0 <= v % Word /\ At(k, 0) = k * Word /\ k * Word \in Int
          BY <2>1, <3>2, LadderShape DEF Bits, At
        <5>2. ~(At(k, 0) <= At(v \div Word, v % Word))
          BY <3>2, <4>2, <5>1
        <5> QED  BY <2>1, <3>2, <3>3, <5>1, <5>2, AtOrder
      <4> QED  BY <3>2, <4>1, <4>2
    <3> QED  BY <2>1, <2>4, <3>2, <3>3, <3>4, AtOrder
  <2>7. Down(t) \subseteq Nat
    BY <1>1
  <2> HIDE DEF Down, k
  <2>8. Max(Down(t)) = At(k, m)
    BY <2>5, <2>6, <2>7, MaxIs
  <2> QED  BY <1>3, <2>1, <2>5, <2>8 DEF LastUpTo, Down, At, k, m
<1>4. CASE t \in Words /\ FlagsUpTo(sm, t) = {}
  <2>1. \A v \in FlaggedIn(sm) : v <= t <=> v <= (t \div Word) * Word - 1
    BY <1>4, DownSplits
  <2>2. Down(t) = Down((t \div Word) * Word - 1)
    BY <2>1
  <2>3. t \in Nat
    BY <1>0, <1>4
  <2>4. ~(t < 0) /\ FlagsUpTo(sm, t) = {}
    BY <1>4, <2>3
  <2>5. LastUpTo(sm, t) = LastUpTo(sm, (t \div Word) * Word - 1)
    BY <2>2 DEF LastUpTo
  <2> QED  BY <2>4, <2>5
<1> QED  BY <1>2, <1>3, <1>4

\* The loop for a bid finds the last flagged word from s down.
LEMMA WordDownFinds ==
    ASSUME NEW sm, IsSummary(sm), NEW s \in Words \cup {-1}
    PROVE  WordDown(sm, s) = LastUpTo(sm, s)
<1> DEFINE f == CHOOSE g : g = DownBody(sm, g)
           D == [t \in Words \cup {-1} |-> LastUpTo(sm, t)]
<1>1. D = DownBody(sm, D)
  BY LastUpToTurns
<1>2. f = DownBody(sm, f)
  <2>1. \E g : g = DownBody(sm, g)
    BY <1>1
  <2> QED  BY <2>1
<1>3. WordDown(sm, s) = f[s]
  BY DEF WordDown, DownBody, FlagsUpTo
<1> HIDE DEF f, D
<1>4. PICK n \in Nat : Words = 0 .. (n - 1)
  BY WordsAre
<1>5. f[-1] = D[-1]
  <2>1. -1 \in Words \cup {-1} /\ -1 < 0
    OBVIOUS
  <2>2. f[-1] = NIL /\ D[-1] = NIL
    BY <1>1, <1>2, <2>1 DEF DownBody
  <2> QED  BY <2>2
<1>6. \A t \in 0 .. (n - 1) :
        \E u \in (-1) .. (t - 1) : f[u] = D[u] => f[t] = D[t]
  <2> SUFFICES ASSUME NEW t \in 0 .. (n - 1)
               PROVE  \E u \in (-1) .. (t - 1) : f[u] = D[u] => f[t] = D[t]
    OBVIOUS
  <2> DEFINE u == (t \div Word) * Word - 1
             Turn(x) == IF t < 0 THEN NIL
                        ELSE IF FlagsUpTo(sm, t) # {}
                        THEN (t \div Word) * Word + Max(FlagsUpTo(sm, t))
                        ELSE x
  <2>0. t \in Words
    BY <1>4
  <2>1. u \in (-1) .. (t - 1)
    BY <2>0, StartBelow
  <2>2. f[t] = Turn(f[u])
    BY <1>2, <2>0 DEF DownBody
  <2>3. D[t] = Turn(D[u])
    BY <1>1, <2>0 DEF DownBody
  <2>4. f[u] = D[u] => f[t] = D[t]
    BY <2>2, <2>3
  <2> HIDE DEF u, Turn
  <2> QED  BY <2>1, <2>4
<1>7. \A t \in (-1) .. (n - 1) : f[t] = D[t]
  BY <1>5, <1>6, LoopEndsBelow
<1>8. s \in (-1) .. (n - 1)
  BY <1>4
<1> QED  BY <1>3, <1>7, <1>8 DEF D

----------------------------------------------------------------------------
(* The invariant.                                                          *)

IndexType ==
    /\ side \in {"Bid", "Ask"}
    /\ occupied \subseteq Ticks
    /\ total \in [Ticks -> Qtys]
    /\ bits \in [Words -> SUBSET Bits]
    /\ summary \in [SummaryWords -> SUBSET Bits]
    /\ best \in Ticks \cup {NIL}

\* A bit is set exactly when its level holds orders, also the bits of the last
\* word that are no ticks.
BitsAreLevels ==
    \A w \in Words, b \in Bits : b \in bits[w] <=> At(w, b) \in occupied

FlagsAreWords ==
    \A w \in Words : w % Word \in summary[w \div Word] <=> bits[w] # {}

LevelsAreCounted == IsFiniteSet(occupied) /\ count = Cardinality(occupied)

\* Tick j is not better than tick i.
NotBetter(i, j) == IF side = "Bid" THEN j <= i ELSE i <= j

CursorIsBest ==
    /\ occupied = {} => best = NIL
    /\ occupied # {} => best \in occupied /\ \A j \in occupied : NotBetter(best, j)

IndexInv ==
    /\ IndexType
    /\ BitsAreLevels
    /\ FlagsAreWords
    /\ NoFlagElse(summary)
    /\ LevelsAreCounted
    /\ CursorIsBest

\* A word has a flag of its own.
LEMMA FlagsApart ==
    ASSUME NEW w \in Words, NEW v \in Words,
           w \div Word = v \div Word, w % Word = v % Word
    PROVE  w = v
BY WordHasFlag

LEMMA TicksFinite == IsFiniteSet(Ticks) /\ Cardinality(Ticks) = Span
BY FS_Interval, LadderShape DEF Ticks

----------------------------------------------------------------------------
(* The steps.                                                              *)

LEMMA InitIndex == Init => IndexInv
<1> SUFFICES ASSUME Init
             PROVE  IndexInv
  OBVIOUS
<1>1. IndexType
  BY QtyWidth DEF Init, IndexType, Qtys
<1>2. BitsAreLevels
  BY DEF Init, BitsAreLevels
<1>3. FlagsAreWords
  BY WordHasFlag DEF Init, FlagsAreWords
<1>4. LevelsAreCounted
  BY FS_EmptySet DEF Init, LevelsAreCounted
<1>5. CursorIsBest
  BY DEF Init, CursorIsBest
<1>6. NoFlagElse(summary)
  BY DEF Init, NoFlagElse
<1> QED  BY <1>1, <1>2, <1>3, <1>4, <1>5, <1>6 DEF IndexInv

\* The bitmaps after the bit of tick i is set to on.
LEMMA BitsFollow ==
    ASSUME IndexInv, NEW i \in Ticks, NEW on \in BOOLEAN,
           occupied' = IF on THEN occupied \cup {i} ELSE occupied \ {i},
           bits' = [bits EXCEPT ![i \div Word] =
                      IF on THEN @ \cup {i % Word} ELSE @ \ {i % Word}]
    PROVE  BitsAreLevels' /\ bits' \in [Words -> SUBSET Bits]
<1>1. /\ i \div Word \in Words /\ i % Word \in Bits
      /\ i = At(i \div Word, i % Word)
  BY TickHasWord
<1>2. bits' \in [Words -> SUBSET Bits]
  BY <1>1 DEF IndexInv, IndexType
<1>3. ASSUME NEW w \in Words, NEW b \in Bits
      PROVE  b \in bits'[w] <=> At(w, b) \in occupied'
  <2>1. At(w, b) = i <=> w = i \div Word /\ b = i % Word
    BY <1>1, WordHasFlag, AtJoin
  <2>2. b \in bits[w] <=> At(w, b) \in occupied
    BY DEF IndexInv, BitsAreLevels
  <2>3. bits'[w] = IF w = i \div Word
                   THEN IF on THEN bits[w] \cup {i % Word}
                        ELSE bits[w] \ {i % Word}
                   ELSE bits[w]
    BY <1>1 DEF IndexInv, IndexType
  <2> QED  BY <2>1, <2>2, <2>3
<1> QED  BY <1>2, <1>3 DEF BitsAreLevels

LEMMA InsertIndex ==
    ASSUME IndexInv, NEW i \in Ticks, NEW q \in Qtys, Insert(i, q)
    PROVE  IndexInv'
<1>1. total' \in [Ticks -> Qtys] /\ side' = side
  BY QtyWidth DEF Insert, IndexInv, IndexType, Qtys
<1>2. occupied' = occupied \cup {i}
  BY DEF Insert
<1>3. CASE i \in occupied
  <2>1. occupied' = occupied /\ UNCHANGED <<bits, summary, count, best>>
    BY <1>2, <1>3 DEF Insert, IsFirst
  <2> QED  BY <1>1, <2>1 DEF IndexInv, IndexType, BitsAreLevels, FlagsAreWords,
                             NoFlagElse, LevelsAreCounted, CursorIsBest, NotBetter
<1>4. CASE i \notin occupied
  <2> DEFINE w == i \div Word
  <2>1. /\ bits' = [bits EXCEPT ![w] = @ \cup {i % Word}]
        /\ summary' = [summary EXCEPT ![w \div Word] = @ \cup {w % Word}]
        /\ count' = count + 1
        /\ best' = IF Better(i) THEN i ELSE best
    BY <1>4 DEF Insert, IsFirst
  <2>2. w \in Words /\ i % Word \in Bits /\ i \in Nat
    BY TickHasWord
  <2>3. BitsAreLevels' /\ bits' \in [Words -> SUBSET Bits]
    BY <1>2, <2>1, BitsFollow
  <2> HIDE DEF w
  <2>4. w \div Word \in SummaryWords /\ w % Word \in Bits
        /\ w = At(w \div Word, w % Word)
    BY <2>2, WordHasFlag
  <2>5. summary' \in [SummaryWords -> SUBSET Bits]
    BY <2>1, <2>4 DEF IndexInv, IndexType
  <2>6. FlagsAreWords'
    <3> SUFFICES ASSUME NEW v \in Words
                 PROVE  v % Word \in summary'[v \div Word] <=> bits'[v] # {}
      BY DEF FlagsAreWords
    <3>1. v \div Word \in SummaryWords
      BY WordHasFlag
    <3>2. v % Word \in summary[v \div Word] <=> bits[v] # {}
      BY DEF IndexInv, FlagsAreWords
    <3>3. CASE v = w
      BY <3>1, <3>3, <2>1, <2>2 DEF IndexInv, IndexType
    <3>4. CASE v # w
      <4>1. bits'[v] = bits[v]
        BY <3>4, <2>1, <2>2 DEF IndexInv, IndexType
      <4>2. ~(v \div Word = w \div Word /\ v % Word = w % Word)
        BY <3>4, <2>2, FlagsApart
      <4> QED  BY <3>1, <3>2, <4>1, <4>2, <2>1 DEF IndexInv, IndexType
    <3> QED  BY <3>3, <3>4
  <2>7. LevelsAreCounted'
    BY <1>2, <1>4, <2>1, FS_AddElement DEF IndexInv, LevelsAreCounted
  <2>8. best' \in Ticks \cup {NIL}
    BY <2>1 DEF IndexInv, IndexType
  <2>9. CursorIsBest'
    <3>1. \A j \in occupied \cup {i} : j \in Nat
      BY TickHasWord DEF IndexInv, IndexType
    <3>2. best = NIL <=> occupied = {}
      BY <3>1, NilIsNoTick DEF IndexInv, CursorIsBest
    <3>3. CASE occupied = {}
      BY <3>1, <3>2, <3>3, <1>2, <2>1 DEF Better, CursorIsBest, NotBetter
    <3>4. CASE occupied # {}
      <4>1. best \in occupied /\ \A j \in occupied : NotBetter(best, j)
        BY <3>4 DEF IndexInv, CursorIsBest
      <4>2. side \in {"Bid", "Ask"}
        BY DEF IndexInv, IndexType
      <4>3. CASE Better(i)
        <5>1. best' = i /\ occupied' # {} /\ best \in Nat
          BY <4>1, <4>3, <3>1, <1>2, <2>1
        <5>2. IF side = "Bid" THEN best <= i ELSE i <= best
          BY <5>1, <4>2, <4>3, <3>1, NilIsNoTick DEF Better
        <5>3. \A j \in occupied : IF side = "Bid" THEN j <= i ELSE i <= j
          <6> SUFFICES ASSUME NEW j \in occupied
                       PROVE  IF side = "Bid" THEN j <= i ELSE i <= j
            OBVIOUS
          <6>1. j \in Nat /\ i \in Nat /\ NotBetter(best, j)
            BY <4>1, <3>1
          <6> QED  BY <6>1, <5>1, <5>2 DEF NotBetter
        <5> QED  BY <5>1, <5>3, <3>1, <1>1, <1>2 DEF CursorIsBest, NotBetter
      <4>4. CASE ~Better(i)
        BY <4>1, <4>2, <4>4, <3>1, <3>2, <3>4, <1>1, <1>2, <2>1
           DEF Better, CursorIsBest, NotBetter
      <4> QED  BY <4>3, <4>4
    <3> QED  BY <3>3, <3>4
  <2>10. NoFlagElse(summary)'
    <3> SUFFICES ASSUME NEW v \in SummaryWords, NEW b \in summary'[v]
                 PROVE  At(v, b) \in Words
      BY DEF NoFlagElse
    <3>1. b \in summary[v] \/ (v = w \div Word /\ b = w % Word)
      BY <2>1, <2>4 DEF IndexInv, IndexType
    <3> QED  BY <3>1, <2>2, <2>4 DEF IndexInv, NoFlagElse
  <2> QED  BY <1>1, <1>2, <2>3, <2>5, <2>6, <2>7, <2>8, <2>9, <2>10
              DEF IndexInv, IndexType
<1> QED  BY <1>3, <1>4

\* From tick i, whose level has just gone and which no other level is better
\* than, rescan() finds the best level left: in the word of i if that has a
\* level, else in the nearest word that is flagged.
LEMMA RescanAskFinds ==
    ASSUME IndexInv, NEW i \in Ticks, occupied' \subseteq Ticks,
           BitsAreLevels', FlagsAreWords', IsSummary(summary'),
           bits' \in [Words -> SUBSET Bits],
           occupied' # {}, \A j \in occupied' : i <= j
    PROVE  RescanAsk(i)' \in occupied' /\ \A j \in occupied' : RescanAsk(i)' <= j
<1> DEFINE w == i \div Word
           here == bits'[w] \cap BitsFrom(i % Word)
           above == {v \in FlaggedIn(summary') : w + 1 <= v}
<1>0. WordUp(summary', w + 1) = IF above = {} THEN NIL ELSE Min(above)
  <2>1. w + 1 \in Nat
    BY AtSplit, TickHasWord
  <2> HIDE DEF w
  <2> QED  BY <2>1, WordUpFinds DEF FirstFrom
<1>1. RescanAsk(i)' = IF here # {} THEN w * Word + Min(here)
                      ELSE IF WordUp(summary', w + 1) # NIL
                      THEN WordUp(summary', w + 1) * Word
                             + Min(bits'[WordUp(summary', w + 1)])
                      ELSE NIL
  BY DEF RescanAsk, Lowest
<1>2. w \in Words /\ w \in Nat /\ i % Word \in Bits /\ i = At(w, i % Word)
  BY TickHasWord, WordHasFlag
<1>3. \A j \in occupied' :
         /\ j \div Word \in Words /\ j \div Word \in Nat /\ j % Word \in Bits
         /\ j = At(j \div Word, j % Word)
         /\ j % Word \in bits'[j \div Word]
  BY TickHasWord, WordHasFlag DEF BitsAreLevels
<1> HIDE DEF w
\* Every level left is in the word of i, no lower, or in a higher word.
<1>4. \A j \in occupied' : \/ j \div Word = w /\ j % Word \in here
                           \/ w < j \div Word
  <2> SUFFICES ASSUME NEW j \in occupied'
               PROVE  \/ j \div Word = w /\ j % Word \in here
                      \/ w < j \div Word
    OBVIOUS
  <2>1. At(w, i % Word) <= At(j \div Word, j % Word)
    BY <1>2, <1>3
  <2>2. w < j \div Word \/ (w = j \div Word /\ i % Word <= j % Word)
    BY <1>2, <1>3, <2>1, AtOrder
  <2>3. i % Word <= j % Word <=> j % Word \in BitsFrom(i % Word)
    BY <1>2, <1>3, LadderShape DEF Bits, BitsFrom
  <2> QED  BY <1>3, <2>2, <2>3
<1>5. CASE here # {}
  <2> DEFINE m == Min(here)
  <2>1. here \subseteq Nat /\ here \subseteq Bits
    BY <1>2, LadderShape DEF Bits
  <2> HIDE DEF here
  <2>2. m \in here /\ \A y \in here : m <= y
    BY <1>5, <2>1, MinIsLeast
  <2> USE DEF here
  <2>3. m \in Bits /\ m \in bits'[w]
    BY <2>1, <2>2
  <2> HIDE DEF m
  <2>4. At(w, m) \in occupied'
    BY <1>2, <2>3 DEF BitsAreLevels
  <2>5. ASSUME NEW j \in occupied'
        PROVE  At(w, m) <= j
    BY <1>2, <1>3, <1>4, <2>2, <2>3, AtOrder
  <2> QED  BY <1>1, <1>5, <2>4, <2>5 DEF At, m
<1>6. CASE here = {}
  <2>1. \A j \in occupied' : j \div Word \in above
    BY <1>2, <1>3, <1>4, <1>6, WordHasFlag DEF FlagsAreWords, FlaggedIn
  <2>2. above # {} /\ above \subseteq Words /\ above \subseteq Nat
    BY <2>1, WordHasFlag DEF FlaggedIn
  <2> DEFINE v == Min(above)
             m == Min(bits'[v])
  <2> HIDE DEF above
  <2>3. v \in above /\ \A y \in above : v <= y
    BY <2>2, MinIsLeast
  <2> USE DEF above
  <2>4. v \in Words /\ v \in Nat /\ bits'[v] # {}
    BY <2>2, <2>3 DEF FlagsAreWords, FlaggedIn
  <2> HIDE DEF v
  <2>5. bits'[v] \subseteq Bits /\ bits'[v] \subseteq Nat
    BY <2>4, LadderShape DEF Bits
  <2>6. m \in bits'[v] /\ \A y \in bits'[v] : m <= y
    BY <2>4, <2>5, MinIsLeast
  <2>7. m \in Bits
    BY <2>5, <2>6
  <2> HIDE DEF m
  <2>8. At(v, m) \in occupied'
    BY <2>4, <2>6, <2>7 DEF BitsAreLevels
  <2>9. ASSUME NEW j \in occupied'
        PROVE  At(v, m) <= j
    <3>1. v <= j \div Word
      BY <2>1, <2>3
    <3>2. v < j \div Word \/ (v = j \div Word /\ m <= j % Word)
      BY <1>3, <2>4, <2>6, <3>1
    <3> QED  BY <1>3, <2>4, <2>7, <3>2, AtOrder
  <2>10. WordUp(summary', w + 1) = v /\ v # NIL
    BY <1>0, <2>2, <2>4, NilIsNoTick DEF v
  <2> QED  BY <1>1, <1>6, <2>8, <2>9, <2>10 DEF At, m
<1> QED  BY <1>5, <1>6

LEMMA RescanBidFinds ==
    ASSUME IndexInv, NEW i \in Ticks, occupied' \subseteq Ticks,
           BitsAreLevels', FlagsAreWords', IsSummary(summary'),
           bits' \in [Words -> SUBSET Bits],
           occupied' # {}, \A j \in occupied' : j <= i
    PROVE  RescanBid(i)' \in occupied' /\ \A j \in occupied' : j <= RescanBid(i)'
<1> DEFINE w == i \div Word
           here == bits'[w] \cap BitsUpTo(i % Word)
           below == {v \in FlaggedIn(summary') : v <= w - 1}
<1>0. WordDown(summary', w - 1) = IF below = {} THEN NIL ELSE Max(below)
  <2>1. w - 1 \in Words \cup {-1}
    <3>1. w \in Words
      BY TickHasWord
    <3> HIDE DEF w
    <3> QED  BY <3>1, WordsAre
  <2> HIDE DEF w
  <2> QED  BY <2>1, WordDownFinds DEF LastUpTo
<1>1. RescanBid(i)' = IF here # {} THEN w * Word + Max(here)
                      ELSE IF WordDown(summary', w - 1) # NIL
                      THEN WordDown(summary', w - 1) * Word
                             + Max(bits'[WordDown(summary', w - 1)])
                      ELSE NIL
  BY DEF RescanBid, Highest
<1>2. w \in Words /\ w \in Nat /\ i % Word \in Bits /\ i = At(w, i % Word)
  BY TickHasWord, WordHasFlag
<1>3. \A j \in occupied' :
         /\ j \div Word \in Words /\ j \div Word \in Nat /\ j % Word \in Bits
         /\ j = At(j \div Word, j % Word)
         /\ j % Word \in bits'[j \div Word]
  BY TickHasWord, WordHasFlag DEF BitsAreLevels
<1> HIDE DEF w
\* Every level left is in the word of i, no higher, or in a lower word.
<1>4. \A j \in occupied' : \/ j \div Word = w /\ j % Word \in here
                           \/ j \div Word < w
  <2> SUFFICES ASSUME NEW j \in occupied'
               PROVE  \/ j \div Word = w /\ j % Word \in here
                      \/ j \div Word < w
    OBVIOUS
  <2>1. At(j \div Word, j % Word) <= At(w, i % Word)
    BY <1>2, <1>3
  <2>2. j \div Word < w \/ (j \div Word = w /\ j % Word <= i % Word)
    BY <1>2, <1>3, <2>1, AtOrder
  <2>3. j % Word <= i % Word <=> j % Word \in BitsUpTo(i % Word)
    BY <1>2, <1>3, LadderShape DEF Bits, BitsUpTo
  <2> QED  BY <1>3, <2>2, <2>3
<1>5. CASE here # {}
  <2> DEFINE m == Max(here)
  <2>1. Word - 1 \in Nat /\ here \subseteq 0 .. (Word - 1)
    BY <1>2, LadderShape DEF Bits
  <2> HIDE DEF here
  <2>2. m \in here /\ \A y \in here : y <= m
    BY <1>5, <2>1, MaxIsGreatest
  <2> USE DEF here
  <2>3. m \in Bits /\ m \in bits'[w]
    BY <2>1, <2>2 DEF Bits
  <2> HIDE DEF m
  <2>4. At(w, m) \in occupied'
    BY <1>2, <2>3 DEF BitsAreLevels
  <2>5. ASSUME NEW j \in occupied'
        PROVE  j <= At(w, m)
    BY <1>2, <1>3, <1>4, <2>2, <2>3, AtOrder
  <2> QED  BY <1>1, <1>5, <2>4, <2>5 DEF At, m
<1>6. CASE here = {}
  <2>1. \A j \in occupied' : j \div Word \in below
    BY <1>2, <1>3, <1>4, <1>6, WordHasFlag DEF FlagsAreWords, FlaggedIn
  <2>2. below # {} /\ below \subseteq Words /\ below \subseteq 0 .. w
    <3>1. below # {} /\ below \subseteq Words
      BY <2>1 DEF FlaggedIn
    <3>2. \A v \in below : v \in Nat /\ v <= w - 1
      BY <3>1, WordHasFlag
    <3> HIDE DEF below
    <3> QED  BY <1>2, <3>1, <3>2
  <2> DEFINE v == Max(below)
             m == Max(bits'[v])
  <2> HIDE DEF below
  <2>3. v \in below /\ \A y \in below : y <= v
    BY <1>2, <2>2, MaxIsGreatest
  <2> USE DEF below
  <2>4. v \in Words /\ v \in Nat /\ bits'[v] # {}
    BY <2>2, <2>3, WordHasFlag DEF FlagsAreWords, FlaggedIn
  <2> HIDE DEF v
  <2>5. /\ Word - 1 \in Nat /\ bits'[v] \subseteq Bits
        /\ bits'[v] \subseteq 0 .. (Word - 1)
    BY <2>4, LadderShape DEF Bits
  <2>6. m \in bits'[v] /\ \A y \in bits'[v] : y <= m
    BY <2>4, <2>5, MaxIsGreatest
  <2>7. m \in Bits
    BY <2>5, <2>6
  <2> HIDE DEF m
  <2>8. At(v, m) \in occupied'
    BY <2>4, <2>6, <2>7 DEF BitsAreLevels
  <2>9. ASSUME NEW j \in occupied'
        PROVE  j <= At(v, m)
    <3>1. j \div Word <= v
      BY <2>1, <2>3
    <3>2. j \div Word < v \/ (j \div Word = v /\ j % Word <= m)
      BY <1>3, <2>4, <2>6, <3>1
    <3> QED  BY <1>3, <2>4, <2>7, <3>2, AtOrder
  <2>10. WordDown(summary', w - 1) = v /\ v # NIL
    BY <1>0, <2>2, <2>4, NilIsNoTick DEF v
  <2> QED  BY <1>1, <1>6, <2>8, <2>9, <2>10 DEF At, m
<1> QED  BY <1>5, <1>6

LEMMA EmptyIndex ==
    ASSUME IndexInv, NEW i \in Ticks, Empty(i)
    PROVE  IndexInv'
<1> DEFINE w == i \div Word
           word == bits[w] \ {i % Word}
<1>1. /\ i \in occupied /\ side' = side /\ occupied' = occupied \ {i}
      /\ total' = [total EXCEPT ![i] = 0]
      /\ bits' = [bits EXCEPT ![w] = word]
      /\ summary' = SummaryAfter(i, word)
      /\ count' = count - 1
      /\ best' = IF count' = 0 THEN NIL
                 ELSE IF i = best THEN Rescan(i)' ELSE best
  BY DEF Empty
<1>2. w \in Words /\ i % Word \in Bits /\ i \in Nat
  BY TickHasWord
<1>3. BitsAreLevels' /\ bits' \in [Words -> SUBSET Bits]
  <2>1. bits' = [bits EXCEPT ![w] = @ \ {i % Word}]
    BY <1>1
  <2>2. FALSE \in BOOLEAN
    OBVIOUS
  <2> QED  BY <1>1, <2>1, <2>2, BitsFollow
<1> HIDE DEF w
<1>4. total' \in [Ticks -> Qtys] /\ occupied' \subseteq Ticks
  BY <1>1, QtyWidth DEF IndexInv, IndexType, Qtys
<1>5. w \div Word \in SummaryWords /\ w % Word \in Bits /\ w \in Nat
  BY <1>2, WordHasFlag
<1>6. summary' = IF word # {} THEN summary
                 ELSE [summary EXCEPT ![w \div Word] = @ \ {w % Word}]
  BY <1>1 DEF SummaryAfter, w
<1>7. summary' \in [SummaryWords -> SUBSET Bits]
  BY <1>5, <1>6 DEF IndexInv, IndexType
<1>8. FlagsAreWords'
  <2> SUFFICES ASSUME NEW v \in Words
               PROVE  v % Word \in summary'[v \div Word] <=> bits'[v] # {}
    BY DEF FlagsAreWords
  <2>1. v \div Word \in SummaryWords
    BY WordHasFlag
  <2>2. v % Word \in summary[v \div Word] <=> bits[v] # {}
    BY DEF IndexInv, FlagsAreWords
  <2>3. bits'[v] = IF v = w THEN word ELSE bits[v]
    BY <1>1, <1>2 DEF IndexInv, IndexType
  <2>4. CASE v = w
    <3>1. i % Word \in bits[w]
      BY <1>1, <1>2, AtSplit DEF IndexInv, BitsAreLevels, w
    <3> QED  BY <2>1, <2>2, <2>3, <2>4, <3>1, <1>6 DEF IndexInv, IndexType
  <2>5. CASE v # w
    <3>1. ~(v \div Word = w \div Word /\ v % Word = w % Word)
      BY <2>5, <1>2, FlagsApart
    <3> QED  BY <2>1, <2>2, <2>3, <2>5, <3>1, <1>6 DEF IndexInv, IndexType
  <2> QED  BY <2>4, <2>5
<1>9. LevelsAreCounted'
  BY <1>1, FS_RemoveElement DEF IndexInv, LevelsAreCounted
<1>10. count' = 0 <=> occupied' = {}
  BY <1>9, FS_EmptySet DEF LevelsAreCounted
<1>11. IsSummary(summary') /\ NoFlagElse(summary)'
  <2>1. \A v \in SummaryWords : \A b \in summary'[v] : b \in summary[v]
    BY <1>6 DEF IndexInv, IndexType
  <2> QED  BY <2>1, <1>7 DEF IndexInv, NoFlagElse, IsSummary
<1>12. CursorIsBest'
  <2>1. best \in occupied /\ \A j \in occupied : NotBetter(best, j)
    BY <1>1 DEF IndexInv, CursorIsBest
  <2>2. side \in {"Bid", "Ask"}
    BY DEF IndexInv, IndexType
  <2>3. CASE occupied' = {}
    BY <2>3, <1>1, <1>10 DEF CursorIsBest
  <2>4. CASE occupied' # {} /\ i # best
    BY <2>1, <2>4, <1>1, <1>10 DEF CursorIsBest, NotBetter
  <2>5. CASE occupied' # {} /\ i = best /\ side = "Ask"
    <3>1. \A j \in occupied' : i <= j
      BY <2>1, <2>5, <1>1 DEF NotBetter
    <3>2. best' = RescanAsk(i)'
      BY <2>5, <1>1, <1>10 DEF Rescan
    <3>3. RescanAsk(i)' \in occupied' /\ \A j \in occupied' : RescanAsk(i)' <= j
      BY <2>5, <3>1, <1>3, <1>4, <1>8, <1>11, RescanAskFinds
    <3> QED  BY <2>5, <3>2, <3>3, <1>1 DEF CursorIsBest, NotBetter
  <2>6. CASE occupied' # {} /\ i = best /\ side = "Bid"
    <3>1. \A j \in occupied' : j <= i
      BY <2>1, <2>6, <1>1 DEF NotBetter
    <3>2. best' = RescanBid(i)'
      BY <2>6, <1>1, <1>10 DEF Rescan
    <3>3. RescanBid(i)' \in occupied' /\ \A j \in occupied' : j <= RescanBid(i)'
      BY <2>6, <3>1, <1>3, <1>4, <1>8, <1>11, RescanBidFinds
    <3> QED  BY <2>6, <3>2, <3>3, <1>1 DEF CursorIsBest, NotBetter
  <2> QED  BY <2>2, <2>3, <2>4, <2>5, <2>6
<1>13. best' \in Ticks \cup {NIL}
  BY <1>4, <1>12 DEF CursorIsBest
<1> QED  BY <1>1, <1>3, <1>4, <1>7, <1>8, <1>9, <1>12, <1>13, <1>11
            DEF IndexInv, IndexType

LEMMA ShrinkIndex ==
    ASSUME IndexInv, NEW i \in Ticks, NEW q \in Qtys, Shrink(i, q)
    PROVE  IndexInv'
<1>1. total' \in [Ticks -> Qtys]
  BY QtyWidth DEF Shrink, IndexInv, IndexType, Qtys
<1> QED  BY <1>1 DEF Shrink, IndexInv, IndexType, BitsAreLevels, FlagsAreWords,
                     NoFlagElse, LevelsAreCounted, CursorIsBest, NotBetter

LEMMA IndexInvariance == Spec => []IndexInv
<1>1. Init => IndexInv
  BY InitIndex
<1>2. IndexInv /\ [Next]_vars => IndexInv'
  <2> SUFFICES ASSUME IndexInv, [Next]_vars
               PROVE  IndexInv'
    OBVIOUS
  <2>1. CASE Next
    BY <2>1, InsertIndex, ShrinkIndex, EmptyIndex DEF Next
  <2>2. CASE UNCHANGED vars
    BY <2>2 DEF vars, IndexInv, IndexType, BitsAreLevels, FlagsAreWords,
                NoFlagElse, LevelsAreCounted, CursorIsBest, NotBetter
  <2> QED  BY <2>1, <2>2
<1> QED  BY <1>1, <1>2, PTL DEF Spec

----------------------------------------------------------------------------
(* The theorems.                                                           *)

\* Type correctness of the index, the count of its levels included.
THEOREM IndexTypeCorrect == Spec => []TypeOK
<1>1. IndexInv => TypeOK
  <2> SUFFICES ASSUME IndexInv
               PROVE  TypeOK
    OBVIOUS
  <2>1. count \in Nat /\ count <= Span
    BY TicksFinite, FS_Subset, FS_CardinalityType
       DEF IndexInv, IndexType, LevelsAreCounted
  <2> QED  BY <2>1, LadderShape DEF TypeOK, IndexInv, IndexType
<1> QED  BY <1>1, IndexInvariance, PTL

\* Both bitmaps tell the occupied levels exactly, for any number of ticks and
\* any width of a word: rescan() never takes the lowest bit of a zero word.
THEOREM BitmapsStayExact == Spec => []BitmapsExact
<1>1. IndexInv => BitmapsExact
  <2> SUFFICES ASSUME IndexInv
               PROVE  BitmapsExact
    OBVIOUS
  <2>1. \A i \in Ticks : i % Word \in bits[i \div Word] <=> i \in occupied
    BY TickHasWord DEF IndexInv, BitsAreLevels
  <2>2. Marked = occupied
    BY <2>1 DEF Marked, IndexInv, IndexType
  <2>3. Flagged = {w \in Words : bits[w] # {}}
    BY DEF Flagged, IndexInv, FlagsAreWords
  <2> QED  BY <2>2, <2>3 DEF BitmapsExact, IndexInv, LevelsAreCounted
<1> QED  BY <1>1, IndexInvariance, PTL

\* The cursor is on the best level, whatever a rescan had to skip.
THEOREM CursorStaysBest == Spec => []BestIsBest
<1>1. IndexInv => BestIsBest
  <2> SUFFICES ASSUME IndexInv, occupied # {}
               PROVE  best = IF side = "Bid" THEN Max(occupied) ELSE Min(occupied)
    BY DEF BestIsBest, IndexInv, CursorIsBest
  <2>1. best \in occupied /\ \A j \in occupied : NotBetter(best, j)
    BY DEF IndexInv, CursorIsBest
  <2>2. occupied \subseteq Nat /\ occupied \subseteq 0 .. (Span - 1)
          /\ Span - 1 \in Nat
    BY LadderShape DEF IndexInv, IndexType, Ticks
  <2>3. Max(occupied) \in occupied /\ \A j \in occupied : j <= Max(occupied)
    BY <2>2, MaxIsGreatest
  <2>4. Min(occupied) \in occupied /\ \A j \in occupied : Min(occupied) <= j
    BY <2>2, MinIsLeast
  <2>5. best \in Int /\ Max(occupied) \in Int /\ Min(occupied) \in Int
    <3>1. \A x \in occupied : x \in Int
      BY <2>2
    <3> QED  BY <2>1, <2>3, <2>4, <3>1, Zenon
  <2>6. CASE side = "Bid"
    <3>1. Max(occupied) <= best /\ best <= Max(occupied)
      BY <2>1, <2>3, <2>6 DEF NotBetter
    <3> QED  BY <2>5, <2>6, <3>1
  <2>7. CASE side # "Bid"
    <3>1. best <= Min(occupied) /\ Min(occupied) <= best
      BY <2>1, <2>4, <2>7 DEF NotBetter
    <3> QED  BY <2>5, <2>7, <3>1
  <2> QED  BY <2>6, <2>7
<1> QED  BY <1>1, IndexInvariance, PTL

----------------------------------------------------------------------------
(* Sums.                                                                   *)

LEMMA MaxOfTwo ==
    ASSUME NEW a \in Int, NEW b \in Int
    PROVE  Max({a, b}) = IF a >= b THEN a ELSE b
BY DEF Max

LEMMA MinOfTwo ==
    ASSUME NEW a \in Int, NEW b \in Int
    PROVE  Min({a, b}) = IF a <= b THEN a ELSE b
BY DEF Min

\* The occupied ticks from i to last, those of them in the word of i, and how
\* sum_range() gets these from a word.
Reach(i, last) == {j \in occupied : i <= j /\ j <= last}
ReachHere(i, last) == {j \in Reach(i, last) : j \div Word = i \div Word}
ClippedTicks(i, last) == {(i \div Word) * Word + b : b \in Clipped(i, last)}

\* A turn of its loop.
SumTurn(last, f) ==
    [i \in Nat |-> IF i > last THEN 0
                   ELSE (SumFunctionOnSet(total, ClippedTicks(i, last))
                           + f[NextStart(i)]) % QtyMod]

\* The masks leave of a word just what is in reach of it: also when the last
\* tick is in it, and when that is in a later word.
LEMMA ClippedAre ==
    ASSUME IndexInv, NEW last \in Ticks, NEW i \in Nat, i <= last
    PROVE  ClippedTicks(i, last) = ReachHere(i, last)
<1> DEFINE w == i \div Word
           h == Min({NextStart(i) - 1, last})
<1>1. last \in Nat /\ last <= Span - 1 /\ i \in Ticks
  BY LadderShape DEF Ticks
<1>2. w \in Words /\ w \in Nat /\ i % Word \in Bits /\ i = At(w, i % Word)
  BY <1>1, TickHasWord, AtSplit
<1>3. /\ NextStart(i) \in Nat /\ i < NextStart(i)
      /\ \A j \in Nat : NextStart(i) <= j <=> w < j \div Word
  BY NextStartIs
<1>4. h = IF NextStart(i) - 1 <= last THEN NextStart(i) - 1 ELSE last
  BY <1>1, <1>3, MinOfTwo
<1>5. Clipped(i, last) = bits[w] \cap BitsFrom(i % Word) \cap BitsUpTo(h % Word)
  BY DEF Clipped
<1> HIDE DEF h
<1>6. h \in Nat /\ i <= h /\ h < NextStart(i) /\ h <= last
      /\ (h = NextStart(i) - 1 \/ h = last)
  BY <1>1, <1>3, <1>4
<1>7. h \div Word = w /\ h % Word \in Bits /\ h = At(w, h % Word)
  <2>1. /\ h \div Word \in Nat /\ h % Word \in Bits
        /\ h = At(h \div Word, h % Word)
    BY <1>6, AtSplit
  <2>2. ~(w < h \div Word)
    BY <1>3, <1>6
  <2>3. At(w, i % Word) <= At(h \div Word, h % Word)
    BY <1>2, <1>6, <2>1
  <2>4. w <= h \div Word
    BY <1>2, <2>1, <2>3, AtOrder
  <2>5. w = h \div Word
    BY <1>2, <2>1, <2>2, <2>4
  <2> QED  BY <2>1, <2>5
<1> HIDE DEF w
<1>8. ASSUME NEW b \in Clipped(i, last)
      PROVE  At(w, b) \in ReachHere(i, last)
  <2>1. b \in Bits /\ b \in bits[w] /\ b \in Nat /\ i % Word <= b /\ b <= h % Word
    BY <1>2, <1>5, <1>7, LadderShape DEF IndexInv, IndexType, BitsFrom, BitsUpTo, Bits
  <2>2. At(w, b) \in occupied
    BY <1>2, <2>1 DEF IndexInv, BitsAreLevels
  <2>3. At(w, i % Word) <= At(w, b) /\ At(w, b) <= At(w, h % Word)
    BY <1>2, <1>7, <2>1, AtOrder
  <2>4. At(w, b) \div Word = w /\ At(w, b) \in Nat
    BY <1>2, <2>1, AtJoin
  <2>5. i <= At(w, b) /\ At(w, b) <= last
    BY <1>1, <1>2, <1>6, <1>7, <2>3, <2>4
  <2> QED  BY <2>2, <2>4, <2>5 DEF Reach, ReachHere, w
<1>9. ASSUME NEW j \in ReachHere(i, last)
      PROVE  j % Word \in Clipped(i, last) /\ j = At(w, j % Word)
  <2>1. j \in occupied /\ i <= j /\ j <= last /\ j \div Word = w /\ j \in Ticks
    BY DEF Reach, ReachHere, w, IndexInv, IndexType
  <2>2. j \in Nat /\ j % Word \in Bits /\ j = At(w, j % Word)
    BY <2>1, TickHasWord
  <2>3. j % Word \in bits[w]
    BY <1>2, <2>1, <2>2 DEF IndexInv, BitsAreLevels
  <2>4. ~(NextStart(i) <= j)
    BY <1>2, <1>3, <2>1, <2>2 DEF w
  <2>5. j <= h
    BY <1>1, <1>3, <1>6, <2>1, <2>2, <2>4
  <2>6. At(w, i % Word) <= At(w, j % Word) /\ At(w, j % Word) <= At(w, h % Word)
    BY <1>2, <1>7, <2>1, <2>2, <2>5
  <2>7. i % Word <= j % Word /\ j % Word <= h % Word
    BY <1>2, <1>7, <2>2, <2>6, AtOrder
  <2> QED  BY <1>2, <1>5, <1>7, <2>2, <2>3, <2>7, LadderShape
             DEF BitsFrom, BitsUpTo, Bits
<1> QED  BY <1>8, <1>9 DEF ClippedTicks, At, w

\* What is in reach from i on, a word at a time, summed in a Qty.
LEMMA SumTurns ==
    ASSUME IndexInv, NEW last \in Int, last <= Span - 1, NEW i \in Nat
    PROVE  SumFunctionOnSet(total, Reach(i, last)) % QtyMod =
             IF i > last THEN 0
             ELSE (SumFunctionOnSet(total, ClippedTicks(i, last))
                    + (SumFunctionOnSet(total, Reach(NextStart(i), last)) % QtyMod))
                  % QtyMod
<1>1. \A j \in occupied : j \in Nat /\ j \in Ticks
  BY TickHasWord DEF IndexInv, IndexType
<1>2. CASE i > last
  <2>1. Reach(i, last) = {}
    BY <1>1, <1>2 DEF Reach
  <2>2. 0 % QtyMod = 0
    BY QtyWidth
  <2> QED  BY <1>2, <2>1, <2>2, SumEmpty
<1>3. CASE i <= last
  <2> DEFINE A == ReachHere(i, last)
             B == Reach(NextStart(i), last)
  <2>1. last \in Ticks
    BY <1>3, LadderShape DEF Ticks
  <2>2. ClippedTicks(i, last) = A
    BY <1>3, <2>1, ClippedAre
  <2>3. \A j \in Nat : i <= j <=> \/ j \div Word = i \div Word /\ i <= j
                                  \/ NextStart(i) <= j
    <3> SUFFICES ASSUME NEW j \in Nat
                 PROVE  i <= j <=> \/ j \div Word = i \div Word /\ i <= j
                                   \/ NextStart(i) <= j
      OBVIOUS
    <3>1. /\ j \div Word \in Nat /\ j % Word \in Bits /\ j = At(j \div Word, j % Word)
          /\ i \div Word \in Nat /\ i % Word \in Bits /\ i = At(i \div Word, i % Word)
      BY AtSplit
    <3>2. At(i \div Word, i % Word) <= At(j \div Word, j % Word) =>
             i \div Word < j \div Word \/ i \div Word = j \div Word
      BY <3>1, AtOrder
    <3>3. NextStart(i) \in Nat /\ i < NextStart(i)
          /\ (NextStart(i) <= j <=> i \div Word < j \div Word)
      BY NextStartIs
    <3> QED  BY <3>1, <3>2, <3>3
  <2>4. \A j \in Nat : NextStart(i) <= j => j \div Word # i \div Word
    <3> SUFFICES ASSUME NEW j \in Nat, NextStart(i) <= j
                 PROVE  j \div Word # i \div Word
      OBVIOUS
    <3>1. i \div Word < j \div Word
      BY NextStartIs
    <3>2. i \div Word \in Nat /\ j \div Word \in Nat
      BY AtSplit
    <3> QED  BY <3>1, <3>2
  <2>5. Reach(i, last) = A \cup B /\ A \cap B = {}
    BY <1>1, <2>3, <2>4 DEF Reach, ReachHere
  <2>6. /\ A \in SUBSET occupied /\ B \in SUBSET occupied /\ IsFiniteSet(occupied)
        /\ \A j \in occupied : total[j] \in Int
    BY <1>1, QtyWidth DEF Reach, ReachHere, IndexInv, IndexType, LevelsAreCounted, Qtys
  <2> HIDE DEF A, B
  <2>7. /\ IsFiniteSet(A) /\ IsFiniteSet(B)
        /\ (\A j \in A : total[j] \in Int) /\ (\A j \in B : total[j] \in Int)
    BY <2>6, FS_Subset
  <2> DEFINE a == SumFunctionOnSet(total, A)
             b == SumFunctionOnSet(total, B)
  <2>8. a \in Int /\ b \in Int
    BY <2>7, SumInt
  <2>9. SumFunctionOnSet(total, Reach(i, last)) = a + b
    BY <2>5, <2>6, SumUnion
  <2> HIDE DEF a, b
  <2>10. QtyMod \in Nat \ {0}
    BY QtyWidth
  <2>11. b % QtyMod \in Int
    BY <2>8, <2>10
  <2>12. ((b % QtyMod) + a) % QtyMod = (b + a) % QtyMod
    BY <2>8, <2>10, ModAdd
  <2>13. (b % QtyMod) + a = a + (b % QtyMod) /\ b + a = a + b
    BY <2>8, <2>11
  <2>14. (a + (b % QtyMod)) % QtyMod = (a + b) % QtyMod
    BY <2>12, <2>13
  <2> QED  BY <1>3, <2>2, <2>9, <2>14 DEF a, b, B
<1> QED  BY <1>2, <1>3

\* sum_range(), from the place of its first tick on.
LEMMA LoopSums ==
    ASSUME IndexInv, NEW last \in Int, last <= Span - 1,
           NEW f, f = SumTurn(last, f), NEW i \in Nat
    PROVE  f[i] = SumFunctionOnSet(total, Reach(i, last)) % QtyMod
<1> DEFINE g == [k \in Nat |-> SumFunctionOnSet(total, Reach(k, last)) % QtyMod]
           n == IF last >= 0 THEN last + 1 ELSE 0
           Turn(k, x) == IF k > last THEN 0
                         ELSE (SumFunctionOnSet(total, ClippedTicks(k, last)) + x)
                              % QtyMod
<1>1. ASSUME NEW k \in Nat
      PROVE  f[k] = Turn(k, f[NextStart(k)])
  BY DEF SumTurn
<1>2. ASSUME NEW k \in Nat
      PROVE  g[k] = Turn(k, g[NextStart(k)])
  <2>1. NextStart(k) \in Nat
    BY NextStartIs
  <2> QED  BY <2>1, SumTurns
<1>3. n \in Nat /\ \A k \in Nat : n <= k => k > last
  OBVIOUS
<1> HIDE DEF g, n
<1>4. \A k \in Nat : n <= k => f[k] = g[k]
  BY <1>1, <1>2, <1>3
<1>5. \A k \in Nat : f[NextStart(k)] = g[NextStart(k)] => f[k] = g[k]
  BY <1>1, <1>2
<1>6. Alike(n, f, g)
  BY <1>4, <1>5 DEF Alike
<1>7. \A k \in Nat : f[k] = g[k]
  BY <1>3, <1>6, LoopEnds
<1> QED  BY <1>7 DEF g

\* sum_range(), clipped word after clipped word, comes to the sum over the
\* occupied levels in reach, wherever the range begins and ends.
THEOREM SumsAreInReach == Spec => []SumsWhatIsInReach
<1>1. IndexInv => SumsWhatIsInReach
  <2> SUFFICES ASSUME IndexInv, NEW r \in Ranges
               PROVE  SumRange(r[1], r[2]) =
                        SumFunctionOnSet(total,
                          {i \in occupied : /\ r[1] <= Base + i
                                            /\ Base + i <= r[2]}) % QtyMod
    BY DEF SumsWhatIsInReach
  <2> DEFINE first == Max({r[1] - Base, 0})
             last == Min({r[2] - Base, Span - 1})
             f == CHOOSE g : g = SumTurn(last, g)
             whole == [i \in Nat |-> SumFunctionOnSet(total, Reach(i, last)) % QtyMod]
  <2>1. r[1] \in Int /\ r[2] \in Int
    BY LadderShape DEF Ranges
  <2>2. SumRange(r[1], r[2]) = f[first]
    BY DEF SumRange, SumTurn, ClippedTicks
  <2>3. /\ first = IF r[1] - Base >= 0 THEN r[1] - Base ELSE 0
        /\ last = IF r[2] - Base <= Span - 1 THEN r[2] - Base ELSE Span - 1
    BY <2>1, LadderShape, MaxOfTwo, MinOfTwo
  <2> HIDE DEF first, last
  <2>4. first \in Nat /\ last \in Int /\ last <= Span - 1
    BY <2>1, <2>3, LadderShape
  <2>5. f = SumTurn(last, f)
    <3>1. whole = SumTurn(last, whole)
      <4>1. \A i \in Nat : NextStart(i) \in Nat
        BY NextStartIs
      <4> QED  BY <2>4, <4>1, SumTurns DEF SumTurn
    <3>2. \E g : g = SumTurn(last, g)
      BY <3>1
    <3> QED  BY <3>2
  <2> HIDE DEF f
  <2>6. f[first] = SumFunctionOnSet(total, Reach(first, last)) % QtyMod
    BY <2>4, <2>5, LoopSums
  <2>7. \A i \in occupied : first <= i /\ i <= last <=> /\ r[1] <= Base + i
                                                        /\ Base + i <= r[2]
    <3> SUFFICES ASSUME NEW i \in occupied
                 PROVE  first <= i /\ i <= last <=> /\ r[1] <= Base + i
                                                    /\ Base + i <= r[2]
      OBVIOUS
    <3>1. i \in Int /\ 0 <= i /\ i <= Span - 1
      BY LadderShape DEF IndexInv, IndexType, Ticks
    <3> QED  BY <2>1, <2>3, <3>1, LadderShape
  <2>8. Reach(first, last) = {i \in occupied : /\ r[1] <= Base + i
                                               /\ Base + i <= r[2]}
    BY <2>7 DEF Reach
  <2> QED  BY <2>2, <2>6, <2>8
<1> QED  BY <1>1, IndexInvariance, PTL
============================================================================

-------------------------- MODULE RefinementProofs --------------------------
(***************************************************************************)
(* The command loop of OrderBook implements the atomic book of             *)
(* MatchingBook, for every set of ids, locations, prices and quantities,   *)
(* every width and both kinds of index; and what a throwing sink leaves.   *)
(*                                                                         *)
(* PromiseKept speaks of sequences, the store of slots and queues.  What   *)
(* connects them is a line: the locations of a side in priority order.     *)
(* The argument has five parts.                                            *)
(*   1. What Fills, AfterFills and FillEvents do to a sequence of orders   *)
(*      whose first is taken, or is met by a smaller order (the lemmas on  *)
(*      Ahead, Reach, Taken, After, Said).                                 *)
(*   2. Hence what Settled makes of a book when an order meets its first   *)
(*      counterpart (SettledAll, SettledPart) or none (SettledNothing).    *)
(*   3. What a step of the store does to a line and to the orders it lists *)
(*      (LeavesBook, ResizeBook, RestBook), and that RestingOrders lists   *)
(*      them in the order of the line (RestingIs).                         *)
(*   4. One lemma per command and per step of the loop, which puts 2 and 3 *)
(*      together (FillPromise, FinishPromise, NewPromise, ...).            *)
(*   5. The theorems.                                                      *)
(* Two hypotheses stay with the theorems, since the code does not provide  *)
(* for them: what a side offers fits a Qty (NothingWraps), and fillable()  *)
(* looks at all prices (Prices \subseteq LowEnd .. HighEnd).  Without      *)
(* either, a fill-or-kill order may be refused that could be filled.       *)
(***************************************************************************)
EXTENDS ThrowingSink, OrderBookProofs

----------------------------------------------------------------------------
(* Listings: sequences of resting orders.                                  *)

Listed == [id : Ids, price : Prices, qty : LiveQtys, tif : Tifs]

LEMMA ListedFacts ==
    ASSUME NEW o \in Seq(Listed)
    PROVE  /\ Len(o) \in Nat /\ DOMAIN o = 1 .. Len(o)
           /\ \A i \in 1 .. Len(o) :
                 /\ o[i] \in Listed /\ o[i].id \in Ids
                 /\ o[i].price \in Prices /\ o[i].price \in Int
                 /\ o[i].qty \in LiveQtys
                 /\ o[i].qty \in Int /\ o[i].qty > 0
                 /\ o[i] = [id |-> o[i].id, price |-> o[i].price,
                            qty |-> o[i].qty, tif |-> o[i].tif]
<1>1. \A r \in Listed : r.qty \in LiveQtys /\ r.price \in Prices /\ r.id \in Ids
        /\ r = [id |-> r.id, price |-> r.price, qty |-> r.qty, tif |-> r.tif]
  BY DEF Listed
<1>2. \A n \in LiveQtys : n \in Int /\ n > 0
  BY QtyWidth DEF LiveQtys
<1>3. Prices \subseteq Int
  BY PricesAreTicks DEF Prices
<1>4. Len(o) \in Nat /\ DOMAIN o = 1 .. Len(o)
        /\ \A i \in 1 .. Len(o) : o[i] \in Listed
  OBVIOUS
<1> QED  BY <1>1, <1>2, <1>3, <1>4

LEMMA SameSum ==
    ASSUME NEW w, NEW S
    PROVE  Atomic!SumFunctionOnSet(w, S) = SumFunctionOnSet(w, S)
BY DEF Atomic!SumFunctionOnSet, Atomic!FoldFunctionOnSet, Atomic!MapThenFoldSet,
       SumFunctionOnSet, FoldFunctionOnSet, MapThenFoldSet

LEMMA SameCount ==
    ASSUME NEW S
    PROVE  Atomic!Cardinality(S) = Cardinality(S)
BY DEF Atomic!Cardinality, Cardinality

LEMMA AheadIs ==
    ASSUME NEW o, NEW n
    PROVE  Atomic!Ahead(o, n) =
             SumFunctionOnSet([i \in 1 .. n |-> o[i].qty], 1 .. n)
BY SameSum DEF Atomic!Ahead

LEMMA AheadNone ==
    ASSUME NEW o
    PROVE  Atomic!Ahead(o, 0) = 0
<1>1. 1 .. 0 = {}
  OBVIOUS
<1> QED  BY <1>1, AheadIs, SumEmpty

LEMMA AheadNext ==
    ASSUME NEW o \in Seq(Listed), NEW n \in 0 .. (Len(o) - 1)
    PROVE  Atomic!Ahead(o, n + 1) = o[n + 1].qty + Atomic!Ahead(o, n)
<1>0. Len(o) \in Nat /\ \A i \in 1 .. Len(o) : o[i].qty \in Int
  BY ListedFacts
<1>1. n \in Nat /\ n < Len(o) /\ \A i \in 1 .. (n + 1) : o[i].qty \in Int
  BY <1>0
<1>2. IsFiniteSet(1 .. n) /\ 1 .. (n + 1) = (1 .. n) \cup {n + 1}
        /\ n + 1 \notin 1 .. n
  <2>1. IsFiniteSet(1 .. n)
    BY <1>1, FS_Interval
  <2> QED  BY <1>1, <2>1
<1>3. PICK w : w = [i \in 1 .. (n + 1) |-> o[i].qty]
  OBVIOUS
<1>4. PICK v : v = [i \in 1 .. n |-> o[i].qty]
  OBVIOUS
<1>5. /\ \A x \in (1 .. n) \cup {n + 1} : w[x] \in Int
      /\ w[n + 1] = o[n + 1].qty
      /\ \A x \in 1 .. n : w[x] = v[x]
  BY <1>1, <1>2, <1>3, <1>4
<1>6. SumFunctionOnSet(w, 1 .. (n + 1)) = w[n + 1] + SumFunctionOnSet(w, 1 .. n)
  BY <1>2, <1>5, SumAdd
<1>7. SumFunctionOnSet(w, 1 .. n) = SumFunctionOnSet(v, 1 .. n)
  BY <1>2, <1>5, SumSame
<1> QED  BY <1>3, <1>4, <1>5, <1>6, <1>7, AheadIs

\* The orders ahead grow in quantity, by at least one unit for each.
LEMMA AheadNat ==
    ASSUME NEW o \in Seq(Listed), NEW n \in 0 .. Len(o)
    PROVE  Atomic!Ahead(o, n) \in Nat
<1> DEFINE Good == {k \in Nat : k <= Len(o) => Atomic!Ahead(o, k) \in Nat}
<1>1. 0 \in Good
  BY AheadNone
<1>2. ASSUME NEW k \in Nat, k \in Good
      PROVE  k + 1 \in Good
  <2> SUFFICES ASSUME k + 1 <= Len(o)
               PROVE  Atomic!Ahead(o, k + 1) \in Nat
    OBVIOUS
  <2>1. k \in 0 .. (Len(o) - 1) /\ k + 1 \in 1 .. Len(o) /\ k <= Len(o)
    OBVIOUS
  <2>2. Atomic!Ahead(o, k + 1) = o[k + 1].qty + Atomic!Ahead(o, k)
    BY <2>1, AheadNext
  <2>3. o[k + 1].qty \in Int /\ o[k + 1].qty > 0
    BY <2>1, ListedFacts
  <2> QED  BY <1>2, <2>1, <2>2, <2>3
<1>3. \A k \in Nat : k \in Good
  <2> HIDE DEF Good
  <2> QED  BY <1>1, <1>2, NatInductive
<1> QED  BY <1>3

\* The orders ahead grow in quantity with their number.
LEMMA AheadGrows ==
    ASSUME NEW o \in Seq(Listed), NEW n \in 0 .. Len(o), NEW m \in 0 .. n
    PROVE  Atomic!Ahead(o, m) <= Atomic!Ahead(o, n)
<1> DEFINE Good == {k \in Nat : m <= k /\ k <= Len(o) =>
                      Atomic!Ahead(o, m) <= Atomic!Ahead(o, k)}
<1>0. m \in Nat /\ m <= n /\ n <= Len(o) /\ n \in Nat /\ Atomic!Ahead(o, m) \in Nat
  BY AheadNat
<1>1. 0 \in Good
  BY <1>0
<1>2. ASSUME NEW k \in Nat, k \in Good
      PROVE  k + 1 \in Good
  <2> SUFFICES ASSUME m <= k + 1, k + 1 <= Len(o)
               PROVE  Atomic!Ahead(o, m) <= Atomic!Ahead(o, k + 1)
    OBVIOUS
  <2>1. k \in 0 .. (Len(o) - 1) /\ k + 1 \in 1 .. Len(o) /\ k \in 0 .. Len(o)
    OBVIOUS
  <2>2. Atomic!Ahead(o, k + 1) = o[k + 1].qty + Atomic!Ahead(o, k)
    BY <2>1, AheadNext
  <2>3. o[k + 1].qty \in Int /\ o[k + 1].qty > 0 /\ Atomic!Ahead(o, k) \in Nat
    BY <2>1, ListedFacts, AheadNat
  <2>4. CASE m = k + 1
    BY <1>0, <2>4
  <2>5. CASE m # k + 1
    <3>1. m <= k /\ k <= Len(o)
      BY <1>0, <2>1, <2>5
    <3>2. Atomic!Ahead(o, m) <= Atomic!Ahead(o, k)
      BY <1>2, <3>1
    <3> QED  BY <1>0, <2>2, <2>3, <3>2
  <2> QED  BY <2>4, <2>5
<1>3. \A k \in Nat : k \in Good
  <2> HIDE DEF Good
  <2> QED  BY <1>1, <1>2, NatInductive
<1> QED  BY <1>0, <1>3

\* Without the first order, all that is ahead is that much less.
LEMMA AheadTail ==
    ASSUME NEW o \in Seq(Listed), o # <<>>, NEW n \in 0 .. (Len(o) - 1)
    PROVE  Atomic!Ahead(o, n + 1) = o[1].qty + Atomic!Ahead(Tail(o), n)
<1>1. PICK t \in Seq(Listed) : t = Tail(o)
  BY TailFacts
<1>2. /\ Len(t) = Len(o) - 1 /\ Len(o) \in Nat \ {0}
      /\ \A i \in 1 .. (Len(o) - 1) : t[i] = o[i + 1]
  BY <1>1, TailFacts
<1> DEFINE Good == {k \in Nat : k <= Len(t) =>
                      Atomic!Ahead(o, k + 1) = o[1].qty + Atomic!Ahead(t, k)}
<1>3. 0 \in Good
  <2>1. Atomic!Ahead(o, 0 + 1) = o[0 + 1].qty + Atomic!Ahead(o, 0)
    BY <1>2, AheadNext
  <2>2. Atomic!Ahead(o, 0) = 0 /\ Atomic!Ahead(t, 0) = 0
    BY AheadNone
  <2> QED  BY <2>1, <2>2
<1>4. ASSUME NEW k \in Nat, k \in Good
      PROVE  k + 1 \in Good
  <2> SUFFICES ASSUME k + 1 <= Len(t)
               PROVE  Atomic!Ahead(o, (k + 1) + 1)
                        = o[1].qty + Atomic!Ahead(t, k + 1)
    OBVIOUS
  <2>1. /\ k + 1 \in 0 .. (Len(o) - 1) /\ k \in 0 .. (Len(t) - 1)
        /\ k + 1 \in 1 .. (Len(o) - 1) /\ 1 \in 1 .. Len(o)
        /\ k \in 0 .. Len(t) /\ k + 2 \in 1 .. Len(o)
    BY <1>2
  <2>2. Atomic!Ahead(o, (k + 1) + 1) = o[(k + 1) + 1].qty + Atomic!Ahead(o, k + 1)
    BY <2>1, AheadNext
  <2>3. Atomic!Ahead(t, k + 1) = t[k + 1].qty + Atomic!Ahead(t, k)
    BY <2>1, AheadNext
  <2>4. t[k + 1] = o[(k + 1) + 1]
    BY <1>2, <2>1
  <2>5. Atomic!Ahead(o, k + 1) = o[1].qty + Atomic!Ahead(t, k)
    BY <1>4, <2>1
  <2>6. o[1].qty \in Int /\ t[k + 1].qty \in Int /\ Atomic!Ahead(t, k) \in Int
    <3>1. k + 1 \in 1 .. Len(t)
      BY <1>2, <2>1
    <3>2. o[1].qty \in Int
      BY <2>1, ListedFacts
    <3>3. t[k + 1].qty \in Int
      BY <3>1, ListedFacts
    <3> QED  BY <2>1, <3>2, <3>3, AheadNat
  <2> QED  BY <2>2, <2>3, <2>4, <2>5, <2>6
<1>5. \A k \in Nat : k \in Good
  <2> HIDE DEF Good
  <2> QED  BY <1>3, <1>4, NatInductive
<1> QED  BY <1>1, <1>2, <1>5

----------------------------------------------------------------------------
(* Counting positions.                                                     *)

\* Positions that are one further on, and the first.
LEMMA CardShift ==
    ASSUME NEW n \in Nat, NEW S \in SUBSET (1 .. n), NEW T \in SUBSET (1 .. (n + 1)),
           \A i \in 1 .. n : i + 1 \in T <=> i \in S
    PROVE  /\ Cardinality(S) \in 0 .. n
           /\ Cardinality(T) = Cardinality(S) + (IF 1 \in T THEN 1 ELSE 0)
<1> DEFINE U == {i \in T : i # 1}
           f == [i \in S |-> i + 1]
<1>1. IsFiniteSet(S) /\ Cardinality(S) \in 0 .. n
  <2>1. IsFiniteSet(1 .. n) /\ Cardinality(1 .. n) = n
    BY FS_Interval
  <2>2. IsFiniteSet(S) /\ Cardinality(S) <= n
    BY <2>1, FS_Subset
  <2> QED  BY <2>2, FS_CardinalityType
<1>2. f \in Bijection(S, U)
  <2>1. f \in [S -> U]
    OBVIOUS
  <2>2. \A a, b \in S : f[a] = f[b] => a = b
    OBVIOUS
  <2>3. \A u \in U : \E s \in S : f[s] = u
    <3> TAKE u \in U
    <3>1. u - 1 \in 1 .. n /\ (u - 1) + 1 = u
      OBVIOUS
    <3>2. u - 1 \in S /\ f[u - 1] = u
      BY <3>1
    <3> QED  BY <3>2
  <2> HIDE DEF U, f
  <2> QED  BY <2>1, <2>2, <2>3 DEF Bijection, Injection, IsInjective, Surjection
<1>3. IsFiniteSet(U) /\ Cardinality(U) = Cardinality(S)
  BY <1>1, <1>2, FS_Bijection DEF ExistsBijection
<1>4. CASE 1 \in T
  <2>1. T = U \cup {1} /\ 1 \notin U
    BY <1>4
  <2>2. PICK V : V = U
    OBVIOUS
  <2>3. Cardinality(V \cup {1}) = Cardinality(V) + 1
    <3> HIDE DEF U
    <3> QED  BY <1>3, <2>1, <2>2, FS_AddElement
  <2> QED  BY <1>1, <1>3, <1>4, <2>1, <2>2, <2>3
<1>5. CASE 1 \notin T
  <2>1. T = U
    BY <1>5
  <2>2. Cardinality(T) = Cardinality(S)
    BY <1>3, <2>1
  <2> QED  BY <1>1, <1>5, <2>2
<1> QED  BY <1>4, <1>5

\* So many positions come before one.
LEMMA CardBelow ==
    ASSUME NEW n \in Nat \ {0}
    PROVE  IsFiniteSet(1 .. (n - 1)) /\ Cardinality(1 .. (n - 1)) = n - 1
BY FS_Interval

----------------------------------------------------------------------------
LEMMA FlattenIsGlue ==
    ASSUME NEW s, Len(s) \in Nat \ {0}
    PROVE  \E f : /\ f = GlueBody(s, Len(s), f)
                  /\ Atomic!FlattenSeq(s) = f[Len(s)]
<1> DEFINE f == CHOOSE f : f = GlueBody(s, Len(s), f)
<1>1. f = GlueBody(s, Len(s), f)
  <2>1. \E g : g = GlueBody(s, Len(s), g)
    BY GlueExists
  <2> QED  BY <2>1
<1>2. Atomic!FlattenSeq(s) = f[Len(s)]
  BY DEF Atomic!FlattenSeq, GlueBody, Glue
<1> HIDE DEF f
<1> QED  BY <1>1, <1>2

LEMMA FlattenType ==
    ASSUME NEW S, NEW s \in Rows(S)
    PROVE  Atomic!FlattenSeq(s) \in Seq(S)
<1>1. CASE Len(s) = 0
  <2>1. s = <<>> /\ Atomic!FlattenSeq(s) = s
    BY <1>1, RowsFacts DEF Atomic!FlattenSeq
  <2>2. <<>> \in Seq(S)
    OBVIOUS
  <2> QED  BY <2>1, <2>2
<1>2. CASE Len(s) # 0
  <2>1. Len(s) \in Nat \ {0}
    BY <1>2, RowsFacts
  <2>2. PICK f : f = GlueBody(s, Len(s), f) /\ Atomic!FlattenSeq(s) = f[Len(s)]
    BY <2>1, FlattenIsGlue
  <2>3. \A i \in 1 .. Len(s) : f[i] \in Seq(S)
    BY <2>2, GlueSteps
  <2> QED  BY <2>1, <2>2, <2>3
<1> QED  BY <1>1, <1>2

\* The first n + 1 sequences of s are glued in f.
Glued(s, n, f) ==
    f[1] = s[1] /\ \A i \in 1 .. n : f[i + 1] = Glue(f[i], s[i + 1])

\* Both ways of gluing, with the first sequence and without it.
BothGlued(S, n, s, t, f, g) ==
    /\ s[1] \in Seq(S)
    /\ \A i \in 1 .. n : t[i] = s[i + 1] /\ t[i] \in Seq(S) /\ g[i] \in Seq(S)
    /\ Glued(s, n, f) /\ Glued(t, n - 1, g)

LEMMA GlueTail ==
    ASSUME NEW S, NEW n \in Nat \ {0}, NEW s, NEW t, NEW f, NEW g,
           BothGlued(S, n, s, t, f, g)
    PROVE  f[n + 1] = Glue(s[1], g[n])
<1> USE DEF BothGlued, Glued
<1> DEFINE Same(i) == f[i + 1] = Glue(s[1], g[i])
           T == {k \in Nat : k + 1 <= n => Same(k + 1)}
<1>1. Same(1)
  <2>1. 1 \in 1 .. n
    OBVIOUS
  <2>2. f[1 + 1] = Glue(f[1], s[1 + 1]) /\ t[1] = s[1 + 1]
    BY <2>1
  <2> QED  BY <2>2
<1>2. ASSUME NEW i \in 1 .. (n - 1), Same(i)
      PROVE  Same(i + 1)
  <2>1. i \in 1 .. n /\ i + 1 \in 1 .. n
    OBVIOUS
  <2>2. f[(i + 1) + 1] = Glue(f[i + 1], s[(i + 1) + 1])
    BY <2>1
  <2>3. g[i + 1] = Glue(g[i], t[i + 1]) /\ t[i + 1] = s[(i + 1) + 1]
    BY <2>1
  <2>4. g[i] \in Seq(S) /\ t[i + 1] \in Seq(S)
    BY <2>1
  <2>5. Glue(Glue(s[1], g[i]), t[i + 1]) = Glue(s[1], Glue(g[i], t[i + 1]))
    BY <2>4, GlueAssociative
  <2> QED  BY <1>2, <2>2, <2>3, <2>5
<1>3. \A k \in Nat : k \in T
  <2>1. 0 \in T
    <3> HIDE DEF Same
    <3>1. 0 + 1 = 1
      OBVIOUS
    <3> QED  BY <1>1, <3>1
  <2>2. ASSUME NEW k \in Nat, k \in T
        PROVE  k + 1 \in T
    <3> HIDE DEF Same
    <3> SUFFICES ASSUME (k + 1) + 1 <= n
                 PROVE  Same((k + 1) + 1)
      OBVIOUS
    <3>1. PICK m \in 1 .. (n - 1) : m = k + 1
      OBVIOUS
    <3>2. Same(m)
      BY <2>2, <3>1
    <3> QED  BY <1>2, <3>1, <3>2
  <2> HIDE DEF T
  <2> QED  BY <2>1, <2>2, NatInductive
<1>4. Same(n)
  <2> HIDE DEF Same
  <2>1. PICK k \in Nat : k + 1 = n /\ k + 1 <= n
    <3>1. n - 1 \in Nat /\ (n - 1) + 1 = n
      OBVIOUS
    <3> QED  BY <3>1
  <2> QED  BY <1>3, <2>1
<1> QED  BY <1>4

LEMMA FlattenTail ==
    ASSUME NEW S, NEW s \in Rows(S), s # <<>>
    PROVE  Atomic!FlattenSeq(s) = s[1] \o Atomic!FlattenSeq(Tail(s))
<1>1. PICK t \in Rows(S) : t = Tail(s)
  BY RowsFacts
<1>2. PICK n \in Nat : n = Len(t)
  BY RowsFacts
<1>3. Len(s) = n + 1 /\ \A i \in 1 .. n : t[i] = s[i + 1] /\ t[i] \in Seq(S)
  <2>1. Len(t) = Len(s) - 1 /\ Len(s) \in Nat
          /\ \A i \in 1 .. (Len(s) - 1) : t[i] = s[i + 1]
    BY <1>1, RowsFacts
  <2>2. \A i \in 1 .. Len(t) : t[i] \in Seq(S)
    BY RowsFacts
  <2> QED  BY <1>2, <2>1, <2>2
<1>4. s[1] \in Seq(S)
  <2>1. 1 \in 1 .. Len(s)
    BY <1>3
  <2> QED  BY <2>1, RowsFacts
<1>5. PICK f : f = GlueBody(s, Len(s), f) /\ Atomic!FlattenSeq(s) = f[Len(s)]
  <2>1. Len(s) \in Nat \ {0}
    BY <1>3
  <2> QED  BY <2>1, FlattenIsGlue
<1>6. f[1] = s[1] /\ \A i \in 1 .. n : f[i + 1] = Glue(f[i], s[i + 1])
  <2>1. /\ Len(s) # 0 => f[1] = s[1]
        /\ \A i \in 1 .. (Len(s) - 1) : f[i + 1] = Glue(f[i], s[i + 1])
    BY <1>5, GlueSteps
  <2> QED  BY <1>3, <2>1
<1>7. CASE n = 0
  <2>1. t = <<>>
    BY <1>2, <1>7, RowsFacts
  <2>2. Atomic!FlattenSeq(t) = <<>>
    BY <2>1 DEF Atomic!FlattenSeq
  <2>3. Atomic!FlattenSeq(s) = s[1]
    BY <1>3, <1>5, <1>6, <1>7
  <2>4. s[1] \o <<>> = s[1]
    BY <1>4, ConcatEmptySeq
  <2> QED  BY <1>1, <2>2, <2>3, <2>4
<1>8. CASE n # 0
  <2>1. PICK g : g = GlueBody(t, Len(t), g) /\ Atomic!FlattenSeq(t) = g[Len(t)]
    BY <1>2, <1>8, FlattenIsGlue
  <2>2. /\ \A i \in 1 .. Len(t) : g[i] \in Seq(S)
        /\ Len(t) # 0 => g[1] = t[1]
        /\ \A i \in 1 .. (Len(t) - 1) : g[i + 1] = Glue(g[i], t[i + 1])
    BY <2>1, GlueSteps
  <2>3. /\ \A i \in 1 .. n : g[i] \in Seq(S)
        /\ g[1] = t[1]
        /\ \A i \in 1 .. (n - 1) : g[i + 1] = Glue(g[i], t[i + 1])
    BY <1>2, <1>8, <2>2
  <2>4. BothGlued(S, n, s, t, f, g)
    BY <1>3, <1>4, <1>6, <2>3 DEF BothGlued, Glued
  <2>5. f[n + 1] = Glue(s[1], g[n])
    BY <1>8, <2>4, GlueTail
  <2> QED  BY <1>1, <1>2, <1>3, <1>5, <2>1, <2>5 DEF Glue
<1> QED  BY <1>7, <1>8

LEMMA GlueNothing ==
    ASSUME NEW n \in Nat \ {0}, NEW s, \A i \in 1 .. n : s[i] = <<>>,
           NEW f, f[1] = s[1],
           \A i \in 1 .. (n - 1) : f[i + 1] = Glue(f[i], s[i + 1])
    PROVE  f[n] = <<>>
<1> DEFINE None(i) == f[i] = <<>>
           T == {k \in Nat : k + 1 <= n => None(k + 1)}
<1>1. None(1)
  OBVIOUS
<1>2. ASSUME NEW i \in 1 .. (n - 1), None(i)
      PROVE  None(i + 1)
  <2>1. i + 1 \in 1 .. n
    OBVIOUS
  <2>2. f[i + 1] = Glue(<<>>, <<>>)
    BY <1>2, <2>1
  <2> QED  BY <2>2 DEF Glue
<1>3. \A k \in Nat : k \in T
  <2>1. 0 \in T
    BY <1>1
  <2>2. ASSUME NEW k \in Nat, k \in T
        PROVE  k + 1 \in T
    <3> HIDE DEF None
    <3> SUFFICES ASSUME (k + 1) + 1 <= n
                 PROVE  None((k + 1) + 1)
      OBVIOUS
    <3>1. PICK m \in 1 .. (n - 1) : m = k + 1
      OBVIOUS
    <3>2. None(m)
      BY <2>2, <3>1
    <3> QED  BY <1>2, <3>1, <3>2
  <2> HIDE DEF T
  <2> QED  BY <2>1, <2>2, NatInductive
<1>4. None(n)
  <2> HIDE DEF None
  <2>1. PICK k \in Nat : k + 1 = n /\ k + 1 <= n
    <3>1. n - 1 \in Nat /\ (n - 1) + 1 = n
      OBVIOUS
    <3> QED  BY <3>1
  <2> QED  BY <1>3, <2>1
<1> QED  BY <1>4

LEMMA FlattenNothing ==
    ASSUME NEW S, NEW s \in Rows(S), \A i \in 1 .. Len(s) : s[i] = <<>>
    PROVE  Atomic!FlattenSeq(s) = <<>>
<1>0. PICK n \in Nat : n = Len(s)
  BY RowsFacts
<1>1. CASE n = 0
  <2>1. s = <<>>
    BY <1>0, <1>1, RowsFacts
  <2> QED  BY <2>1 DEF Atomic!FlattenSeq
<1>2. CASE n # 0
  <2>1. PICK f : f = GlueBody(s, Len(s), f) /\ Atomic!FlattenSeq(s) = f[Len(s)]
    BY <1>0, <1>2, FlattenIsGlue
  <2>2. /\ Len(s) # 0 => f[1] = s[1]
        /\ \A i \in 1 .. (Len(s) - 1) : f[i + 1] = Glue(f[i], s[i + 1])
    BY <2>1, GlueSteps
  <2>3. f[n] = <<>>
    BY <1>0, <1>2, <2>2, GlueNothing
  <2> QED  BY <1>0, <2>1, <2>3
<1> QED  BY <1>1, <1>2

----------------------------------------------------------------------------
(* What an order takes from those it can reach.                            *)

LEMMA SameWords ==
    /\ \A a, b, c, d : Atomic!Trade(a, b, c, d) = Trade(a, b, c, d)
    /\ \A a, b : Atomic!Closed(a, b) = Closed(a, b)
    /\ \A a, b : Atomic!Accepted(a, b) = Accepted(a, b)
    /\ \A a, b, c : Atomic!Replaced(a, b, c) = Replaced(a, b, c)
    /\ \A a, b : Atomic!Rejected(a, b) = Rejected(a, b)
    /\ \A s : Atomic!Opposite(s) = Opposite(s)
    /\ Atomic!Sides = Sides
BY DEF Atomic!Trade, Trade, Atomic!Closed, Closed, Atomic!Accepted, Accepted,
       Atomic!Replaced, Replaced, Atomic!Rejected, Rejected,
       Atomic!Opposite, Opposite, Atomic!Sides, Sides

LEMMA FillIs ==
    ASSUME NEW side, NEW limit, NEW qty, NEW o \in Seq(Listed),
           NEW f, f = Atomic!Fills(side, limit, qty, o)
    PROVE  /\ DOMAIN f = 1 .. Len(o)
           /\ \A i \in 1 .. Len(o) :
                 f[i] = IF \/ i > Atomic!Reach(side, limit, o)
                           \/ qty <= Atomic!Ahead(o, i - 1)
                        THEN 0
                        ELSE IF qty <= Atomic!Ahead(o, i)
                             THEN qty - Atomic!Ahead(o, i - 1)
                             ELSE o[i].qty
<1>1. DOMAIN o = 1 .. Len(o)
  BY ListedFacts
<1> QED  BY <1>1 DEF Atomic!Fills

LEMMA ReachTail ==
    ASSUME NEW side, NEW limit, NEW o \in Seq(Listed), o # <<>>
    PROVE  /\ Atomic!Reach(side, limit, Tail(o)) \in 0 .. (Len(o) - 1)
           /\ Atomic!Reach(side, limit, o) =
                Atomic!Reach(side, limit, Tail(o))
                  + (IF Atomic!Acceptable(side, limit, o[1].price) THEN 1 ELSE 0)
<1>1. PICK t \in Seq(Listed) : t = Tail(o)
  BY TailFacts
<1>2. PICK n \in Nat : /\ Len(o) = n + 1 /\ Len(t) = n
                       /\ DOMAIN t = 1 .. n /\ DOMAIN o = 1 .. (n + 1)
                       /\ \A i \in 1 .. n : t[i] = o[i + 1]
  <2>1. /\ Len(t) = Len(o) - 1 /\ Len(o) \in Nat \ {0}
        /\ \A i \in 1 .. (Len(o) - 1) : t[i] = o[i + 1]
    BY <1>1, TailFacts
  <2>2. DOMAIN t = 1 .. Len(t) /\ DOMAIN o = 1 .. Len(o) /\ Len(t) \in Nat
    BY ListedFacts
  <2> QED  BY <2>1, <2>2
<1>3. PICK S : S = {i \in DOMAIN t : Atomic!Acceptable(side, limit, t[i].price)}
  OBVIOUS
<1>4. PICK T : T = {i \in DOMAIN o : Atomic!Acceptable(side, limit, o[i].price)}
  OBVIOUS
<1>5. /\ S \in SUBSET (1 .. n) /\ T \in SUBSET (1 .. (n + 1))
      /\ \A i \in 1 .. n : i + 1 \in T <=> i \in S
      /\ 1 \in T <=> Atomic!Acceptable(side, limit, o[1].price)
  BY <1>2, <1>3, <1>4
<1>6. /\ Cardinality(S) \in 0 .. n
      /\ Cardinality(T) = Cardinality(S) + (IF 1 \in T THEN 1 ELSE 0)
  BY <1>5, CardShift
<1>7. Atomic!Reach(side, limit, t) = Cardinality(S)
  BY <1>3, SameCount DEF Atomic!Reach
<1>8. Atomic!Reach(side, limit, o) = Cardinality(T)
  BY <1>4, SameCount DEF Atomic!Reach
<1> QED  BY <1>1, <1>2, <1>5, <1>6, <1>7, <1>8

LEMMA ReachRange ==
    ASSUME NEW side, NEW limit, NEW o \in Seq(Listed)
    PROVE  Atomic!Reach(side, limit, o) \in 0 .. Len(o)
<1>1. Len(o) \in Nat /\ DOMAIN o = 1 .. Len(o)
  BY ListedFacts
<1>2. PICK S : S = {i \in DOMAIN o : Atomic!Acceptable(side, limit, o[i].price)}
  OBVIOUS
<1>3. S \in SUBSET (1 .. Len(o))
  BY <1>1, <1>2
<1>4. IsFiniteSet(1 .. Len(o)) /\ Cardinality(1 .. Len(o)) = Len(o)
  BY <1>1, FS_Interval
<1>5. Cardinality(S) <= Len(o) /\ IsFiniteSet(S)
  BY <1>3, <1>4, FS_Subset
<1>6. Cardinality(S) \in Nat
  BY <1>5, FS_CardinalityType
<1>7. Atomic!Reach(side, limit, o) = Cardinality(S)
  BY <1>2, SameCount DEF Atomic!Reach
<1> QED  BY <1>1, <1>5, <1>6, <1>7

\* No order gives more than it has.
LEMMA FillRange ==
    ASSUME NEW side, NEW limit, NEW qty \in Nat, NEW o \in Seq(Listed),
           NEW f, f = Atomic!Fills(side, limit, qty, o), NEW i \in 1 .. Len(o)
    PROVE  f[i] \in Nat /\ f[i] <= o[i].qty
<1>1. Len(o) \in Nat /\ o[i].qty \in Int /\ o[i].qty > 0
  BY ListedFacts
<1>2. PICK k \in Nat : k = i - 1 /\ k \in 0 .. (Len(o) - 1)
  BY <1>1
<1>3. k \in 0 .. Len(o) /\ k + 1 = i
  BY <1>1, <1>2
<1>4. Atomic!Ahead(o, i) = o[i].qty + Atomic!Ahead(o, k)
        /\ Atomic!Ahead(o, k) \in Nat
  BY <1>2, <1>3, AheadNext, AheadNat
<1>5. f[i] = IF i > Atomic!Reach(side, limit, o) \/ qty <= Atomic!Ahead(o, k)
             THEN 0
             ELSE IF qty <= Atomic!Ahead(o, i) THEN qty - Atomic!Ahead(o, k)
                  ELSE o[i].qty
  BY <1>2, FillIs
<1> QED  BY <1>1, <1>4, <1>5

\* The oldest of the best, when it is in reach and no larger than the order,
\* gives all it has; the others give what they would give to the rest.
LEMMA FillTail ==
    ASSUME NEW side, NEW limit, NEW qty \in Nat, NEW o \in Seq(Listed),
           o # <<>>, Atomic!Acceptable(side, limit, o[1].price),
           o[1].qty <= qty,
           NEW f, f = Atomic!Fills(side, limit, qty, o),
           NEW g, g = Atomic!Fills(side, limit, qty - o[1].qty, Tail(o))
    PROVE  f[1] = o[1].qty /\ \A i \in 1 .. (Len(o) - 1) : f[i + 1] = g[i]
<1>1. PICK t \in Seq(Listed) : t = Tail(o)
  BY TailFacts
<1>2. PICK n \in Nat : /\ Len(o) = n + 1 /\ Len(t) = n
                       /\ \A i \in 1 .. n : t[i] = o[i + 1]
  <2>1. /\ Len(t) = Len(o) - 1 /\ Len(o) \in Nat \ {0}
        /\ \A i \in 1 .. (Len(o) - 1) : t[i] = o[i + 1]
    BY <1>1, TailFacts
  <2> QED  BY <2>1
<1>3. PICK h \in Nat \ {0} : h = o[1].qty
  <2>1. 1 \in 1 .. Len(o)
    BY <1>2
  <2>2. o[1].qty \in Int /\ o[1].qty > 0
    BY <2>1, ListedFacts
  <2> QED  BY <2>2
<1>4. PICK r \in 0 .. n : /\ r = Atomic!Reach(side, limit, t)
                          /\ r + 1 = Atomic!Reach(side, limit, o)
  BY <1>1, <1>2, ReachTail
<1>5. ASSUME NEW k \in 0 .. n
      PROVE  /\ Atomic!Ahead(o, k + 1) = h + Atomic!Ahead(t, k)
             /\ Atomic!Ahead(t, k) \in Nat
  <2>1. k \in 0 .. (Len(o) - 1) /\ k \in 0 .. Len(t)
    BY <1>2
  <2> QED  BY <1>1, <1>3, <2>1, AheadTail, AheadNat
<1>6. f[1] = h
  <2>1. 1 \in 1 .. Len(o) /\ 1 - 1 = 0 /\ 0 \in 0 .. n
    BY <1>2
  <2>2. Atomic!Ahead(o, 0) = 0 /\ Atomic!Ahead(t, 0) = 0
    BY AheadNone
  <2>3. Atomic!Ahead(o, 1) = h
    BY <1>3, <1>5, <2>1, <2>2
  <2>4. f[1] = IF 1 > r + 1 \/ qty <= 0 THEN 0
               ELSE IF qty <= h THEN qty - 0 ELSE h
    BY <1>3, <1>4, <2>1, <2>2, <2>3, FillIs
  <2> QED  BY <1>3, <1>4, <2>4
<1>7. ASSUME NEW i \in 1 .. n
      PROVE  f[i + 1] = g[i]
  <2>1. PICK k \in 0 .. n : k = i - 1 /\ k + 1 = i
    OBVIOUS
  <2>2. i \in 0 .. n /\ i \in 1 .. Len(t) /\ i + 1 \in 1 .. Len(o) /\ (i + 1) - 1 = i
    BY <1>2
  <2>3. PICK a \in Nat : a = Atomic!Ahead(t, k) /\ Atomic!Ahead(o, i) = h + a
    BY <1>5, <2>1
  <2>4. PICK b \in Nat : b = Atomic!Ahead(t, i) /\ Atomic!Ahead(o, i + 1) = h + b
    BY <1>5, <2>2
  <2>5. f[i + 1] = IF i + 1 > r + 1 \/ qty <= h + a THEN 0
                   ELSE IF qty <= h + b THEN qty - (h + a) ELSE o[i + 1].qty
    <3>1. PICK m \in 1 .. Len(o) : m = i + 1 /\ m - 1 = i
      BY <2>2
    <3>2. f[m] = IF \/ m > Atomic!Reach(side, limit, o)
                    \/ qty <= Atomic!Ahead(o, m - 1)
                 THEN 0
                 ELSE IF qty <= Atomic!Ahead(o, m)
                      THEN qty - Atomic!Ahead(o, m - 1) ELSE o[m].qty
      BY FillIs
    <3> QED  BY <1>4, <2>3, <2>4, <3>1, <3>2
  <2>6. g[i] = IF i > r \/ qty - h <= a THEN 0
               ELSE IF qty - h <= b THEN (qty - h) - a ELSE t[i].qty
    <3>1. g = Atomic!Fills(side, limit, qty - h, t)
      BY <1>1, <1>3
    <3>2. PICK q : q = qty - h
      OBVIOUS
    <3>3. g[i] = IF \/ i > Atomic!Reach(side, limit, t)
                    \/ q <= Atomic!Ahead(t, i - 1)
                 THEN 0
                 ELSE IF q <= Atomic!Ahead(t, i)
                      THEN q - Atomic!Ahead(t, i - 1) ELSE t[i].qty
      BY <2>2, <3>1, <3>2, FillIs
    <3> QED  BY <1>4, <2>1, <2>3, <2>4, <3>2, <3>3
  <2> QED  BY <1>2, <1>4, <2>5, <2>6
<1> QED  BY <1>2, <1>3, <1>6, <1>7

----------------------------------------------------------------------------
(* What a crossing order leaves of the orders it meets, what it says, and  *)
(* what is left of it.                                                     *)

Taken(t, o) == Atomic!Fills(t.side, t.limit, t.qty, o)

LeftOf(t, o) ==
    IF t.qty <= Atomic!InReach(t.side, t.limit, o) THEN 0
    ELSE t.qty - Atomic!InReach(t.side, t.limit, o)

After(t, o) == Atomic!AfterFills(o, Taken(t, o))

Said(t, o) == Atomic!FillEvents(t.id, o, Taken(t, o))

\* What is said of one order r that gives n to the order id.
Words(id, r, n) ==
    IF n = 0 THEN <<>>
    ELSE IF n < r.qty THEN <<Trade(r.id, id, r.price, n)>>
    ELSE <<Trade(r.id, id, r.price, n), Closed(r.id, "Filled")>>

LEMMA WordsType ==
    ASSUME NEW id \in Ids, NEW r \in Listed, NEW n \in Nat, n <= r.qty
    PROVE  Words(id, r, n) \in Seq(Events)
<1>1. r.id \in Ids /\ r.price \in CmdPrices /\ r.qty \in 1 .. (QtyMod - 1)
  BY DEF Listed, Prices, LiveQtys
<1>2. n # 0 => n \in LiveQtys
  BY <1>1, QtyWidth DEF LiveQtys
<1>3. n # 0 => Trade(r.id, id, r.price, n) \in Events
  BY <1>1, <1>2 DEF Trade, Events
<1>4. Closed(r.id, "Filled") \in Events
  BY <1>1 DEF Closed, Events, CloseReasons
<1> QED  BY <1>3, <1>4 DEF Words

\* The words s, order by order, are what is said.
Spells(s, t, o) ==
    /\ s \in Rows(Events)
    /\ Said(t, o) = Atomic!FlattenSeq(s) /\ Len(s) = Len(o)
    /\ \A i \in 1 .. Len(o) : s[i] = Words(t.id, o[i], Taken(t, o)[i])

LEMMA SaidIs ==
    ASSUME NEW t, t.qty \in Nat, t.id \in Ids, NEW o \in Seq(Listed)
    PROVE  \E s : Spells(s, t, o)
<1>1. PICK f : f = Taken(t, o)
  OBVIOUS
<1>2. Len(o) \in Nat /\ DOMAIN o = 1 .. Len(o) /\ \A i \in 1 .. Len(o) : o[i] \in Listed
  BY ListedFacts
<1>3. PICK s : s = [i \in 1 .. Len(o) |-> Words(t.id, o[i], f[i])]
  OBVIOUS
<1>4. ASSUME NEW i \in 1 .. Len(o)
      PROVE  Words(t.id, o[i], f[i]) \in Seq(Events)
  <2>1. f[i] \in Nat /\ f[i] <= o[i].qty
    BY <1>1, FillRange DEF Taken
  <2> QED  BY <1>2, <2>1, WordsType
<1>5. s \in Seq(Seq(Events)) /\ Len(s) = Len(o)
  BY <1>2, <1>3, <1>4
<1>6. Said(t, o) = Atomic!FlattenSeq(s)
  <2>1. s = [i \in DOMAIN o |->
               IF f[i] = 0 THEN <<>>
               ELSE IF f[i] < o[i].qty
                    THEN <<Atomic!Trade(o[i].id, t.id, o[i].price, f[i])>>
                    ELSE <<Atomic!Trade(o[i].id, t.id, o[i].price, f[i]),
                           Atomic!Closed(o[i].id, "Filled")>>]
    BY <1>2, <1>3, SameWords DEF Words
  <2> QED  BY <1>1, <2>1 DEF Said, Atomic!FillEvents
<1>7. \A i \in 1 .. Len(o) : s[i] = Words(t.id, o[i], Taken(t, o)[i])
  BY <1>1, <1>3
<1>8. s \in Rows(Events)
  BY <1>5 DEF Rows
<1>9. Spells(s, t, o)
  BY <1>5, <1>6, <1>7, <1>8 DEF Spells
<1> QED  BY <1>9

LEMMA SaidType ==
    ASSUME NEW t, t.qty \in Nat, t.id \in Ids, NEW o \in Seq(Listed)
    PROVE  Said(t, o) \in Seq(Events)
BY SaidIs, FlattenType DEF Spells

\* An order whose head is in reach and no larger than it.
TakesAll(t, o) ==
    /\ t.qty \in Nat /\ t.id \in Ids
    /\ o \in Seq(Listed) /\ o # <<>>
    /\ Atomic!Acceptable(t.side, t.limit, o[1].price)
    /\ o[1].qty <= t.qty

\* It, after it has taken that order.
Reduced(t, n) == [t EXCEPT !.qty = @ - n]

\* The n orders r behind the first give to u what they would have given to t.
GiveAsMuch(t, o, u, r, n) ==
    /\ r = Tail(o) /\ Len(r) = n /\ Len(o) = n + 1
    /\ \A i \in 1 .. n : r[i] = o[i + 1]
    /\ Taken(t, o)[1] = o[1].qty
    /\ \A i \in 1 .. n : Taken(t, o)[i + 1] = Taken(u, r)[i]

LEMMA TakesFacts ==
    ASSUME NEW t, NEW o, TakesAll(t, o), NEW u, u = Reduced(t, o[1].qty),
           "qty" \in DOMAIN t
    PROVE  /\ u.side = t.side /\ u.limit = t.limit /\ u.id = t.id
           /\ u.qty = t.qty - o[1].qty /\ u.qty \in Nat
           /\ \E r \in Seq(Listed), n \in Nat : GiveAsMuch(t, o, u, r, n)
<1>1. o \in Seq(Listed) /\ o # <<>>
  BY DEF TakesAll
<1>2. /\ Tail(o) \in Seq(Listed) /\ Len(Tail(o)) = Len(o) - 1
      /\ Len(o) \in Nat \ {0}
      /\ \A i \in 1 .. (Len(o) - 1) : Tail(o)[i] = o[i + 1]
  BY <1>1, TailFacts
<1>3. o[1].qty \in Int /\ o[1].qty > 0
  <2>1. 1 \in 1 .. Len(o)
    BY <1>2
  <2> QED  BY <1>1, <2>1, ListedFacts
<1>4. /\ u.side = t.side /\ u.limit = t.limit /\ u.id = t.id
      /\ u.qty = t.qty - o[1].qty
  BY DEF Reduced
<1>5. u.qty \in Nat
  BY <1>3, <1>4 DEF TakesAll
<1>6. PICK n \in Nat : Len(Tail(o)) = n /\ Len(o) = n + 1
  <2>1. Len(o) - 1 \in Nat /\ Len(o) = (Len(o) - 1) + 1
    BY <1>2
  <2> QED  BY <1>2, <2>1
<1>7. /\ Taken(t, o)[1] = o[1].qty
      /\ \A i \in 1 .. (Len(o) - 1) : Taken(t, o)[i + 1] = Taken(u, Tail(o))[i]
  <2>1. PICK f : f = Taken(t, o)
    OBVIOUS
  <2>2. PICK g : g = Taken(u, Tail(o))
    OBVIOUS
  <2>3. f = Atomic!Fills(t.side, t.limit, t.qty, o)
    BY <2>1 DEF Taken
  <2>4. g = Atomic!Fills(t.side, t.limit, t.qty - o[1].qty, Tail(o))
    BY <1>4, <2>2 DEF Taken
  <2>5. f[1] = o[1].qty /\ \A i \in 1 .. (Len(o) - 1) : f[i + 1] = g[i]
    BY <1>1, <2>3, <2>4, FillTail DEF TakesAll
  <2> QED  BY <2>1, <2>2, <2>5
<1>8. GiveAsMuch(t, o, u, Tail(o), n)
  BY <1>2, <1>6, <1>7 DEF GiveAsMuch
<1> QED  BY <1>2, <1>4, <1>5, <1>8

LEMMA LeftTail ==
    ASSUME NEW t, NEW o, TakesAll(t, o), NEW u, u = Reduced(t, o[1].qty),
           "qty" \in DOMAIN t
    PROVE  LeftOf(u, Tail(o)) = LeftOf(t, o)
<1>1. /\ u.side = t.side /\ u.limit = t.limit /\ u.qty = t.qty - o[1].qty
      /\ o \in Seq(Listed) /\ o # <<>> /\ t.qty \in Nat
  BY TakesFacts DEF TakesAll
<1>2. Len(o) \in Nat \ {0} /\ Tail(o) \in Seq(Listed)
        /\ Len(Tail(o)) = Len(o) - 1
  BY <1>1, TailFacts
<1>3. PICK r \in 0 .. (Len(o) - 1) :
         /\ r = Atomic!Reach(t.side, t.limit, Tail(o))
         /\ r + 1 = Atomic!Reach(t.side, t.limit, o)
  BY <1>1, ReachTail DEF TakesAll
<1>4. Atomic!Ahead(o, r + 1) = o[1].qty + Atomic!Ahead(Tail(o), r)
  BY <1>1, <1>3, AheadTail
<1>5. Atomic!Ahead(Tail(o), r) \in Nat
  BY <1>2, <1>3, AheadNat
<1>6. o[1].qty \in Int
  <2>1. 1 \in 1 .. Len(o)
    BY <1>2
  <2> QED  BY <1>1, <2>1, ListedFacts
<1>7. /\ Atomic!InReach(t.side, t.limit, o) = o[1].qty + Atomic!Ahead(Tail(o), r)
      /\ Atomic!InReach(u.side, u.limit, Tail(o)) = Atomic!Ahead(Tail(o), r)
  BY <1>1, <1>3, <1>4 DEF Atomic!InReach
<1> QED  BY <1>1, <1>5, <1>6, <1>7 DEF LeftOf

\* What the orders o are left with when they give f, and c of them are filled.
Behind(o, f, c) == [i \in 1 .. (Len(o) - c) |-> Reduced(o[i + c], f[i + c])]

LEMMA AfterIs ==
    ASSUME NEW o, NEW f, NEW c,
           NEW T, T = {i \in DOMAIN o : f[i] = o[i].qty}, c = Cardinality(T)
    PROVE  Atomic!AfterFills(o, f) = Behind(o, f, c)
BY SameCount DEF Atomic!AfterFills, Behind, Reduced

LEMMA AfterTail ==
    ASSUME NEW t, NEW o, TakesAll(t, o), NEW u, u = Reduced(t, o[1].qty),
           "qty" \in DOMAIN t
    PROVE  After(u, Tail(o)) = After(t, o)
<1>0. PICK r \in Seq(Listed), n \in Nat : GiveAsMuch(t, o, u, r, n)
  BY TakesFacts
<1>1. /\ r = Tail(o) /\ Len(r) = n /\ Len(o) = n + 1
      /\ \A i \in 1 .. n : r[i] = o[i + 1]
      /\ Taken(t, o)[1] = o[1].qty
      /\ \A i \in 1 .. n : Taken(t, o)[i + 1] = Taken(u, r)[i]
  BY <1>0 DEF GiveAsMuch
<1>2. PICK f : f = Taken(t, o)
  OBVIOUS
<1>3. PICK g : g = Taken(u, r)
  OBVIOUS
<1>4. DOMAIN r = 1 .. n /\ DOMAIN o = 1 .. (n + 1)
  BY <1>1, ListedFacts DEF TakesAll
<1>5. PICK S : S = {i \in DOMAIN r : g[i] = r[i].qty}
  OBVIOUS
<1>6. PICK T : T = {i \in DOMAIN o : f[i] = o[i].qty}
  OBVIOUS
<1>7. /\ S \in SUBSET (1 .. n) /\ T \in SUBSET (1 .. (n + 1)) /\ 1 \in T
      /\ \A i \in 1 .. n : i + 1 \in T <=> i \in S
  BY <1>1, <1>2, <1>3, <1>4, <1>5, <1>6
<1>8. PICK k \in 0 .. n : k = Cardinality(S) /\ k + 1 = Cardinality(T)
  BY <1>7, CardShift
<1>9. After(t, o) = [i \in 1 .. ((n + 1) - (k + 1)) |->
                       Reduced(o[i + (k + 1)], f[i + (k + 1)])]
  <2>1. PICK c : c = k + 1 /\ c = Cardinality(T)
    BY <1>8
  <2>2. After(t, o) = [i \in 1 .. (Len(o) - c) |-> Reduced(o[i + c], f[i + c])]
    <3>1. Atomic!AfterFills(o, f) = Behind(o, f, c)
      BY <1>6, <2>1, AfterIs
    <3>2. After(t, o) = Atomic!AfterFills(o, f)
      BY <1>2 DEF After
    <3> QED  BY <3>1, <3>2 DEF Behind
  <2> QED  BY <1>1, <2>1, <2>2
<1>10. After(u, r) = [i \in 1 .. (n - k) |-> Reduced(r[i + k], g[i + k])]
  <2>1. After(u, r) = [i \in 1 .. (Len(r) - k) |-> Reduced(r[i + k], g[i + k])]
    <3>1. Atomic!AfterFills(r, g) = Behind(r, g, k)
      BY <1>5, <1>8, AfterIs
    <3>2. After(u, r) = Atomic!AfterFills(r, g)
      BY <1>3 DEF After
    <3> QED  BY <3>1, <3>2 DEF Behind
  <2> QED  BY <1>1, <2>1
<1>11. ASSUME NEW i \in 1 .. (n - k)
       PROVE  o[i + (k + 1)] = r[i + k] /\ f[i + (k + 1)] = g[i + k]
  <2>1. i + k \in 1 .. n /\ i + (k + 1) = (i + k) + 1
    OBVIOUS
  <2> QED  BY <1>1, <1>2, <1>3, <2>1
<1>12. (n + 1) - (k + 1) = n - k
  OBVIOUS
<1> QED  BY <1>1, <1>9, <1>10, <1>11, <1>12

LEMMA SaidTail ==
    ASSUME NEW t, NEW o, TakesAll(t, o), NEW u, u = Reduced(t, o[1].qty),
           "qty" \in DOMAIN t
    PROVE  Said(t, o) = <<Trade(o[1].id, t.id, o[1].price, o[1].qty),
                          Closed(o[1].id, "Filled")>> \o Said(u, Tail(o))
<1>0. PICK r \in Seq(Listed), n \in Nat : GiveAsMuch(t, o, u, r, n)
  BY TakesFacts
<1>1. /\ r = Tail(o) /\ Len(r) = n /\ Len(o) = n + 1
      /\ \A i \in 1 .. n : r[i] = o[i + 1]
      /\ Taken(t, o)[1] = o[1].qty
      /\ \A i \in 1 .. n : Taken(t, o)[i + 1] = Taken(u, r)[i]
  BY <1>0 DEF GiveAsMuch
<1>2. u.id = t.id /\ u.qty \in Nat /\ t.qty \in Nat /\ t.id \in Ids
        /\ o \in Seq(Listed)
  BY TakesFacts DEF TakesAll
<1>3. PICK s \in Rows(Events) :
         /\ Said(t, o) = Atomic!FlattenSeq(s) /\ Len(s) = n + 1
         /\ \A i \in 1 .. (n + 1) : s[i] = Words(t.id, o[i], Taken(t, o)[i])
  <2>1. PICK s : Spells(s, t, o)
    BY <1>2, SaidIs
  <2> QED  BY <1>1, <2>1 DEF Spells
<1>4. PICK v \in Rows(Events) :
         /\ Said(u, r) = Atomic!FlattenSeq(v) /\ Len(v) = n
         /\ \A i \in 1 .. n : v[i] = Words(t.id, r[i], Taken(u, r)[i])
  <2>1. u.id \in Ids
    BY <1>2
  <2>2. PICK v : Spells(v, u, r)
    BY <1>2, <2>1, SaidIs
  <2> QED  BY <1>1, <1>2, <2>2 DEF Spells
<1>5. s # <<>>
  BY <1>3, RowsFacts
<1>6. /\ Tail(s) \in Rows(Events) /\ Len(Tail(s)) = n
      /\ \A i \in 1 .. n : Tail(s)[i] = s[i + 1]
  BY <1>3, <1>5, RowsFacts
<1>7. \A i \in 1 .. n : Tail(s)[i] = v[i]
  <2> TAKE i \in 1 .. n
  <2>1. i + 1 \in 1 .. (n + 1)
    OBVIOUS
  <2>2. s[i + 1] = Words(t.id, o[i + 1], Taken(t, o)[i + 1])
    BY <1>3, <2>1
  <2> QED  BY <1>1, <1>4, <1>6, <2>2
<1>8. Tail(s) = v
  BY <1>4, <1>6, <1>7 DEF Rows
<1>9. s[1] = Words(t.id, o[1], o[1].qty)
  <2>1. 1 \in 1 .. (n + 1)
    OBVIOUS
  <2> QED  BY <1>1, <1>3, <2>1
<1>10. o[1].qty \in Int /\ o[1].qty > 0
  <2>1. 1 \in 1 .. Len(o)
    BY <1>1
  <2> QED  BY <1>2, <2>1, ListedFacts
<1>11. s[1] = <<Trade(o[1].id, t.id, o[1].price, o[1].qty),
                Closed(o[1].id, "Filled")>>
  BY <1>9, <1>10 DEF Words
<1>12. Atomic!FlattenSeq(s) = s[1] \o Atomic!FlattenSeq(Tail(s))
  BY <1>5, FlattenTail
<1> QED  BY <1>1, <1>3, <1>4, <1>8, <1>11, <1>12

\* An order that wants nothing, or reaches nothing, leaves all as it is.
LEMMA TakesNothing ==
    ASSUME NEW t, t.qty \in Nat, t.id \in Ids, NEW o \in Seq(Listed),
           t.qty = 0 \/ Atomic!Reach(t.side, t.limit, o) = 0
    PROVE  After(t, o) = o /\ Said(t, o) = <<>> /\ LeftOf(t, o) = t.qty
<1>1. PICK n \in Nat : /\ n = Len(o) /\ DOMAIN o = 1 .. n
                       /\ \A i \in 1 .. n :
                            /\ o[i] \in Listed
                            /\ o[i].qty \in Int /\ o[i].qty > 0
  BY ListedFacts
<1>2. PICK f : f = Taken(t, o)
  OBVIOUS
<1>3. ASSUME NEW i \in 1 .. n
      PROVE  f[i] = 0
  <2>1. i - 1 \in 0 .. Len(o) /\ i \in 1 .. Len(o)
    BY <1>1
  <2>2. Atomic!Ahead(o, i - 1) \in Nat
    BY <2>1, AheadNat
  <2>3. f = Atomic!Fills(t.side, t.limit, t.qty, o)
    BY <1>2 DEF Taken
  <2>4. i > Atomic!Reach(t.side, t.limit, o) \/ t.qty <= Atomic!Ahead(o, i - 1)
    BY <2>2
  <2> QED  BY <2>1, <2>3, <2>4, FillIs
<1>4. After(t, o) = o
  <2>1. {i \in DOMAIN o : f[i] = o[i].qty} = {}
    <3>1. \A i \in 1 .. n : o[i].qty # 0
      BY <1>1
    <3> QED  BY <1>1, <1>3, <3>1
  <2>2. Cardinality({}) = 0
    BY FS_EmptySet
  <2>3. After(t, o) = [i \in 1 .. (n - 0) |-> Reduced(o[i + 0], f[i + 0])]
    BY <1>1, <1>2, <2>1, <2>2, SameCount DEF After, Atomic!AfterFills, Reduced
  <2>4. ASSUME NEW i \in 1 .. n
        PROVE  Reduced(o[i + 0], f[i + 0]) = o[i]
    <3>1. i + 0 = i /\ f[i] = 0
      BY <1>3
    <3>2. o[i].qty - 0 = o[i].qty /\ o[i] \in Listed
      BY <1>1
    <3>3. Reduced(o[i], 0) = o[i]
      BY <3>2 DEF Reduced, Listed
    <3> QED  BY <3>1, <3>3
  <2>5. After(t, o) = [i \in 1 .. n |-> o[i]]
    BY <2>3, <2>4
  <2>6. o = [i \in 1 .. n |-> o[i]]
    BY <1>1
  <2> QED  BY <2>5, <2>6
<1>5. Said(t, o) = <<>>
  <2>1. PICK s \in Rows(Events) :
           /\ Said(t, o) = Atomic!FlattenSeq(s) /\ Len(s) = n
           /\ \A i \in 1 .. n : s[i] = Words(t.id, o[i], f[i])
    <3>1. PICK s : Spells(s, t, o)
      BY SaidIs
    <3> QED  BY <1>1, <1>2, <3>1 DEF Spells
  <2>2. \A i \in 1 .. Len(s) : s[i] = <<>>
    BY <1>3, <2>1 DEF Words
  <2> QED  BY <2>1, <2>2, FlattenNothing
<1>6. LeftOf(t, o) = t.qty
  <2>1. Atomic!Reach(t.side, t.limit, o) \in 0 .. Len(o)
    BY ReachRange
  <2>2. Atomic!InReach(t.side, t.limit, o) \in Nat
    BY <2>1, AheadNat DEF Atomic!InReach
  <2>3. CASE t.qty = 0
    BY <2>2, <2>3 DEF LeftOf
  <2>4. CASE Atomic!Reach(t.side, t.limit, o) = 0
    <3>1. Atomic!InReach(t.side, t.limit, o) = 0
      BY <2>4, AheadNone DEF Atomic!InReach
    <3> QED  BY <3>1 DEF LeftOf
  <2> QED  BY <2>3, <2>4
<1> QED  BY <1>4, <1>5, <1>6

\* An order whose head is in reach and larger than it.
TakesPart(t, o) ==
    /\ t.qty \in Nat \ {0} /\ t.id \in Ids
    /\ o \in Seq(Listed) /\ o # <<>>
    /\ Atomic!Acceptable(t.side, t.limit, o[1].price)
    /\ t.qty < o[1].qty

\* The oldest of the best gives part of what it has, the others nothing.
LEMMA PartTaken ==
    ASSUME NEW t, NEW o, TakesPart(t, o)
    PROVE  /\ Taken(t, o)[1] = t.qty
           /\ \A i \in 2 .. Len(o) : Taken(t, o)[i] = 0
           /\ t.qty <= Atomic!InReach(t.side, t.limit, o)
<1>1. o \in Seq(Listed) /\ o # <<>> /\ t.qty \in Nat \ {0} /\ t.qty < o[1].qty
  BY DEF TakesPart
<1>2. PICK n \in Nat : Len(o) = n + 1 /\ 1 \in 1 .. Len(o)
  <2>1. Len(o) \in Nat \ {0}
    BY <1>1, TailFacts
  <2>2. Len(o) - 1 \in Nat /\ Len(o) = (Len(o) - 1) + 1 /\ 1 \in 1 .. Len(o)
    BY <2>1
  <2> QED  BY <2>2
<1>3. PICK h \in Nat : h = o[1].qty
  <2>1. o[1].qty \in Int /\ o[1].qty > 0
    BY <1>1, <1>2, ListedFacts
  <2> QED  BY <2>1
<1>4. Atomic!Ahead(o, 0) = 0 /\ Atomic!Ahead(o, 1) = h
  <2>1. Atomic!Ahead(o, 0) = 0
    BY AheadNone
  <2>2. 0 \in 0 .. (Len(o) - 1)
    BY <1>2
  <2>3. Atomic!Ahead(o, 0 + 1) = o[0 + 1].qty + Atomic!Ahead(o, 0)
    BY <1>1, <2>2, AheadNext
  <2> QED  BY <1>3, <2>1, <2>3
<1>5. Atomic!Reach(t.side, t.limit, o) \in 1 .. Len(o)
  <2>1. /\ Atomic!Reach(t.side, t.limit, Tail(o)) \in 0 .. (Len(o) - 1)
        /\ Atomic!Reach(t.side, t.limit, o)
             = Atomic!Reach(t.side, t.limit, Tail(o)) + 1
    BY <1>1, ReachTail DEF TakesPart
  <2> QED  BY <1>2, <2>1
<1>6. ASSUME NEW i \in 1 .. Len(o)
      PROVE  h <= Atomic!Ahead(o, i) /\ Atomic!Ahead(o, i) \in Nat
  <2>1. i \in 0 .. Len(o) /\ 1 \in 0 .. i
    BY <1>2
  <2>2. Atomic!Ahead(o, 1) <= Atomic!Ahead(o, i)
    BY <1>1, <2>1, AheadGrows
  <2> QED  BY <1>1, <1>4, <2>1, <2>2, AheadNat
<1>7. PICK f : f = Taken(t, o) /\ f = Atomic!Fills(t.side, t.limit, t.qty, o)
  BY DEF Taken
<1>8. f[1] = t.qty
  <2>1. f[1] = IF \/ 1 > Atomic!Reach(t.side, t.limit, o)
                  \/ t.qty <= Atomic!Ahead(o, 1 - 1)
               THEN 0
               ELSE IF t.qty <= Atomic!Ahead(o, 1)
                    THEN t.qty - Atomic!Ahead(o, 1 - 1) ELSE o[1].qty
    BY <1>1, <1>2, <1>7, FillIs
  <2> QED  BY <1>1, <1>3, <1>4, <1>5, <2>1
<1>9. ASSUME NEW i \in 2 .. Len(o)
      PROVE  f[i] = 0
  <2>1. i - 1 \in 1 .. Len(o) /\ i \in 1 .. Len(o)
    BY <1>2
  <2>2. t.qty <= Atomic!Ahead(o, i - 1)
    BY <1>1, <1>3, <1>6, <2>1
  <2> QED  BY <1>1, <1>7, <2>1, <2>2, FillIs
<1>10. t.qty <= Atomic!InReach(t.side, t.limit, o)
  BY <1>1, <1>3, <1>5, <1>6 DEF Atomic!InReach
<1> QED  BY <1>7, <1>8, <1>9, <1>10

LEMMA TakesPartOnly ==
    ASSUME NEW t, NEW o, TakesPart(t, o)
    PROVE  /\ LeftOf(t, o) = 0
           /\ Said(t, o) = <<Trade(o[1].id, t.id, o[1].price, t.qty)>>
           /\ After(t, o) = [o EXCEPT ![1] = Reduced(@, t.qty)]
<1>1. PICK n \in Nat : /\ Len(o) = n + 1 /\ DOMAIN o = 1 .. (n + 1)
                       /\ \A i \in 1 .. (n + 1) :
                            /\ o[i] \in Listed
                            /\ o[i].qty \in Int /\ o[i].qty > 0
  <2>1. o \in Seq(Listed) /\ o # <<>>
    BY DEF TakesPart
  <2>2. Len(o) \in Nat \ {0}
    BY <2>1, TailFacts
  <2>3. Len(o) - 1 \in Nat /\ Len(o) = (Len(o) - 1) + 1
    BY <2>2
  <2>4. /\ DOMAIN o = 1 .. Len(o)
        /\ \A i \in 1 .. Len(o) :
              o[i] \in Listed /\ o[i].qty \in Int /\ o[i].qty > 0
    BY <2>1, ListedFacts
  <2>5. PICK n \in Nat : Len(o) = n + 1
    BY <2>3
  <2> QED  BY <2>4, <2>5
<1>2. PICK f : f = Taken(t, o)
  OBVIOUS
<1>3. /\ f[1] = t.qty
      /\ \A i \in 2 .. (n + 1) : f[i] = 0
      /\ t.qty <= Atomic!InReach(t.side, t.limit, o)
  BY <1>1, <1>2, PartTaken
<1>4. t.qty \in Nat /\ t.qty # 0 /\ t.qty < o[1].qty /\ t.id \in Ids
        /\ o \in Seq(Listed)
  BY DEF TakesPart
<1>5. LeftOf(t, o) = 0
  BY <1>3 DEF LeftOf
<1>6. Said(t, o) = <<Trade(o[1].id, t.id, o[1].price, t.qty)>>
  <2>1. PICK s \in Rows(Events) :
           /\ Said(t, o) = Atomic!FlattenSeq(s) /\ Len(s) = n + 1
           /\ \A i \in 1 .. (n + 1) : s[i] = Words(t.id, o[i], f[i])
    <3>1. PICK s : Spells(s, t, o)
      BY <1>4, SaidIs
    <3> QED  BY <1>1, <1>2, <3>1 DEF Spells
  <2>2. s # <<>>
    BY <2>1, RowsFacts
  <2>3. /\ Tail(s) \in Rows(Events) /\ Len(Tail(s)) = n
        /\ \A i \in 1 .. n : Tail(s)[i] = s[i + 1]
    BY <2>1, <2>2, RowsFacts
  <2>4. \A i \in 1 .. Len(Tail(s)) : Tail(s)[i] = <<>>
    <3>1. ASSUME NEW i \in 1 .. n
          PROVE  s[i + 1] = <<>>
      <4>1. i + 1 \in 2 .. (n + 1) /\ i + 1 \in 1 .. (n + 1)
        OBVIOUS
      <4>2. f[i + 1] = 0
        BY <1>3, <4>1
      <4> QED  BY <2>1, <4>1, <4>2 DEF Words
    <3> QED  BY <2>3, <3>1
  <2>5. Atomic!FlattenSeq(Tail(s)) = <<>>
    BY <2>3, <2>4, FlattenNothing
  <2>6. s[1] = <<Trade(o[1].id, t.id, o[1].price, t.qty)>>
    <3>1. 1 \in 1 .. (n + 1)
      OBVIOUS
    <3>2. s[1] = Words(t.id, o[1], t.qty)
      BY <1>3, <2>1, <3>1
    <3> QED  BY <1>4, <3>2 DEF Words
  <2>7. Atomic!FlattenSeq(s) = s[1] \o <<>>
    BY <2>2, <2>5, FlattenTail
  <2>8. <<Trade(o[1].id, t.id, o[1].price, t.qty)>> \o <<>>
          = <<Trade(o[1].id, t.id, o[1].price, t.qty)>>
    OBVIOUS
  <2> QED  BY <2>1, <2>6, <2>7, <2>8
<1>7. After(t, o) = [o EXCEPT ![1] = Reduced(@, t.qty)]
  <2>1. {i \in DOMAIN o : f[i] = o[i].qty} = {}
    <3>1. ASSUME NEW i \in 1 .. (n + 1)
          PROVE  f[i] # o[i].qty
      <4>1. i = 1 \/ i \in 2 .. (n + 1)
        OBVIOUS
      <4> QED  BY <1>1, <1>3, <1>4, <4>1
    <3> QED  BY <1>1, <3>1
  <2>2. Cardinality({}) = 0
    BY FS_EmptySet
  <2>3. After(t, o) = [i \in 1 .. ((n + 1) - 0) |-> Reduced(o[i + 0], f[i + 0])]
    BY <1>1, <1>2, <2>1, <2>2, SameCount DEF After, Atomic!AfterFills, Reduced
  <2>4. ASSUME NEW i \in 1 .. (n + 1)
        PROVE  Reduced(o[i + 0], f[i + 0])
                 = [o EXCEPT ![1] = Reduced(@, t.qty)][i]
    <3>1. i + 0 = i
      OBVIOUS
    <3>2. CASE i = 1
      BY <1>1, <1>3, <3>1, <3>2
    <3>3. CASE i # 1
      <4>1. f[i] = 0
        BY <1>3, <3>3
      <4>2. o[i].qty - 0 = o[i].qty /\ o[i] \in Listed
        BY <1>1
      <4>3. Reduced(o[i], 0) = o[i]
        BY <4>2 DEF Reduced, Listed
      <4> QED  BY <1>1, <3>1, <3>3, <4>1, <4>3
    <3> QED  BY <3>2, <3>3
  <2>5. PICK p : p = [o EXCEPT ![1] = Reduced(@, t.qty)]
    OBVIOUS
  <2>6. p = [i \in 1 .. (n + 1) |-> p[i]]
    BY <1>1, <2>5
  <2>7. \A i \in 1 .. (n + 1) : Reduced(o[i + 0], f[i + 0]) = p[i]
    BY <2>4, <2>5
  <2>8. (n + 1) - 0 = n + 1
    OBVIOUS
  <2> QED  BY <2>3, <2>5, <2>6, <2>7, <2>8
<1> QED  BY <1>5, <1>6, <1>7
----------------------------------------------------------------------------
(* What becomes of a book that an order crosses.                           *)

Books == [Sides -> Seq(Listed)]

\* The orders it meets, the book when it has met them, what is left of it.
Met(b, t) == b[Opposite(t.side)]
CrossedBook(b, t) == [b EXCEPT ![Opposite(t.side)] = After(t, Met(b, t))]
Remains(b, t) == LeftOf(t, Met(b, t))

\* The remainder n of an order t may rest.
Rests(t, n) ==
    /\ n > 0
    /\ \/ t.cmd = "replace"
       \/ t.limit # NIL /\ t.tif \in {"Gtc", "PostOnly"}

AsRest(t, n) == [id |-> t.id, price |-> t.limit, qty |-> n, tif |-> t.tif]

WithRest(b, t, n) ==
    IF Rests(t, n) THEN [b EXCEPT ![t.side] = Atomic!Joined(t.side, @, AsRest(t, n))]
    ELSE b

LastWord(t, n) ==
    IF n = 0 THEN Closed(t.id, "Filled")
    ELSE IF ~Rests(t, n) THEN Closed(t.id, "Expired")
    ELSE IF t.cmd = "new" THEN Accepted(t.id, n)
    ELSE Replaced(t.id, t.limit, n)

LEMMA SettledBook ==
    ASSUME NEW b, NEW t
    PROVE  Atomic!Settled(b, t).book = WithRest(CrossedBook(b, t), t, Remains(b, t))
<1>1. \A s : Atomic!Opposite(s) = Opposite(s)
  BY SameWords
<1> QED  BY <1>1 DEF Atomic!Settled, WithRest, Rests, AsRest, After, LeftOf, Taken,
                     Met, CrossedBook, Remains

LEMMA SettledEvents ==
    ASSUME NEW b, NEW t
    PROVE  Atomic!Settled(b, t).events =
             Append(Said(t, Met(b, t)), LastWord(t, Remains(b, t)))
<1>1. \A s : Atomic!Opposite(s) = Opposite(s)
  BY SameWords
<1>2. \A a, c : Atomic!Closed(a, c) = Closed(a, c)
  BY SameWords
<1>3. \A a, c : Atomic!Accepted(a, c) = Accepted(a, c)
  BY SameWords
<1>4. \A a, c, d : Atomic!Replaced(a, c, d) = Replaced(a, c, d)
  BY SameWords
<1> QED  BY <1>1, <1>2, <1>3, <1>4
            DEF Atomic!Settled, LastWord, Rests, LeftOf, Taken, Said, Met, Remains

LEMMA ReducedFields ==
    ASSUME NEW t \in Takers, NEW n, NEW u, u = Reduced(t, n)
    PROVE  /\ u.side = t.side /\ u.limit = t.limit /\ u.id = t.id
           /\ u.cmd = t.cmd /\ u.tif = t.tif /\ u.qty = t.qty - n
           /\ "qty" \in DOMAIN t /\ t.qty \in Nat /\ t.id \in Ids /\ t.side \in Sides
<1>1. /\ t.qty \in Nat /\ t.id \in Ids /\ t.side \in Sides
      /\ t = [cmd |-> t.cmd, id |-> t.id, side |-> t.side, limit |-> t.limit,
              qty |-> t.qty, tif |-> t.tif]
  BY QtyWidth DEF Takers
<1>2. "qty" \in DOMAIN t
  BY <1>1
<1> QED  BY <1>1, <1>2 DEF Reduced

\* The remainder of an order fares as that of the order reduced.
LEMMA ReducedFares ==
    ASSUME NEW t \in Takers, NEW n, NEW u, u = Reduced(t, n), NEW b, NEW m
    PROVE  WithRest(b, u, m) = WithRest(b, t, m) /\ LastWord(u, m) = LastWord(t, m)
<1>1. /\ u.side = t.side /\ u.limit = t.limit /\ u.id = t.id
      /\ u.cmd = t.cmd /\ u.tif = t.tif
  BY ReducedFields
<1> QED  BY <1>1 DEF WithRest, LastWord, Rests, AsRest

LEMMA OtherSide ==
    ASSUME NEW s \in Sides
    PROVE  Opposite(s) \in Sides /\ Opposite(s) # s /\ Opposite(Opposite(s)) = s
BY DEF Opposite, Sides

LEMMA LastWordType ==
    ASSUME NEW t \in Takers, NEW n \in 0 .. t.qty
    PROVE  LastWord(t, n) \in Events
<1>1. /\ t.qty \in 0 .. (QtyMod - 1) /\ t.id \in Ids
      /\ t.limit \in CmdPrices \cup {NIL}
      /\ t.cmd = "replace" => t.limit \in CmdPrices
      /\ t.cmd \in {"new", "replace"}
  BY DEF Takers, Prices
<1>2. n # 0 => n \in LiveQtys
  BY <1>1, QtyWidth DEF LiveQtys
<1>3. \A c \in CloseReasons : Closed(t.id, c) \in Events
  BY <1>1 DEF Closed, Events
<1>4. "Filled" \in CloseReasons /\ "Expired" \in CloseReasons
  BY DEF CloseReasons
<1>5. n # 0 => Accepted(t.id, n) \in Events
  BY <1>1, <1>2 DEF Accepted, Events
<1>6. n # 0 /\ t.cmd = "replace" => Replaced(t.id, t.limit, n) \in Events
  BY <1>1, <1>2 DEF Replaced, Events
<1> QED  BY <1>1, <1>3, <1>4, <1>5, <1>6 DEF LastWord

LEMMA LeftRange ==
    ASSUME NEW t, t.qty \in Nat, NEW o \in Seq(Listed)
    PROVE  LeftOf(t, o) \in 0 .. t.qty
<1>1. Atomic!Reach(t.side, t.limit, o) \in 0 .. Len(o)
  BY ReachRange
<1>2. Atomic!InReach(t.side, t.limit, o) \in Nat
  BY <1>1, AheadNat DEF Atomic!InReach
<1> QED  BY <1>2 DEF LeftOf

LEMMA SettledType ==
    ASSUME NEW b \in Books, NEW t \in Takers
    PROVE  Atomic!Settled(b, t).events \in Seq(Events)
<1>1. t.qty \in Nat /\ t.id \in Ids /\ t.side \in Sides
  BY QtyWidth DEF Takers
<1>2. Met(b, t) \in Seq(Listed)
  BY <1>1, OtherSide DEF Books, Met
<1>3. Said(t, Met(b, t)) \in Seq(Events)
  BY <1>1, <1>2, SaidType
<1>4. LastWord(t, Remains(b, t)) \in Events
  BY <1>1, <1>2, LeftRange, LastWordType DEF Remains
<1>5. \A s \in Seq(Events), e \in Events : Append(s, e) \in Seq(Events)
  OBVIOUS
<1> QED  BY <1>3, <1>4, <1>5, SettledEvents

LEMMA AppendAfter ==
    ASSUME NEW a \in Seq(Events), NEW b \in Seq(Events), NEW e \in Events
    PROVE  Append(a \o b, e) = a \o Append(b, e)
OBVIOUS

\* An order that fills the head of the other side leaves to the rest of it
\* what it, reduced, leaves.
MeetsSmaller(b, t, o, u, c) ==
    /\ b \in Books /\ t \in Takers /\ u \in Takers
    /\ o = Met(b, t) /\ TakesAll(t, o) /\ u = Reduced(t, o[1].qty)
    /\ c = [b EXCEPT ![Opposite(t.side)] = Tail(o)]

LEMMA SettledAll ==
    ASSUME NEW b, NEW t, NEW o, NEW u, NEW c, MeetsSmaller(b, t, o, u, c)
    PROVE  /\ Atomic!Settled(c, u).book = Atomic!Settled(b, t).book
           /\ Atomic!Settled(b, t).events =
                <<Trade(o[1].id, t.id, o[1].price, o[1].qty),
                  Closed(o[1].id, "Filled")>> \o Atomic!Settled(c, u).events
<1> USE DEF MeetsSmaller
<1>1. /\ u.side = t.side /\ u.id = t.id
      /\ "qty" \in DOMAIN t /\ t.qty \in Nat /\ t.id \in Ids /\ t.side \in Sides
  BY ReducedFields
<1>2. PICK op \in Sides : op = Opposite(t.side) /\ op = Opposite(u.side)
  BY <1>1, OtherSide
<1>3. c = [b EXCEPT ![op] = Tail(o)] /\ op \in DOMAIN b /\ c[op] = Tail(o)
  BY <1>2 DEF Books
<1>4. Met(c, u) = Tail(o) /\ Met(b, t) = o
  BY <1>2, <1>3 DEF Met
<1>5. After(u, Tail(o)) = After(t, o)
  BY <1>1, AfterTail
<1>6. PICK n : n = Remains(b, t) /\ n = Remains(c, u)
  <2>1. LeftOf(u, Tail(o)) = LeftOf(t, o)
    BY <1>1, LeftTail
  <2> QED  BY <1>4, <2>1 DEF Remains
<1>7. CrossedBook(c, u) = CrossedBook(b, t)
  BY <1>2, <1>3, <1>4, <1>5 DEF CrossedBook
<1>8. WithRest(CrossedBook(b, t), u, n) = WithRest(CrossedBook(b, t), t, n)
        /\ LastWord(u, n) = LastWord(t, n)
  BY ReducedFares
<1>9. Atomic!Settled(c, u).book = Atomic!Settled(b, t).book
  <2>1. Atomic!Settled(b, t).book = WithRest(CrossedBook(b, t), t, n)
    BY <1>6, SettledBook
  <2>2. Atomic!Settled(c, u).book = WithRest(CrossedBook(c, u), u, n)
    BY <1>6, SettledBook
  <2> QED  BY <1>7, <1>8, <2>1, <2>2
<1>10. PICK w : w = <<Trade(o[1].id, t.id, o[1].price, o[1].qty),
                      Closed(o[1].id, "Filled")>>
  OBVIOUS
<1>11. Said(t, o) = w \o Said(u, Tail(o))
  BY <1>1, <1>10, SaidTail
<1>12. Said(u, Tail(o)) \in Seq(Events) /\ w \in Seq(Events)
  <2>1. o \in Seq(Listed) /\ o # <<>>
    BY DEF TakesAll
  <2>2. Tail(o) \in Seq(Listed) /\ Len(o) \in Nat \ {0}
    BY <2>1, TailFacts
  <2>3. u.qty \in Nat /\ u.id \in Ids
    BY QtyWidth DEF Takers
  <2>4. 1 \in 1 .. Len(o)
    BY <2>2
  <2>5. o[1] \in Listed /\ o[1].qty \in Int /\ o[1].qty > 0
    BY <2>1, <2>4, ListedFacts
  <2>6. w = Words(t.id, o[1], o[1].qty)
    BY <1>10, <2>5 DEF Words
  <2>7. w \in Seq(Events)
    BY <1>1, <2>5, <2>6, WordsType
  <2> QED  BY <2>2, <2>3, <2>7, SaidType
<1>13. LastWord(t, n) \in Events
  <2>1. o \in Seq(Listed)
    BY DEF TakesAll
  <2> QED  BY <1>1, <1>4, <1>6, <2>1, LeftRange, LastWordType DEF Remains
<1>14. Atomic!Settled(b, t).events = Append(Said(t, o), LastWord(t, n))
  BY <1>4, <1>6, SettledEvents
<1>15. Atomic!Settled(c, u).events = Append(Said(u, Tail(o)), LastWord(t, n))
  BY <1>4, <1>6, <1>8, SettledEvents
<1>16. Append(w \o Said(u, Tail(o)), LastWord(t, n))
         = w \o Append(Said(u, Tail(o)), LastWord(t, n))
  BY <1>12, <1>13, AppendAfter
<1> QED  BY <1>9, <1>10, <1>11, <1>14, <1>15, <1>16

\* An order that the head of the other side fills.
MeetsLarger(b, t, o, u, c) ==
    /\ b \in Books /\ t \in Takers /\ u \in Takers
    /\ o = Met(b, t) /\ TakesPart(t, o) /\ u = Reduced(t, t.qty)
    /\ c = [b EXCEPT ![Opposite(t.side)] = [o EXCEPT ![1] = Reduced(@, t.qty)]]

LEMMA SettledPart ==
    ASSUME NEW b, NEW t, NEW o, NEW u, NEW c, MeetsLarger(b, t, o, u, c)
    PROVE  /\ Atomic!Settled(c, u).book = Atomic!Settled(b, t).book
           /\ Atomic!Settled(b, t).events =
                <<Trade(o[1].id, t.id, o[1].price, t.qty)>>
                  \o Atomic!Settled(c, u).events
<1> USE DEF MeetsLarger
<1>1. /\ u.side = t.side /\ u.id = t.id /\ u.qty = t.qty - t.qty
      /\ t.qty \in Nat /\ t.id \in Ids /\ t.side \in Sides
  BY ReducedFields
<1>2. PICK op \in Sides : op = Opposite(t.side) /\ op = Opposite(u.side)
  BY <1>1, OtherSide
<1>3. PICK r : r = [o EXCEPT ![1] = Reduced(@, t.qty)]
  OBVIOUS
<1>4. c = [b EXCEPT ![op] = r] /\ op \in DOMAIN b /\ c[op] = r
  BY <1>2, <1>3 DEF Books
<1>5. Met(c, u) = r /\ Met(b, t) = o
  BY <1>2, <1>4 DEF Met
<1>6. LeftOf(t, o) = 0 /\ After(t, o) = r
        /\ Said(t, o) = <<Trade(o[1].id, t.id, o[1].price, t.qty)>>
  BY <1>3, TakesPartOnly
<1>7. o \in Seq(Listed) /\ o[1] \in Listed /\ o # <<>> /\ 1 \in 1 .. Len(o)
        /\ o[1].qty \in LiveQtys
  <2>1. o \in Seq(Listed) /\ o # <<>>
    BY DEF TakesPart
  <2>2. Len(o) \in Nat \ {0}
    BY <2>1, TailFacts
  <2>3. 1 \in 1 .. Len(o)
    BY <2>2
  <2> QED  BY <2>1, <2>3, ListedFacts
<1>8. r \in Seq(Listed)
  <2>1. o[1].qty - t.qty \in LiveQtys
    BY <1>7, QtyWidth DEF TakesPart, LiveQtys
  <2>2. Reduced(o[1], t.qty) \in Listed
    BY <1>7, <2>1 DEF Reduced, Listed
  <2> QED  BY <1>3, <1>7, <2>2
<1>9. After(u, r) = r /\ Said(u, r) = <<>> /\ LeftOf(u, r) = 0
  <2>1. u.qty \in Nat /\ u.qty = 0 /\ u.id \in Ids
    BY <1>1
  <2> QED  BY <1>8, <2>1, TakesNothing
<1>10. PICK n : n = Remains(b, t) /\ n = Remains(c, u)
  BY <1>5, <1>6, <1>9 DEF Remains
<1>11. CrossedBook(c, u) = CrossedBook(b, t)
  BY <1>2, <1>4, <1>5, <1>6, <1>9 DEF CrossedBook
<1>12. WithRest(CrossedBook(b, t), u, n) = WithRest(CrossedBook(b, t), t, n)
        /\ LastWord(u, n) = LastWord(t, n)
  BY ReducedFares
<1>13. Atomic!Settled(c, u).book = Atomic!Settled(b, t).book
  <2>1. Atomic!Settled(b, t).book = WithRest(CrossedBook(b, t), t, n)
    BY <1>10, SettledBook
  <2>2. Atomic!Settled(c, u).book = WithRest(CrossedBook(c, u), u, n)
    BY <1>10, SettledBook
  <2> QED  BY <1>11, <1>12, <2>1, <2>2
<1>14. Atomic!Settled(b, t).events = Append(Said(t, o), LastWord(t, n))
  BY <1>5, <1>10, SettledEvents
<1>15. Atomic!Settled(c, u).events = Append(Said(u, r), LastWord(t, n))
  <2>1. Atomic!Settled(c, u).events =
          Append(Said(u, Met(c, u)), LastWord(u, Remains(c, u)))
    BY SettledEvents
  <2> QED  BY <1>5, <1>10, <1>12, <2>1
<1>16. PICK w : w = Trade(o[1].id, t.id, o[1].price, t.qty)
  OBVIOUS
<1>17. \A e : Append(<<w>>, e) = <<w>> \o Append(<<>>, e)
  OBVIOUS
<1>18. Atomic!Settled(b, t).events = <<w>> \o Atomic!Settled(c, u).events
  BY <1>6, <1>9, <1>14, <1>15, <1>16, <1>17
<1> QED  BY <1>13, <1>16, <1>18

\* An order that wants nothing more, or reaches nothing.
LEMMA SettledNothing ==
    ASSUME NEW b \in Books, NEW t \in Takers,
           t.qty = 0 \/ Atomic!Reach(t.side, t.limit, Met(b, t)) = 0
    PROVE  /\ Atomic!Settled(b, t).book = WithRest(b, t, t.qty)
           /\ Atomic!Settled(b, t).events = <<LastWord(t, t.qty)>>
<1>1. t.qty \in Nat /\ t.id \in Ids /\ t.side \in Sides
  BY QtyWidth DEF Takers
<1>2. PICK op \in Sides : op = Opposite(t.side)
  BY <1>1, OtherSide
<1>3. PICK o \in Seq(Listed) : o = Met(b, t) /\ o = b[op]
  BY <1>2 DEF Books, Met
<1>4. After(t, o) = o /\ Said(t, o) = <<>> /\ LeftOf(t, o) = t.qty
  BY <1>1, <1>3, TakesNothing
<1>5. Remains(b, t) = t.qty
  BY <1>3, <1>4 DEF Remains
<1>6. CrossedBook(b, t) = b
  BY <1>2, <1>3, <1>4 DEF CrossedBook, Books
<1>7. \A e : Append(<<>>, e) = <<e>>
  OBVIOUS
<1> QED  BY <1>3, <1>4, <1>5, <1>6, <1>7, SettledBook, SettledEvents
----------------------------------------------------------------------------
(* The line of a side: its live locations in priority order.  Slots and    *)
(* the queues of the side are parameters, so that what is said of a line   *)
(* can be said before and after a step.                                    *)

\* Location k comes before location l in the queue q.
Earlier(q, k, l) == \E i, j \in DOMAIN q : i < j /\ q[i] = k /\ q[j] = l

GoesBefore(sl, qs, side, k, l) ==
    IF sl[k].price = sl[l].price THEN Earlier(qs[sl[k].price], k, l)
    ELSE Atomic!AtLeastAsGood(side, sl[k].price, sl[l].price)

LiveOn(sl, side, l) == sl[l] # NIL /\ sl[l].side = side

Line(sl, qs, side, L) ==
    /\ L \in Seq(Locs)
    /\ \A i \in DOMAIN L : LiveOn(sl, side, L[i])
    /\ \A l \in Locs : LiveOn(sl, side, l) => \E i \in DOMAIN L : L[i] = l
    /\ \A i, j \in DOMAIN L : L[i] = L[j] => i = j
    /\ \A i, j \in DOMAIN L : i < j => GoesBefore(sl, qs, side, L[i], L[j])

OrderAt(sl, l) == [id |-> sl[l].id, price |-> sl[l].price,
                   qty |-> sl[l].qty, tif |-> sl[l].tif]

ListOf(sl, L) == [n \in 1 .. Len(L) |-> OrderAt(sl, L[n])]

LEMMA EarlierDrops ==
    ASSUME NEW q \in Seq(Locs), NEW q2 \in Seq(Locs), NEW i \in DOMAIN q,
           Drops(q, q2, i), NEW k, NEW l, Earlier(q, k, l),
           k # q[i], l # q[i]
    PROVE  Earlier(q2, k, l)
<1>1. PICK a \in DOMAIN q, b \in DOMAIN q : a < b /\ q[a] = k /\ q[b] = l
  BY DEF Earlier
<1>2. PICK n \in Nat : n = Len(q) /\ DOMAIN q = 1 .. n /\ DOMAIN q2 = 1 .. (n - 1)
                         /\ i \in 1 .. n /\ a \in 1 .. n /\ b \in 1 .. n
  BY DEF Drops
<1>3. \A j \in 1 .. (n - 1) : q2[j] = IF j < i THEN q[j] ELSE q[j + 1]
  BY <1>2 DEF Drops
<1> DEFINE at(m) == IF m < i THEN m ELSE m - 1
<1>4. a # i /\ b # i
  BY <1>1
<1>5. at(a) \in 1 .. (n - 1) /\ at(b) \in 1 .. (n - 1) /\ at(a) < at(b)
  BY <1>1, <1>2, <1>4
<1>6. q2[at(a)] = q[a] /\ q2[at(b)] = q[b]
  <2>1. \A m \in 1 .. n : m # i /\ at(m) \in 1 .. (n - 1) => q2[at(m)] = q[m]
    BY <1>2, <1>3
  <2> HIDE DEF at
  <2> QED  BY <1>2, <1>4, <1>5, <2>1
<1> HIDE DEF at
<1> QED  BY <1>1, <1>2, <1>5, <1>6 DEF Earlier

LEMMA EarlierAppend ==
    ASSUME NEW q \in Seq(Locs), NEW e \in Locs, NEW k, NEW l,
           \/ Earlier(q, k, l)
           \/ l = e /\ \E i \in DOMAIN q : q[i] = k
    PROVE  Earlier(Append(q, e), k, l)
<1>1. PICK n \in Nat : n = Len(q) /\ DOMAIN q = 1 .. n
  OBVIOUS
<1>2. PICK r : r = Append(q, e) /\ DOMAIN r = 1 .. (n + 1) /\ r[n + 1] = e
               /\ \A j \in 1 .. n : r[j] = q[j]
  <2>1. /\ DOMAIN Append(q, e) = 1 .. (Len(q) + 1)
        /\ Append(q, e)[Len(q) + 1] = e
        /\ \A j \in 1 .. Len(q) : Append(q, e)[j] = q[j]
    BY AppendAdds
  <2> QED  BY <1>1, <2>1
<1>3. CASE Earlier(q, k, l)
  BY <1>1, <1>2, <1>3 DEF Earlier
<1>4. CASE l = e /\ \E i \in DOMAIN q : q[i] = k
  <2>1. PICK i \in 1 .. n : q[i] = k
    BY <1>1, <1>4
  <2>2. i < n + 1 /\ i \in 1 .. (n + 1) /\ n + 1 \in 1 .. (n + 1)
    BY <1>1
  <2> QED  BY <1>2, <1>4, <2>1, <2>2 DEF Earlier
<1> QED  BY <1>3, <1>4

\* A line is the same when the locations and levels of its side are.
LEMMA LineSame ==
    ASSUME NEW sl, NEW qs, NEW side, NEW L, Line(sl, qs, side, L), NEW sl2,
           \A l \in Locs : LiveOn(sl2, side, l) <=> LiveOn(sl, side, l),
           \A l \in Locs : LiveOn(sl, side, l) => sl2[l].price = sl[l].price
    PROVE  Line(sl2, qs, side, L)
<1>1. \A i \in DOMAIN L : L[i] \in Locs
  BY DEF Line
<1>2. \A i \in DOMAIN L : LiveOn(sl, side, L[i]) /\ LiveOn(sl2, side, L[i])
                            /\ sl2[L[i]].price = sl[L[i]].price
  BY <1>1 DEF Line
<1>3. \A i, j \in DOMAIN L : i < j => GoesBefore(sl2, qs, side, L[i], L[j])
  BY <1>2 DEF Line, GoesBefore
<1> QED  BY <1>2, <1>3 DEF Line

\* The n-th of line L dies; M is what is left of the line.
LosesOne(sl, qs, L, sl2, qs2, M, n) ==
    /\ n \in DOMAIN L /\ M \in Seq(Locs) /\ Drops(L, M, n)
    /\ \A l \in Locs : sl2[l] = IF l = L[n] THEN NIL ELSE sl[l]
    /\ \A i \in DOMAIN L : sl[L[i]].price \in Prices
    /\ \A p \in Prices : \A k, l :
          Earlier(qs[p], k, l) /\ k # L[n] /\ l # L[n] => Earlier(qs2[p], k, l)

LEMMA LineDrops ==
    ASSUME NEW sl, NEW qs, NEW side, NEW L, Line(sl, qs, side, L),
           NEW sl2, NEW qs2, NEW M, NEW n, LosesOne(sl, qs, L, sl2, qs2, M, n)
    PROVE  Line(sl2, qs2, side, M)
<1> USE DEF LosesOne
<1>1. /\ L \in Seq(Locs) /\ \A i \in DOMAIN L : LiveOn(sl, side, L[i])
      /\ \A i, j \in DOMAIN L : L[i] = L[j] => i = j
  BY DEF Line
<1>2. /\ Len(L) \in Nat /\ DOMAIN L = 1 .. Len(L) /\ n \in 1 .. Len(L)
      /\ DOMAIN M = 1 .. (Len(L) - 1) /\ DOMAIN M = 1 .. Len(M)
      /\ \A i \in 1 .. Len(L) : L[i] \in Locs
  BY <1>1 DEF Drops
<1> DEFINE at(j) == IF j < n THEN j ELSE j + 1
<1>3. \A j \in DOMAIN M : at(j) \in DOMAIN L /\ at(j) # n /\ M[j] = L[at(j)]
  BY <1>2 DEF Drops
<1>4. \A i, j \in DOMAIN M : (i < j => at(i) < at(j)) /\ (at(i) = at(j) => i = j)
  BY <1>2
<1>5. \A j \in DOMAIN L : j # n => \E i \in DOMAIN M : M[i] = L[j]
  BY <1>2, DropsKeeps
<1> HIDE DEF at
<1>6. \A j \in DOMAIN M : M[j] # L[n] /\ M[j] \in Locs
  BY <1>1, <1>2, <1>3
<1>7. \A j \in DOMAIN M : LiveOn(sl2, side, M[j]) /\ sl2[M[j]] = sl[M[j]]
  BY <1>1, <1>3, <1>6 DEF LiveOn
<1>8. ASSUME NEW l \in Locs, LiveOn(sl2, side, l)
      PROVE  \E i \in DOMAIN M : M[i] = l
  <2>1. l # L[n] /\ LiveOn(sl, side, l)
    BY <1>8 DEF LiveOn
  <2>2. PICK j \in DOMAIN L : L[j] = l
    BY <2>1 DEF Line
  <2> QED  BY <1>5, <2>1, <2>2
<1>9. \A i, j \in DOMAIN M : M[i] = M[j] => i = j
  BY <1>1, <1>3, <1>4
<1>10. ASSUME NEW i \in DOMAIN M, NEW j \in DOMAIN M, i < j
       PROVE  GoesBefore(sl2, qs2, side, M[i], M[j])
  <2>1. GoesBefore(sl, qs, side, M[i], M[j])
    BY <1>3, <1>4, <1>10 DEF Line
  <2>2. sl[M[i]].price \in Prices
    BY <1>3
  <2> QED  BY <1>6, <1>7, <2>1, <2>2 DEF GoesBefore
<1> QED  BY <1>7, <1>8, <1>9, <1>10 DEF Line

LEMMA InsertAtAdds ==
    ASSUME NEW S, NEW q \in Seq(S), NEW c \in 0 .. Len(q), NEW e \in S
    PROVE  Atomic!InsertAt(q, c + 1, e) \in Seq(S)
             /\ Inserted(q, Atomic!InsertAt(q, c + 1, e), c, e)
<1>1. (c + 1) - 1 = c
  OBVIOUS
<1> QED  BY <1>1, InsertAdds DEF Atomic!InsertAt

\* A location where an order of price p comes to rest joins the line behind
\* all that are as good.
GainsOne(sl, qs, side, L, sl2, qs2, M, l, o, p, c) ==
    /\ \A i \in DOMAIN L : sl[L[i]].price \in Prices
    /\ l \in Locs /\ sl[l] = NIL
    /\ o # NIL /\ o.side = side /\ p \in Prices /\ o.price = p
    /\ c \in 0 .. Len(L)
    /\ \A i \in DOMAIN L :
          i <= c <=> Atomic!AtLeastAsGood(side, sl[L[i]].price, p)
    /\ M \in Seq(Locs) /\ Inserted(L, M, c, l)
    /\ \A k \in Locs : sl2[k] = IF k = l THEN o ELSE sl[k]
    /\ \A r \in Prices : \A k, m : Earlier(qs[r], k, m) => Earlier(qs2[r], k, m)
    /\ \A i \in DOMAIN L : sl[L[i]].price = p => Earlier(qs2[p], L[i], l)

LEMMA LineRests ==
    ASSUME NEW sl, NEW qs, NEW side, NEW L, Line(sl, qs, side, L),
           NEW sl2, NEW qs2, NEW M, NEW l, NEW o, NEW p, NEW c,
           GainsOne(sl, qs, side, L, sl2, qs2, M, l, o, p, c)
    PROVE  Line(sl2, qs2, side, M)
<1> USE DEF GainsOne
<1>1. /\ L \in Seq(Locs) /\ \A i \in DOMAIN L : LiveOn(sl, side, L[i])
      /\ \A i, j \in DOMAIN L : L[i] = L[j] => i = j
  BY DEF Line
<1>2. PICK n \in Nat : /\ n = Len(L) /\ DOMAIN L = 1 .. n /\ c \in 0 .. n
                       /\ DOMAIN M = 1 .. (n + 1)
                       /\ \A i \in 1 .. n : L[i] \in Locs /\ L[i] # l
  <2>1. \A i \in DOMAIN L : L[i] \in Locs /\ L[i] # l
    BY <1>1 DEF LiveOn
  <2> QED  BY <1>1, <2>1 DEF Inserted
<1>3. \A j \in 1 .. (n + 1) :
         M[j] = IF j <= c THEN L[j] ELSE IF j = c + 1 THEN l ELSE L[j - 1]
  BY <1>2 DEF Inserted
<1>4. c + 1 \in DOMAIN M /\ M[c + 1] = l
  BY <1>2, <1>3
<1> DEFINE from(j) == IF j <= c THEN j ELSE j - 1
<1>5. \A j \in DOMAIN M : j # c + 1 => from(j) \in DOMAIN L /\ M[j] = L[from(j)]
  BY <1>2, <1>3
<1>6. \A i, j \in DOMAIN M : i # c + 1 /\ j # c + 1
         => (i < j => from(i) < from(j)) /\ (from(i) = from(j) => i = j)
  BY <1>2
<1>7. \A i \in DOMAIN L : \E j \in DOMAIN M : M[j] = L[i]
  <2> TAKE i \in DOMAIN L
  <2>1. CASE i <= c
    <3>1. i \in DOMAIN M /\ M[i] = L[i]
      BY <1>2, <1>3, <2>1
    <3> QED  BY <3>1
  <2>2. CASE i > c
    <3>1. i + 1 \in DOMAIN M /\ M[i + 1] = L[i]
      BY <1>2, <1>3, <2>2
    <3> QED  BY <3>1
  <2> QED  BY <1>2, <2>1, <2>2
<1>8. \A j \in DOMAIN M : j # c + 1 => (from(j) <= c <=> j < c + 1)
  BY <1>2
<1> HIDE DEF from
<1>9. sl2[l] = o /\ LiveOn(sl2, side, l)
  BY DEF LiveOn
<1>10. \A i \in DOMAIN L : sl2[L[i]] = sl[L[i]] /\ LiveOn(sl2, side, L[i])
  BY <1>1, <1>2 DEF LiveOn
<1>11. \A j \in DOMAIN M : LiveOn(sl2, side, M[j])
  BY <1>4, <1>5, <1>9, <1>10
<1>12. ASSUME NEW k \in Locs, LiveOn(sl2, side, k)
       PROVE  \E j \in DOMAIN M : M[j] = k
  <2>1. CASE k = l
    BY <1>4, <2>1
  <2>2. CASE k # l
    <3>1. LiveOn(sl, side, k)
      BY <1>12, <2>2 DEF LiveOn
    <3>2. PICK i \in DOMAIN L : L[i] = k
      BY <3>1 DEF Line
    <3> QED  BY <1>7, <3>2
  <2> QED  BY <2>1, <2>2
<1>13. \A i, j \in DOMAIN M : M[i] = M[j] => i = j
  BY <1>1, <1>2, <1>4, <1>5, <1>6
<1>14. ASSUME NEW i \in DOMAIN M, NEW j \in DOMAIN M, i < j
       PROVE  GoesBefore(sl2, qs2, side, M[i], M[j])
  <2>1. CASE i # c + 1 /\ j # c + 1
    <3>1. GoesBefore(sl, qs, side, M[i], M[j])
      BY <1>5, <1>6, <1>14, <2>1 DEF Line
    <3>2. sl2[M[i]] = sl[M[i]] /\ sl2[M[j]] = sl[M[j]]
      BY <1>5, <1>10, <2>1
    <3>3. CASE sl[M[i]].price = sl[M[j]].price
      <4>1. Earlier(qs[sl[M[i]].price], M[i], M[j])
        BY <3>1, <3>3 DEF GoesBefore
      <4>2. Earlier(qs2[sl[M[i]].price], M[i], M[j])
        BY <1>5, <2>1, <4>1
      <4> QED  BY <3>2, <3>3, <4>2 DEF GoesBefore
    <3>4. CASE sl[M[i]].price # sl[M[j]].price
      BY <3>1, <3>2, <3>4 DEF GoesBefore
    <3> QED  BY <3>3, <3>4
  <2>2. CASE i # c + 1 /\ j = c + 1
    <3>1. PICK a \in DOMAIN L : M[i] = L[a] /\ a <= c
      BY <1>5, <1>8, <1>14, <2>2
    <3>2. Atomic!AtLeastAsGood(side, sl[L[a]].price, p)
      BY <3>1
    <3> QED  BY <1>4, <1>9, <1>10, <2>2, <3>1, <3>2 DEF GoesBefore
  <2>3. CASE i = c + 1
    <3>1. j # c + 1 /\ ~(j < c + 1)
      BY <1>2, <1>14, <2>3
    <3>2. PICK b \in DOMAIN L : M[j] = L[b] /\ ~(b <= c)
      BY <1>5, <1>8, <3>1
    <3>3. /\ ~Atomic!AtLeastAsGood(side, sl[L[b]].price, p)
          /\ sl[L[b]].price \in Int /\ p \in Int
      BY <3>2, PricesAreTicks DEF Prices
    <3>4. sl[L[b]].price # p /\ Atomic!AtLeastAsGood(side, p, sl[L[b]].price)
      BY <3>3 DEF Atomic!AtLeastAsGood
    <3> QED  BY <1>4, <1>9, <1>10, <2>3, <3>2, <3>4 DEF GoesBefore
  <2> QED  BY <2>1, <2>2, <2>3
<1> QED  BY <1>11, <1>12, <1>13, <1>14 DEF Line
----------------------------------------------------------------------------
(* The orders at rest are those of the line.                               *)

IsLine(side, L) == Line(slot, queue[side], side, L)

\* What RestingOrders asks of the store: a level that has orders is in the
\* index.  An empty one may be there, as a throwing sink leaves it.
Listable ==
    /\ queue \in [Sides -> [Prices -> Seq(Locs)]]
    /\ index \in [Sides -> SUBSET Prices]
    /\ slot \in [Locs -> Orders \cup {NIL}]
    /\ QueuedAreLive
    /\ LiveAreQueued
    /\ \A s \in Sides, p \in Prices : queue[s][p] # <<>> => p \in index[s]

LEMMA StoreIsListable == StoreInv => Listable
  BY DEF StoreInv, StoreType, IndexExact, Listable

\* The place of a live location.
IsPlace(side, a, l) ==
    /\ a \in Places(side)
    /\ queue[side][a[1]][a[2]] = l /\ a[1] = slot[l].price

LEMMA PlaceFacts ==
    ASSUME Listable, NEW side \in Sides, NEW a \in Places(side)
    PROVE  /\ a = <<a[1], a[2]>> /\ a[1] \in Prices /\ a[1] \in Int
           /\ a[2] \in DOMAIN queue[side][a[1]] /\ a[2] \in Int
           /\ queue[side][a[1]][a[2]] \in Locs
           /\ LiveOn(slot, side, queue[side][a[1]][a[2]])
           /\ slot[queue[side][a[1]][a[2]]].price = a[1]
<1>1. PICK p \in index[side] : a \in {p} \X DOMAIN queue[side][p]
  BY DEF Places
<1>2. a = <<p, a[2]>> /\ a[1] = p /\ a[2] \in DOMAIN queue[side][p]
  BY <1>1
<1>3. p \in Prices /\ p \in Int
  BY PricesAreTicks DEF Listable, Prices
<1> DEFINE q == queue[side][p]
<1>5. /\ Len(q) \in Nat /\ DOMAIN q = 1 .. Len(q)
      /\ \A j \in 1 .. Len(q) :
            /\ q[j] \in Locs /\ slot[q[j]] # NIL
            /\ slot[q[j]].side = side /\ slot[q[j]].price = p
  BY <1>3, LevelIs DEF Listable
<1> QED  BY <1>2, <1>3, <1>5 DEF LiveOn

LEMMA HasPlace ==
    ASSUME Listable, NEW side \in Sides, NEW l \in Locs, LiveOn(slot, side, l)
    PROVE  \E a : IsPlace(side, a, l)
<1>1. slot[l] \in Orders /\ slot[l].side = side /\ slot[l].price \in Prices
  BY DEF Listable, Orders, LiveOn
<1>2. PICK i \in DOMAIN queue[side][slot[l].price] : queue[side][slot[l].price][i] = l
  BY <1>1 DEF Listable, LiveAreQueued, LiveOn
<1>3. slot[l].price \in index[side]
  <2>1. queue[side][slot[l].price] # <<>>
    BY <1>2
  <2> QED  BY <1>1, <2>1 DEF Listable
<1>4. <<slot[l].price, i>> \in Places(side)
  BY <1>2, <1>3 DEF Places
<1> QED  BY <1>2, <1>4 DEF IsPlace

LEMMA OnePlace ==
    ASSUME Listable, NEW side \in Sides, NEW l, NEW a, NEW b,
           IsPlace(side, a, l), IsPlace(side, b, l)
    PROVE  a = b
<1>1. /\ a = <<a[1], a[2]>> /\ a[1] \in Prices
      /\ a[2] \in DOMAIN queue[side][a[1]]
  BY PlaceFacts DEF IsPlace
<1>2. b = <<b[1], b[2]>> /\ b[2] \in DOMAIN queue[side][b[1]]
  BY PlaceFacts DEF IsPlace
<1>3. a[1] = b[1]
  BY DEF IsPlace
<1> DEFINE q == queue[side][a[1]]
<1>5. DOMAIN q = 1 .. Len(q) /\ \A c, d \in 1 .. Len(q) : q[c] = q[d] => c = d
  BY <1>1, LevelIs DEF Listable
<1>6. a[2] = b[2]
  BY <1>1, <1>2, <1>3, <1>5 DEF IsPlace
<1> QED  BY <1>1, <1>2, <1>3, <1>6

\* Locations and their places are in the same order.
LEMMA PlacesPrecede ==
    ASSUME Listable, NEW side \in Sides, NEW k, NEW l, NEW a, NEW b,
           IsPlace(side, a, k), IsPlace(side, b, l),
           GoesBefore(slot, queue[side], side, k, l)
    PROVE  Precedes(side, a, b)
<1>1. /\ a[1] \in Prices /\ a[1] = slot[k].price /\ queue[side][a[1]][a[2]] = k
      /\ a[2] \in DOMAIN queue[side][a[1]]
  BY PlaceFacts DEF IsPlace
<1>2. /\ b[1] \in Prices /\ b[1] = slot[l].price /\ queue[side][b[1]][b[2]] = l
      /\ b[2] \in DOMAIN queue[side][b[1]]
  BY PlaceFacts DEF IsPlace
<1>3. CASE a[1] = b[1]
  <2> DEFINE q == queue[side][a[1]]
  <2>1. queue \in [Sides -> [Prices -> Seq(Locs)]] /\ QueuedAreLive
    BY DEF Listable
  <2>2. DOMAIN q = 1 .. Len(q) /\ \A c, d \in 1 .. Len(q) : q[c] = q[d] => c = d
    BY <1>1, <2>1, LevelIs
  <2>3. Earlier(q, k, l)
    BY <1>1, <1>2, <1>3 DEF GoesBefore
  <2>4. PICK i \in DOMAIN q, j \in DOMAIN q : i < j /\ q[i] = k /\ q[j] = l
    BY <2>3 DEF Earlier
  <2>5. i = a[2] /\ j = b[2]
    BY <1>1, <1>2, <1>3, <2>2, <2>4
  <2> QED  BY <1>3, <2>4, <2>5 DEF Precedes
<1>4. CASE a[1] # b[1]
  BY <1>1, <1>2, <1>4 DEF Precedes, GoesBefore
<1> QED  BY <1>3, <1>4

LEMMA PrecedesIsStrict ==
    ASSUME Listable, NEW side \in Sides, NEW a \in Places(side),
           NEW b \in Places(side), Precedes(side, a, b)
    PROVE  ~Precedes(side, b, a)
<1>1. a[1] \in Int /\ b[1] \in Int /\ a[2] \in Int /\ b[2] \in Int
  BY PlaceFacts
<1>2. CASE a[1] = b[1]
  BY <1>1, <1>2 DEF Precedes
<1>3. CASE a[1] # b[1]
  BY <1>1, <1>3 DEF Precedes, Atomic!AtLeastAsGood
<1> QED  BY <1>2, <1>3

LEMMA RestingIs ==
    \A side \in Sides, L \in Seq(Locs) :
       Listable /\ IsLine(side, L) => RestingOrders(side) = ListOf(slot, L)
<1> SUFFICES ASSUME NEW side \in Sides, NEW L \in Seq(Locs), Listable,
                    IsLine(side, L)
             PROVE  RestingOrders(side) = ListOf(slot, L)
  OBVIOUS
<1>1. PICK n \in Nat : n = Len(L) /\ DOMAIN L = 1 .. n /\ \A i \in 1 .. n : L[i] \in Locs
  OBVIOUS
<1>2. /\ \A i \in 1 .. n : LiveOn(slot, side, L[i])
      /\ \A l \in Locs : LiveOn(slot, side, l) => \E i \in 1 .. n : L[i] = l
      /\ \A i, j \in 1 .. n : L[i] = L[j] => i = j
      /\ \A i, j \in 1 .. n :
            i < j => GoesBefore(slot, queue[side], side, L[i], L[j])
  BY <1>1 DEF IsLine, Line
<1>3. PICK P : P = [i \in 1 .. n |-> CHOOSE a : IsPlace(side, a, L[i])]
  OBVIOUS
<1>4. \A i \in 1 .. n : IsPlace(side, P[i], L[i])
  <2> TAKE i \in 1 .. n
  <2>1. \E a : IsPlace(side, a, L[i])
    BY <1>1, <1>2, HasPlace
  <2> QED  BY <1>3, <2>1
<1>5. \A i \in 1 .. n : P[i] \in Places(side)
  BY <1>4 DEF IsPlace
<1>6. \A a \in Places(side) : \E i \in 1 .. n : P[i] = a
  <2> TAKE a \in Places(side)
  <2>1. PICK l : l = queue[side][a[1]][a[2]]
    OBVIOUS
  <2>2. l \in Locs /\ LiveOn(slot, side, l) /\ IsPlace(side, a, l)
    BY <2>1, PlaceFacts DEF IsPlace
  <2>3. PICK i \in 1 .. n : L[i] = l
    BY <1>2, <2>2
  <2>4. P[i] = a
    BY <1>4, <2>2, <2>3, OnePlace
  <2> QED  BY <2>4
<1>7. \A i, j \in 1 .. n : i < j => Precedes(side, P[i], P[j])
  BY <1>2, <1>4, PlacesPrecede
<1>8. \A i, j \in 1 .. n : Precedes(side, P[i], P[j]) => i < j
  <2> SUFFICES ASSUME NEW i \in 1 .. n, NEW j \in 1 .. n, Precedes(side, P[i], P[j])
               PROVE  i < j
    OBVIOUS
  <2>1. ~Precedes(side, P[j], P[i])
    BY <1>5, PrecedesIsStrict
  <2>2. i # j /\ ~(j < i)
    BY <1>7, <2>1
  <2> QED  BY <2>2
<1>9. \A i, j \in 1 .. n : P[i] = P[j] => i = j
  BY <1>2, <1>4 DEF IsPlace
<1> DEFINE Rank(a) == Cardinality({b \in Places(side) : Precedes(side, b, a)})
           nth(i) == CHOOSE a \in Places(side) : Rank(a) = i - 1
<1>10. \A i \in 1 .. n : Rank(P[i]) = i - 1
  <2> TAKE i \in 1 .. n
  <2>1. {b \in Places(side) : Precedes(side, b, P[i])} = {P[j] : j \in 1 .. (i - 1)}
    BY <1>5, <1>6, <1>7, <1>8
  <2>2. i - 1 \in Nat /\ \A j, k \in 1 .. (i - 1) : P[j] = P[k] => j = k
    BY <1>9
  <2>3. Cardinality({P[j] : j \in 1 .. (i - 1)}) = i - 1
    BY <2>2, ImageCount
  <2> QED  BY <2>1, <2>3
<1>11. Cardinality(Places(side)) = n
  <2>1. Places(side) = {P[j] : j \in 1 .. n}
    BY <1>5, <1>6
  <2> QED  BY <1>9, <2>1, ImageCount
<1>0. RestingOrders(side) = [i \in 1 .. Cardinality(Places(side)) |->
                                AsOrder(queue[side][nth(i)[1]][nth(i)[2]])]
  BY DEF RestingOrders
<1> HIDE DEF Rank
<1>12. \A i \in 1 .. n : nth(i) = P[i]
  <2> TAKE i \in 1 .. n
  <2>1. \E a \in Places(side) : Rank(a) = i - 1
    BY <1>5, <1>10
  <2>2. \A a \in Places(side) : Rank(a) = i - 1 => a = P[i]
    <3> SUFFICES ASSUME NEW a \in Places(side), Rank(a) = i - 1
                 PROVE  a = P[i]
      OBVIOUS
    <3>1. PICK j \in 1 .. n : P[j] = a
      BY <1>6
    <3>2. j - 1 = i - 1
      BY <1>10, <3>1
    <3> QED  BY <3>1, <3>2
  <2> QED  BY <2>1, <2>2
<1> HIDE DEF nth
<1>13. RestingOrders(side) =
         [i \in 1 .. n |-> AsOrder(queue[side][P[i][1]][P[i][2]])]
  BY <1>0, <1>11, <1>12
<1>14. \A i \in 1 .. n : queue[side][P[i][1]][P[i][2]] = L[i]
  BY <1>4 DEF IsPlace
<1>15. \A i \in 1 .. n :
          AsOrder(queue[side][P[i][1]][P[i][2]]) = OrderAt(slot, L[i])
  BY <1>14 DEF OrderAt, AsOrder
<1> QED  BY <1>1, <1>13, <1>15 DEF ListOf

----------------------------------------------------------------------------
(* What the order of a line says of reach and of joining.                  *)

\* Listing o is that of the line L.
ListsLine(side, L, o) ==
    /\ o \in Seq(Listed) /\ Len(o) = Len(L) /\ Len(L) \in Nat
    /\ DOMAIN o = 1 .. Len(L) /\ DOMAIN L = 1 .. Len(L)
    /\ \A i \in 1 .. Len(L) :
          /\ L[i] \in Locs /\ slot[L[i]] \in Orders
          /\ slot[L[i]].side = side /\ slot[L[i]].price \in Prices
          /\ slot[L[i]].price \in Int
          /\ o[i] = OrderAt(slot, L[i])
          /\ o[i].price = slot[L[i]].price /\ o[i].id = slot[L[i]].id
          /\ o[i].qty = slot[L[i]].qty /\ o[i].tif = slot[L[i]].tif

LEMMA ListingFacts ==
    ASSUME StoreInv, NEW side \in Sides, NEW L, IsLine(side, L),
           NEW o, o = ListOf(slot, L)
    PROVE  ListsLine(side, L, o)
<1>1. L \in Seq(Locs) /\ \A i \in DOMAIN L : LiveOn(slot, side, L[i])
  BY DEF IsLine, Line
<1>2. PICK n \in Nat : n = Len(L) /\ DOMAIN L = 1 .. n /\ \A i \in 1 .. n : L[i] \in Locs
  BY <1>1
<1>3. \A i \in 1 .. n : slot[L[i]] \in Orders /\ slot[L[i]].side = side
  BY <1>1, <1>2 DEF LiveOn, StoreInv, StoreType
<1>4. \A r \in Orders : OrderAt(slot, r) = OrderAt(slot, r) /\ r.price \in Prices
        /\ [id |-> r.id, price |-> r.price, qty |-> r.qty, tif |-> r.tif] \in Listed
  BY DEF Orders, Listed
<1>5. \A i \in 1 .. n : OrderAt(slot, L[i]) \in Listed /\ slot[L[i]].price \in Prices
  BY <1>3, <1>4 DEF OrderAt
<1>6. Prices \subseteq Int
  BY PricesAreTicks DEF Prices
<1>7. o = [i \in 1 .. n |-> OrderAt(slot, L[i])]
  BY <1>2 DEF ListOf
<1>8. o \in Seq(Listed) /\ Len(o) = n /\ DOMAIN o = 1 .. n
  BY <1>5, <1>7
<1>9. \A i \in 1 .. n : /\ o[i] = OrderAt(slot, L[i])
                        /\ o[i].price = slot[L[i]].price /\ o[i].id = slot[L[i]].id
                        /\ o[i].qty = slot[L[i]].qty /\ o[i].tif = slot[L[i]].tif
  BY <1>7 DEF OrderAt
<1> QED  BY <1>2, <1>3, <1>5, <1>6, <1>8, <1>9 DEF ListsLine

\* Best price first.
Sorted(side, own) ==
    \A i, j \in DOMAIN own :
       i <= j => Atomic!AtLeastAsGood(side, own[i].price, own[j].price)

LEMMA LineSorted ==
    ASSUME StoreInv, NEW side \in Sides, NEW L, IsLine(side, L)
    PROVE  Sorted(side, ListOf(slot, L))
<1>1. PICK o : o = ListOf(slot, L)
  OBVIOUS
<1>2. /\ DOMAIN o = 1 .. Len(L) /\ DOMAIN L = 1 .. Len(L)
      /\ \A i \in 1 .. Len(L) :
            o[i].price = slot[L[i]].price /\ o[i].price \in Int
  BY <1>1, ListingFacts DEF ListsLine
<1>3. ASSUME NEW i \in DOMAIN o, NEW j \in DOMAIN o, i <= j
      PROVE  Atomic!AtLeastAsGood(side, o[i].price, o[j].price)
  <2>1. CASE o[i].price = o[j].price
    BY <1>2, <2>1 DEF Atomic!AtLeastAsGood
  <2>2. CASE o[i].price # o[j].price
    <3>1. i < j /\ i \in DOMAIN L /\ j \in DOMAIN L
      BY <1>2, <1>3, <2>2
    <3>2. GoesBefore(slot, queue[side], side, L[i], L[j])
      BY <3>1 DEF IsLine, Line
    <3> QED  BY <1>2, <2>2, <3>2 DEF GoesBefore
  <2> QED  BY <2>1, <2>2
<1> QED  BY <1>1, <1>3 DEF Sorted

\* The orders in reach are the first ones.
LEMMA ReachIs ==
    ASSUME NEW side \in Sides, NEW limit \in Int \cup {NIL},
           NEW o \in Seq(Listed), Sorted(Opposite(side), o),
           NEW r, r = Atomic!Reach(side, limit, o)
    PROVE  /\ r \in 0 .. Len(o)
           /\ \A i \in 1 .. Len(o) :
                 i <= r <=> Atomic!Acceptable(side, limit, o[i].price)
<1>1. /\ Len(o) \in Nat /\ DOMAIN o = 1 .. Len(o)
      /\ \A i \in 1 .. Len(o) : o[i].price \in Int
  BY ListedFacts
<1>2. PICK S : S = {i \in DOMAIN o : Atomic!Acceptable(side, limit, o[i].price)}
  OBVIOUS
<1>3. S \in SUBSET (1 .. Len(o))
  BY <1>1, <1>2
<1>4. \A i \in S : \A j \in 1 .. i : j \in S
  <2> SUFFICES ASSUME NEW i \in S, NEW j \in 1 .. i
               PROVE  j \in S
    OBVIOUS
  <2>1. i \in DOMAIN o /\ j \in DOMAIN o /\ j <= i
    BY <1>1, <1>3
  <2>2. Atomic!AtLeastAsGood(Opposite(side), o[j].price, o[i].price)
    BY <2>1 DEF Sorted
  <2>3. Atomic!Acceptable(side, limit, o[i].price)
    BY <1>2
  <2>4. o[i].price \in Int /\ o[j].price \in Int
    BY <1>1, <2>1
  <2>5. Atomic!Acceptable(side, limit, o[j].price)
    BY <2>2, <2>3, <2>4
       DEF Atomic!Acceptable, Atomic!AtLeastAsGood, Opposite, Sides
  <2> QED  BY <1>2, <2>1, <2>5
<1>5. Cardinality(S) \in 0 .. Len(o) /\ S = 1 .. Cardinality(S)
  BY <1>1, <1>3, <1>4, InitialSegment
<1>6. r = Cardinality(S)
  BY <1>2, SameCount DEF Atomic!Reach
<1>7. \A i \in 1 .. Len(o) : i <= r <=> i \in S
  BY <1>5, <1>6
<1> QED  BY <1>1, <1>2, <1>5, <1>6, <1>7

\* An order joins behind the first ones that are as good.
LEMMA JoinedIs ==
    ASSUME NEW side \in Sides, NEW own \in Seq(Listed), Sorted(side, own),
           NEW o, o.price \in Int
    PROVE  \E c \in 0 .. Len(own) :
              /\ \A i \in 1 .. Len(own) :
                    i <= c <=> Atomic!AtLeastAsGood(side, own[i].price, o.price)
              /\ Atomic!Joined(side, own, o) = Atomic!InsertAt(own, c + 1, o)
<1>1. /\ Len(own) \in Nat /\ DOMAIN own = 1 .. Len(own)
      /\ \A i \in 1 .. Len(own) : own[i].price \in Int
  BY ListedFacts
<1>2. PICK S : S = {i \in DOMAIN own :
                      Atomic!AtLeastAsGood(side, own[i].price, o.price)}
  OBVIOUS
<1>3. S \in SUBSET (1 .. Len(own))
  BY <1>1, <1>2
<1>4. \A i \in S : \A j \in 1 .. i : j \in S
  <2> SUFFICES ASSUME NEW i \in S, NEW j \in 1 .. i
               PROVE  j \in S
    OBVIOUS
  <2>1. i \in DOMAIN own /\ j \in DOMAIN own /\ j <= i
    BY <1>1, <1>3
  <2>2. Atomic!AtLeastAsGood(side, own[j].price, own[i].price)
    BY <2>1 DEF Sorted
  <2>3. Atomic!AtLeastAsGood(side, own[i].price, o.price)
    BY <1>2
  <2>4. own[i].price \in Int /\ own[j].price \in Int
    BY <1>1, <2>1
  <2>5. Atomic!AtLeastAsGood(side, own[j].price, o.price)
    BY <2>2, <2>3, <2>4 DEF Atomic!AtLeastAsGood
  <2> QED  BY <1>2, <2>1, <2>5
<1>5. PICK c \in 0 .. Len(own) : c = Cardinality(S) /\ S = 1 .. c
  BY <1>1, <1>3, <1>4, InitialSegment
<1>6. \A i \in 1 .. Len(own) : i <= c <=> i \in S
  <2>1. c \in Nat /\ \A i \in 1 .. Len(own) : i <= c <=> i \in 1 .. c
    BY <1>1
  <2> QED  BY <1>5, <2>1
<1>7. Atomic!Joined(side, own, o) = Atomic!InsertAt(own, c + 1, o)
  BY <1>2, <1>5, SameCount DEF Atomic!Joined
<1> QED  BY <1>1, <1>2, <1>6, <1>7

----------------------------------------------------------------------------
(* The head of the line.                                                   *)

LEMMA HeadOfLine ==
    ASSUME StoreInv, NEW side \in Sides, NEW L, IsLine(side, L),
           NEW bp, IsBest(side, bp)
    PROVE  L # <<>> /\ L[1] = Head(queue[side][bp])
<1>1. /\ bp \in index[side] /\ bp \in Prices
      /\ \A q \in index[side] : IF side = "Bid" THEN q <= bp ELSE bp <= q
  BY DEF IsBest, StoreInv, StoreType
<1>2. PICK h : /\ h = Head(queue[side][bp]) /\ h = queue[side][bp][1]
               /\ h \in Locs /\ slot[h] \in Orders /\ slot[h].side = side
               /\ slot[h].price = bp
  BY <1>1, HeadIsLive
<1>3. slot[h] # NIL
  BY <1>2, NilIsNoRecord
<1>4. PICK n \in DOMAIN L : L[n] = h
  BY <1>2, <1>3 DEF IsLine, Line, LiveOn
<1>5. PICK o : o = ListOf(slot, L)
  OBVIOUS
<1>6. /\ Len(L) \in Nat /\ DOMAIN L = 1 .. Len(L) /\ DOMAIN o = 1 .. Len(L)
      /\ \A i \in 1 .. Len(L) :
            /\ L[i] \in Locs /\ slot[L[i]] \in Orders
            /\ slot[L[i]].side = side /\ slot[L[i]].price \in Prices
            /\ slot[L[i]].price \in Int /\ o[i].price = slot[L[i]].price
  BY <1>5, ListingFacts DEF ListsLine
<1>7. 1 \in DOMAIN L /\ L # <<>> /\ n \in 1 .. Len(L)
  BY <1>4, <1>6
<1>8. slot[L[1]].price = bp
  <2>1. Atomic!AtLeastAsGood(side, slot[L[1]].price, bp)
    BY <1>2, <1>4, <1>5, <1>6, <1>7, LineSorted DEF Sorted
  <2>2. slot[L[1]].price \in index[side]
    <3>1. LiveOn(slot, side, L[1]) /\ L[1] \in Locs
      BY <1>6, <1>7 DEF IsLine, Line
    <3>2. PICK a : IsPlace(side, a, L[1])
      BY <3>1, HasPlace, StoreIsListable
    <3>3. a[1] = slot[L[1]].price /\ a[1] \in Prices
            /\ a[2] \in DOMAIN queue[side][a[1]]
      BY <3>2, PlaceFacts, StoreIsListable DEF IsPlace
    <3>4. queue[side][a[1]] # <<>>
      BY <3>3
    <3> QED  BY <3>3, <3>4 DEF StoreInv, IndexExact
  <2>3. IF side = "Bid" THEN slot[L[1]].price <= bp ELSE bp <= slot[L[1]].price
    BY <1>1, <2>2
  <2>4. bp \in Int /\ slot[L[1]].price \in Int
    BY <1>2, <1>4, <1>6, <1>7
  <2> QED  BY <2>1, <2>3, <2>4 DEF Atomic!AtLeastAsGood
<1>9. n = 1
  <2> SUFFICES ASSUME n # 1
               PROVE  FALSE
    OBVIOUS
  <2>1. 1 < n
    BY <1>7
  <2>2. GoesBefore(slot, queue[side], side, L[1], h)
    BY <1>4, <1>7, <2>1 DEF IsLine, Line
  <2> DEFINE q == queue[side][bp]
  <2>3. Earlier(q, L[1], h)
    BY <1>2, <1>8, <2>2 DEF GoesBefore
  <2>4. PICK i \in DOMAIN q, j \in DOMAIN q : i < j /\ q[i] = L[1] /\ q[j] = h
    BY <2>3 DEF Earlier
  <2>5. DOMAIN q = 1 .. Len(q) /\ Len(q) \in Nat
          /\ \A c, d \in 1 .. Len(q) : q[c] = q[d] => c = d
    <3>1. PICK k : k = queue[side][bp]
      OBVIOUS
    <3>2. /\ k \in Seq(Locs) /\ Len(k) \in Nat /\ DOMAIN k = 1 .. Len(k)
          /\ \A c, d \in 1 .. Len(k) : k[c] = k[d] => c = d
      <4>1. bp \in Prices
        BY <1>1
      <4> QED  BY <3>1, <4>1, LevelFacts
    <3> QED  BY <3>1, <3>2
  <2>6. 1 \in 1 .. Len(q) /\ j \in 1 .. Len(q) /\ i \in 1 .. Len(q) /\ q[1] = h
    BY <1>2, <2>4, <2>5
  <2>7. j = 1
    BY <2>4, <2>5, <2>6
  <2> QED  BY <2>4, <2>6, <2>7
<1> QED  BY <1>2, <1>4, <1>7, <1>9

LEMMA FrontIsBest ==
    ASSUME StoreInv, NEW side \in Sides, NEW L, IsLine(side, L), L # <<>>
    PROVE  IsBest(side, slot[L[1]].price)
<1>1. L \in Seq(Locs)
  BY DEF IsLine, Line
<1>2. L[1] \in Locs /\ LiveOn(slot, side, L[1])
  BY <1>1 DEF IsLine, Line
<1>3. PICK a : IsPlace(side, a, L[1])
  BY <1>2, HasPlace, StoreIsListable
<1>4. a[1] \in Prices /\ a[2] \in DOMAIN queue[side][a[1]]
  BY <1>3, PlaceFacts, StoreIsListable DEF IsPlace
<1>5. a[1] \in index[side]
  <2>1. queue[side][a[1]] # <<>>
    BY <1>4
  <2> QED  BY <1>4, <2>1 DEF StoreInv, IndexExact
<1>6. PICK bp \in index[side] : IsBest(side, bp)
  <2>1. index \in [Sides -> SUBSET Prices] /\ index[side] # {}
    BY <1>5 DEF StoreInv, StoreType
  <2> QED  BY <2>1, BestExists
<1>7. L[1] = Head(queue[side][bp])
  BY <1>6, HeadOfLine
<1>8. slot[Head(queue[side][bp])].price = bp
  BY <1>6, HeadIsLive
<1> QED  BY <1>6, <1>7, <1>8
----------------------------------------------------------------------------
(* What a step of the store does to the book that is listed.               *)

LinesAre(LL) ==
    LL \in [Sides -> Seq(Locs)] /\ \A s \in Sides : IsLine(s, LL[s])

\* Both sides have their line.
Lined == \E LL \in [Sides -> Seq(Locs)] : LinesAre(LL)

LEMMA RestingLists ==
    \A LL \in [Sides -> Seq(Locs)] :
       Listable /\ LinesAre(LL) =>
         Resting = [s \in Sides |-> ListOf(slot, LL[s])]
<1> SUFFICES ASSUME NEW LL \in [Sides -> Seq(Locs)], Listable, LinesAre(LL)
             PROVE  Resting = [s \in Sides |-> ListOf(slot, LL[s])]
  OBVIOUS
<1>1. \A s \in Sides : RestingOrders(s) = ListOf(slot, LL[s])
  BY RestingIs DEF LinesAre
<1>2. Resting = [s \in Sides |-> RestingOrders(s)]
  BY DEF Resting, Sides
<1> QED  BY <1>1, <1>2

LEMMA RestingBook ==
    \A LL \in [Sides -> Seq(Locs)] :
       StoreInv /\ LinesAre(LL) =>
         Resting = [s \in Sides |-> ListOf(slot, LL[s])]
BY RestingLists, StoreIsListable

LEMMA RestingBookAfter ==
    (\A LL \in [Sides -> Seq(Locs)] :
       StoreInv /\ LinesAre(LL) =>
         Resting = [s \in Sides |-> ListOf(slot, LL[s])])'
BY RestingBook, PTL

LEMMA RestingType ==
    ASSUME StoreInv, NEW LL, LinesAre(LL)
    PROVE  /\ Resting \in Books /\ DOMAIN Resting = Sides
           /\ \A s \in Sides : /\ Resting[s] = ListOf(slot, LL[s])
                               /\ Sorted(s, Resting[s])
<1>1. LL \in [Sides -> Seq(Locs)] /\ \A s \in Sides : IsLine(s, LL[s])
  BY DEF LinesAre
<1>2. Resting = [s \in Sides |-> ListOf(slot, LL[s])]
  BY <1>1, RestingBook
<1>3. \A s \in Sides : ListOf(slot, LL[s]) \in Seq(Listed)
  BY <1>1, ListingFacts DEF ListsLine
<1>4. \A s \in Sides : Sorted(s, ListOf(slot, LL[s]))
  BY <1>1, LineSorted
<1> QED  BY <1>2, <1>3, <1>4 DEF Books

\* The lines after a step, and the book they list.
LEMMA LinedAfter ==
    ASSUME StoreInv', NEW MM \in [Sides -> Seq(Locs)],
           \A s \in Sides : Line(slot', queue'[s], s, MM[s])
    PROVE  Lined' /\ Resting' = [s \in Sides |-> ListOf(slot', MM[s])]
<1>1. LinesAre(MM)'
  BY DEF LinesAre, IsLine
<1> QED  BY <1>1, RestingBookAfter DEF Lined

\* An order that leaves the store leaves the listing.
IsListedAt(LL, l, s, n) ==
    /\ LinesAre(LL) /\ l \in Locs /\ slot[l] # NIL
    /\ s = slot[l].side /\ n \in DOMAIN LL[s] /\ LL[s][n] = l

\* The lines of the sides once l has left.
LinesWithout(LL, s, n, M) ==
    /\ M \in Seq(Locs) /\ Drops(LL[s], M, n)
    /\ \A z \in Sides :
          Line(slot', queue'[z], z, IF z = s THEN M ELSE LL[z])

LEMMA LeavesLines ==
    ASSUME StoreInv, NEW LL, NEW l, NEW s, NEW n,
           IsListedAt(LL, l, s, n), NEW i, NEW q2, LeavesLevel(l, i, q2)
    PROVE  \E M : LinesWithout(LL, s, n, M)
<1> USE DEF IsListedAt
<1>1. /\ slot[l] \in Orders /\ s \in Sides /\ slot[l].price \in Prices
      /\ \A k \in Locs : slot'[k] = IF k = l THEN NIL ELSE slot[k]
  BY LeavesLevels DEF StoreInv, StoreType, Orders
<1>0. s \in Sides
  BY <1>1
<1>2. PICK L \in Seq(Locs) : L = LL[s] /\ IsLine(s, L) /\ L[n] = l /\ n \in DOMAIN L
  BY <1>0 DEF LinesAre
<1>4. \A j \in DOMAIN L : slot[L[j]].price \in Prices
  BY <1>2 DEF IsLine, Line, LiveOn, StoreInv, StoreType, Orders
<1>5. PICK M \in Seq(Locs) : Drops(L, M, n)
  BY <1>2, RemoveAtDrops
<1>6. PICK p0 \in Prices : p0 = slot[l].price
  BY <1>1
<1>7. /\ queue' = [queue EXCEPT ![s][p0] = q2] /\ queue \in [Sides -> [Prices -> Seq(Locs)]]
      /\ i \in DOMAIN queue[s][p0] /\ queue[s][p0][i] = l
      /\ q2 \in Seq(Locs) /\ Drops(queue[s][p0], q2, i)
  BY <1>6 DEF LeavesLevel, StoreInv, StoreType
<1>8. \A p \in Prices : \A k, m :
         Earlier(queue[s][p], k, m) /\ k # l /\ m # l => Earlier(queue'[s][p], k, m)
  <2> SUFFICES ASSUME NEW p \in Prices, NEW k, NEW m, Earlier(queue[s][p], k, m),
                      k # l, m # l
               PROVE  Earlier(queue'[s][p], k, m)
    OBVIOUS
  <2>1. CASE p = p0
    <3>1. queue[s][p] \in Seq(Locs) /\ queue'[s][p] = q2
      BY <1>1, <1>7, <2>1
    <3> QED  BY <1>7, <2>1, <3>1, EarlierDrops
  <2>2. CASE p # p0
    <3>1. queue'[s][p] = queue[s][p]
      BY <1>1, <1>7, <2>2
    <3> QED  BY <3>1
  <2> QED  BY <2>1, <2>2
<1>9. Line(slot', queue'[s], s, M)
  <2>1. Line(slot, queue[s], s, L) /\ n \in DOMAIN L
    BY <1>2 DEF IsLine
  <2>2. \A k \in Locs : slot'[k] = IF k = L[n] THEN NIL ELSE slot[k]
    BY <1>1, <1>2
  <2>4. \A p \in Prices : \A k, m :
           Earlier(queue[s][p], k, m) /\ k # L[n] /\ m # L[n]
             => Earlier(queue'[s][p], k, m)
    BY <1>2, <1>8
  <2>5. LosesOne(slot, queue[s], L, slot', queue'[s], M, n)
    BY <1>4, <1>5, <2>1, <2>2, <2>4 DEF LosesOne
  <2> QED  BY <2>1, <2>5, LineDrops
<1>10. ASSUME NEW z \in Sides, z # s
       PROVE  Line(slot', queue'[z], z, LL[z])
  <2>1. queue'[z] = queue[z]
    BY <1>1, <1>7, <1>10
  <2>2. Line(slot, queue[z], z, LL[z])
    BY DEF LinesAre, IsLine
  <2>3. \A k \in Locs : /\ LiveOn(slot', z, k) <=> LiveOn(slot, z, k)
                        /\ LiveOn(slot, z, k) => slot'[k].price = slot[k].price
    BY <1>1, <1>10 DEF LiveOn
  <2> QED  BY <2>1, <2>2, <2>3, LineSame
<1> QED  BY <1>2, <1>5, <1>9, <1>10 DEF LinesWithout

LEMMA LeavesBook ==
    ASSUME StoreInv, StoreInv', NEW LL, NEW l, NEW s, NEW n,
           IsListedAt(LL, l, s, n), NEW i, NEW q2, Leaves(l, i, q2),
           NEW o2 \in Seq(Listed), Drops(Resting[s], o2, n)
    PROVE  Lined' /\ Resting' = [Resting EXCEPT ![s] = o2]
<1> USE DEF IsListedAt
<1>1. /\ slot[l] \in Orders /\ s \in Sides /\ slot[l].price \in Prices
      /\ \A k \in Locs : slot'[k] = IF k = l THEN NIL ELSE slot[k]
  BY LeavesStore DEF StoreInv, StoreType, Orders
<1>0. s \in Sides
  BY <1>1
<1>2. PICK L \in Seq(Locs) : L = LL[s] /\ IsLine(s, L) /\ L[n] = l /\ n \in DOMAIN L
  BY <1>0 DEF LinesAre
<1>3. PICK o : o = ListOf(slot, L) /\ o = Resting[s]
  BY <1>0, <1>2, RestingType
<1>4. /\ Len(L) \in Nat /\ DOMAIN L = 1 .. Len(L) /\ Len(o) = Len(L)
      /\ \A j \in 1 .. Len(L) :
            L[j] \in Locs /\ slot[L[j]].price \in Prices /\ o[j] = OrderAt(slot, L[j])
  <2>1. ListsLine(s, L, o)
    <3>1. IsLine(s, L) /\ o = ListOf(slot, L)
      BY <1>2, <1>3
    <3> QED  BY <1>0, <3>1, ListingFacts
  <2> QED  BY <2>1 DEF ListsLine
<1>5. PICK M : LinesWithout(LL, s, n, M)
  BY LeavesLines DEF Leaves
<1>6. M \in Seq(Locs) /\ Drops(L, M, n)
  BY <1>2, <1>5 DEF LinesWithout
<1>11. PICK MM \in [Sides -> Seq(Locs)] : MM = [LL EXCEPT ![s] = M]
  BY <1>6 DEF LinesAre
<1>12. MM[s] = M /\ \A z \in Sides : z # s => MM[z] = LL[z]
  BY <1>1, <1>11 DEF LinesAre
<1>13. Lined' /\ Resting' = [z \in Sides |-> ListOf(slot', MM[z])]
  <2>1. \A z \in Sides : Line(slot', queue'[z], z, MM[z])
    BY <1>5, <1>12 DEF LinesWithout
  <2> QED  BY <2>1, LinedAfter
<1>14. ListOf(slot', M) = o2
  <2>1. \A j \in 1 .. Len(L) : L[j] = l => j = n
    <3>1. \A a, b \in DOMAIN L : L[a] = L[b] => a = b
      BY <1>2 DEF IsLine, Line
    <3> QED  BY <1>2, <1>4, <3>1
  <2>2. /\ n \in 1 .. Len(L) /\ Len(M) = Len(L) - 1 /\ Len(o2) = Len(L) - 1
        /\ \A j \in 1 .. (Len(L) - 1) :
              /\ M[j] = IF j < n THEN L[j] ELSE L[j + 1]
              /\ o2[j] = IF j < n THEN o[j] ELSE o[j + 1]
    BY <1>2, <1>3, <1>4, <1>6 DEF Drops
  <2>3. ASSUME NEW j \in 1 .. (Len(L) - 1)
        PROVE  OrderAt(slot', M[j]) = o2[j]
    <3>1. PICK m \in 1 .. Len(L) : m # n /\ M[j] = L[m] /\ o2[j] = o[m]
      <4>1. CASE j < n
        <5>1. j \in 1 .. Len(L) /\ j # n
          BY <1>4, <2>2, <4>1
        <5>2. M[j] = L[j] /\ o2[j] = o[j]
          BY <2>2, <4>1
        <5> QED  BY <5>1, <5>2
      <4>2. CASE ~(j < n)
        <5>1. j + 1 \in 1 .. Len(L) /\ j + 1 # n
          BY <1>4, <2>2, <4>2
        <5>2. M[j] = L[j + 1] /\ o2[j] = o[j + 1]
          BY <2>2, <4>2
        <5> QED  BY <5>1, <5>2
      <4> QED  BY <4>1, <4>2
    <3>2. slot'[L[m]] = slot[L[m]]
      BY <1>1, <1>4, <2>1, <3>1
    <3> QED  BY <1>4, <3>1, <3>2 DEF OrderAt
  <2>4. o2 = [j \in 1 .. (Len(L) - 1) |-> o2[j]]
    BY <2>2
  <2> QED  BY <2>2, <2>3, <2>4 DEF ListOf
<1>15. ASSUME NEW z \in Sides, z # s
       PROVE  ListOf(slot', LL[z]) = Resting[z]
  <2>1. Resting[z] = ListOf(slot, LL[z]) /\ IsLine(z, LL[z])
    BY RestingType DEF LinesAre
  <2>2. \A j \in 1 .. Len(LL[z]) : LL[z][j] \in Locs /\ slot[LL[z][j]].side = z
    BY <2>1, ListingFacts DEF ListsLine
  <2>3. \A j \in 1 .. Len(LL[z]) : slot'[LL[z][j]] = slot[LL[z][j]]
    BY <1>1, <1>15, <2>2
  <2> QED  BY <2>1, <2>3 DEF ListOf, OrderAt
<1>16. Resting' = [Resting EXCEPT ![s] = o2]
  <2>1. DOMAIN Resting = Sides /\ Resting \in Books
    BY RestingType
  <2>2. PICK B \in Books : B = Resting
    BY <2>1
  <2>3. \A z \in Sides : ListOf(slot', MM[z]) = IF z = s THEN o2 ELSE B[z]
    BY <1>12, <1>14, <1>15, <2>2
  <2>4. [B EXCEPT ![s] = o2] = [z \in Sides |-> IF z = s THEN o2 ELSE B[z]]
    BY <1>0 DEF Books
  <2> QED  BY <1>13, <2>2, <2>3, <2>4
<1> QED  BY <1>13, <1>16

\* The book is listed the same when slots and queues are the same.
LEMMA SameBook ==
    ASSUME StoreInv, StoreInv', Lined, UNCHANGED <<queue, slot>>
    PROVE  Lined' /\ Resting' = Resting
<1>1. PICK LL \in [Sides -> Seq(Locs)] : LinesAre(LL)
  BY DEF Lined
<1>2. \A s \in Sides : Line(slot', queue'[s], s, LL[s])
  BY <1>1 DEF LinesAre, IsLine
<1>3. Lined' /\ Resting' = [s \in Sides |-> ListOf(slot', LL[s])]
  BY <1>2, LinedAfter
<1>4. Resting = [s \in Sides |-> ListOf(slot, LL[s])]
  BY <1>1, RestingBook
<1> QED  BY <1>3, <1>4

\* Listing o2 is o with another quantity for the n-th.
Resized(o, o2, n, r) ==
    /\ Len(o2) = Len(o)
    /\ \A j \in 1 .. Len(o) :
          o2[j] = IF j = n THEN [id |-> o[n].id, price |-> o[n].price,
                                 qty |-> r, tif |-> o[n].tif]
                  ELSE o[j]

\* An order whose quantity changes keeps its place.
\* The order at location l gets quantity r.
Resizes(l, r) ==
    /\ slot' = [slot EXCEPT ![l] = [slot[l] EXCEPT !.qty = r]]
    /\ UNCHANGED queue

LEMMA ResizeBook ==
    ASSUME StoreInv, StoreInv', NEW LL, NEW l, NEW s, NEW n,
           IsListedAt(LL, l, s, n), NEW r \in LiveQtys, Resizes(l, r),
           NEW o2 \in Seq(Listed), Resized(Resting[s], o2, n, r)
    PROVE  Lined' /\ Resting' = [Resting EXCEPT ![s] = o2]
<1> USE DEF IsListedAt, Resizes
<1> DEFINE x == slot[l]
           y == [x EXCEPT !.qty = r]
<1>1. x \in Orders /\ slot \in [Locs -> Orders \cup {NIL}]
  BY DEF StoreInv, StoreType
<1>2. /\ y \in Orders /\ y.id = x.id /\ y.side = x.side /\ y.price = x.price
      /\ y.tif = x.tif /\ y.qty = r /\ s \in Sides
  BY <1>1 DEF Orders
<1>3. \A k \in Locs : slot'[k] = IF k = l THEN y ELSE slot[k]
  BY <1>1
<1>4. y # NIL
  BY <1>2, NilIsNoRecord
<1> HIDE DEF x, y
<1>5. \A k \in Locs : /\ slot'[k] = NIL <=> slot[k] = NIL
                      /\ slot[k] # NIL => /\ slot'[k].side = slot[k].side
                                          /\ slot'[k].price = slot[k].price
  BY <1>2, <1>3, <1>4 DEF x
<1>6. LL \in [Sides -> Seq(Locs)] /\ \A z \in Sides : IsLine(z, LL[z])
  BY DEF LinesAre
<1>7. \A z \in Sides : Line(slot', queue'[z], z, LL[z])
  <2>1. SUFFICES ASSUME NEW z \in Sides
                 PROVE  Line(slot', queue[z], z, LL[z])
    BY <2>1
  <2>2. Line(slot, queue[z], z, LL[z])
    BY <1>6 DEF IsLine
  <2>3. \A k \in Locs : /\ LiveOn(slot', z, k) <=> LiveOn(slot, z, k)
                        /\ LiveOn(slot, z, k) => slot'[k].price = slot[k].price
    BY <1>5 DEF LiveOn
  <2> QED  BY <2>2, <2>3, LineSame
<1>8. Lined' /\ Resting' = [z \in Sides |-> ListOf(slot', LL[z])]
  BY <1>6, <1>7, LinedAfter
<1>9. \A z \in Sides : Resting[z] = ListOf(slot, LL[z])
  BY <1>6, RestingType
<1>10. ListOf(slot', LL[s]) = o2
  <2>1. PICK L : L = LL[s]
    OBVIOUS
  <2>2. PICK o : o = Resting[s] /\ o = ListOf(slot, L)
    BY <1>2, <1>9, <2>1
  <2>3. ListsLine(s, L, o)
    <3>1. IsLine(s, L)
      BY <1>2, <1>6, <2>1
    <3> QED  BY <1>2, <2>2, <3>1, ListingFacts
  <2>4. \A i, j \in DOMAIN L : L[i] = L[j] => i = j
    BY <1>2, <1>6, <2>1 DEF IsLine, Line
  <2>5. /\ n \in 1 .. Len(L) /\ Len(o) = Len(L) /\ Len(o2) = Len(L)
        /\ DOMAIN L = 1 .. Len(L)
        /\ \A j \in 1 .. Len(L) : L[j] \in Locs /\ o[j] = OrderAt(slot, L[j])
    BY <2>1, <2>2, <2>3 DEF ListsLine, Resized
  <2>6. ASSUME NEW j \in 1 .. Len(L)
        PROVE  OrderAt(slot', L[j]) = o2[j]
    <3>1. CASE j = n
      <4>1. slot'[L[j]] = y
        BY <1>3, <2>1, <3>1
      <4>2. o[n] = [id |-> x.id, price |-> x.price, qty |-> x.qty, tif |-> x.tif]
        BY <2>1, <2>5 DEF OrderAt, x
      <4>3. o2[j] = [id |-> x.id, price |-> x.price, qty |-> r, tif |-> x.tif]
        BY <2>2, <2>5, <3>1, <4>2 DEF Resized
      <4> QED  BY <1>2, <4>1, <4>3 DEF OrderAt
    <3>2. CASE j # n
      <4>1. L[j] # l
        BY <2>1, <2>4, <2>5, <3>2
      <4>2. slot'[L[j]] = slot[L[j]]
        BY <1>3, <2>5, <4>1
      <4>3. o2[j] = o[j]
        BY <2>2, <2>5, <3>2 DEF Resized
      <4> QED  BY <2>5, <4>2, <4>3 DEF OrderAt
    <3> QED  BY <3>1, <3>2
  <2>7. o2 = [j \in 1 .. Len(L) |-> o2[j]]
    BY <2>5
  <2> QED  BY <2>1, <2>6, <2>7 DEF ListOf
<1>11. ASSUME NEW z \in Sides, z # s
       PROVE  ListOf(slot', LL[z]) = Resting[z]
  <2>1. IsLine(z, LL[z]) /\ Resting[z] = ListOf(slot, LL[z])
    BY <1>6, <1>9
  <2>2. ListsLine(z, LL[z], Resting[z])
    BY <2>1, ListingFacts
  <2>3. \A j \in 1 .. Len(LL[z]) : LL[z][j] \in Locs /\ slot[LL[z][j]].side = z
    BY <2>2 DEF ListsLine
  <2>4. \A j \in 1 .. Len(LL[z]) : slot'[LL[z][j]] = slot[LL[z][j]]
    BY <1>2, <1>3, <1>11, <2>3 DEF x
  <2> QED  BY <2>1, <2>4 DEF ListOf, OrderAt
<1>12. PICK B \in Books : B = Resting
  BY RestingType
<1>13. \A z \in Sides : ListOf(slot', LL[z]) = IF z = s THEN o2 ELSE B[z]
  BY <1>10, <1>11, <1>12
<1>14. [B EXCEPT ![s] = o2] = [z \in Sides |-> IF z = s THEN o2 ELSE B[z]]
  BY <1>2 DEF Books
<1> QED  BY <1>8, <1>12, <1>13, <1>14

\* An order that comes to rest joins the listing.
LEMMA RestBook ==
    ASSUME StoreInv, StoreInv', Lined, NEW o \in Orders, NEW l \in Locs,
           Rest(l, o), NEW a, a = [id |-> o.id, price |-> o.price,
                                   qty |-> o.qty, tif |-> o.tif]
    PROVE  /\ Lined'
           /\ Resting' = [Resting EXCEPT ![o.side] = Atomic!Joined(o.side, @, a)]
<1>1. /\ o.side \in Sides /\ o.price \in Prices /\ o.price \in Int
      /\ o.qty \in LiveQtys /\ o.id \in Ids /\ o.tif \in Tifs
      /\ a \in Listed /\ a.price = o.price /\ o # NIL
  BY PricesAreTicks, NilIsNoRecord DEF Orders, Prices, Listed
<1>2. PICK s \in Sides, p \in Prices : s = o.side /\ p = o.price
  BY <1>1
<1>3. PICK LL \in [Sides -> Seq(Locs)] : LinesAre(LL)
  BY DEF Lined
<1>4. \A z \in Sides : IsLine(z, LL[z])
  BY <1>3 DEF LinesAre
<1>5. PICK L \in Seq(Locs) : L = LL[s] /\ IsLine(s, L)
  BY <1>3, <1>4
<1>6. /\ Resting \in Books /\ DOMAIN Resting = Sides
      /\ \A z \in Sides : /\ Resting[z] = ListOf(slot, LL[z])
                          /\ Sorted(z, Resting[z])
  BY <1>3, RestingType
<1>7. PICK own \in Seq(Listed) : own = Resting[s] /\ own = ListOf(slot, L)
  BY <1>5, <1>6 DEF Books
<1>8. ListsLine(s, L, own)
  BY <1>5, <1>7, ListingFacts
<1>9. PICK c \in 0 .. Len(own) :
         /\ \A i \in 1 .. Len(own) :
               i <= c <=> Atomic!AtLeastAsGood(s, own[i].price, p)
         /\ Atomic!Joined(s, own, a) = Atomic!InsertAt(own, c + 1, a)
  <2>1. Sorted(s, own) /\ a.price \in Int /\ a.price = p
    BY <1>1, <1>2, <1>6, <1>7
  <2> QED  BY <2>1, JoinedIs
<1>10. /\ Len(own) = Len(L) /\ Len(L) \in Nat /\ DOMAIN L = 1 .. Len(L)
       /\ c \in 0 .. Len(L)
       /\ \A i \in 1 .. Len(L) :
             /\ L[i] \in Locs /\ slot[L[i]] \in Orders /\ slot[L[i]].side = s
             /\ slot[L[i]].price \in Prices /\ own[i] = OrderAt(slot, L[i])
             /\ own[i].price = slot[L[i]].price
  BY <1>8, <1>9 DEF ListsLine
<1>11. PICK M \in Seq(Locs) : Inserted(L, M, c, l)
  BY <1>10, InsertAtAdds
<1>12. PICK o2 \in Seq(Listed) : o2 = Atomic!Joined(s, own, a) /\ Inserted(own, o2, c, a)
  BY <1>1, <1>9, InsertAtAdds
<1>13. /\ \A k \in Locs : slot'[k] = IF k = l THEN o ELSE slot[k]
       /\ slot[l] = NIL
       /\ queue' = [queue EXCEPT ![s][p] = Append(@, l)]
       /\ queue \in [Sides -> [Prices -> Seq(Locs)]]
  <2>1. queue' = Joined(s, p, l) /\ slot[l] = NIL
    BY <1>2 DEF Rest
  <2> QED  BY <2>1, RestStore DEF Joined, StoreInv, StoreType
<1>14. \A r \in Prices : queue'[s][r] = IF r = p THEN Append(queue[s][p], l)
                                        ELSE queue[s][r]
  BY <1>13
<1>15. Line(slot', queue'[s], s, M)
  <2>1. Line(slot, queue[s], s, L)
    BY <1>5 DEF IsLine
  <2>2. \A i \in DOMAIN L : slot[L[i]].price \in Prices
    BY <1>10
  <2>3. \A i \in DOMAIN L : i <= c <=> Atomic!AtLeastAsGood(s, slot[L[i]].price, p)
    BY <1>9, <1>10
  <2>4. \A r \in Prices : \A k, m :
           Earlier(queue[s][r], k, m) => Earlier(queue'[s][r], k, m)
    <3> SUFFICES ASSUME NEW r \in Prices, NEW k, NEW m, Earlier(queue[s][r], k, m)
                 PROVE  Earlier(queue'[s][r], k, m)
      OBVIOUS
    <3>1. CASE r = p
      <4>1. queue[s][p] \in Seq(Locs) /\ queue'[s][r] = Append(queue[s][p], l)
        BY <1>13, <1>14, <3>1
      <4> QED  BY <3>1, <4>1, EarlierAppend
    <3>2. CASE r # p
      BY <1>14, <3>2
    <3> QED  BY <3>1, <3>2
  <2>5. ASSUME NEW i \in DOMAIN L, slot[L[i]].price = p
        PROVE  Earlier(queue'[s][p], L[i], l)
    <3>1. queue[s][p] \in Seq(Locs) /\ queue'[s][p] = Append(queue[s][p], l)
      BY <1>13, <1>14
    <3>2. L[i] \in Locs /\ slot[L[i]] # NIL /\ slot[L[i]].side = s
      BY <1>10, NilIsNoRecord
    <3>3. \E j \in DOMAIN queue[s][p] : queue[s][p][j] = L[i]
      BY <2>5, <3>2 DEF StoreInv, LiveAreQueued
    <3> QED  BY <3>1, <3>3, EarlierAppend
  <2>6. GainsOne(slot, queue[s], s, L, slot', queue'[s], M, l, o, p, c)
    BY <1>1, <1>2, <1>10, <1>11, <1>13, <2>2, <2>3, <2>4, <2>5 DEF GainsOne
  <2> QED  BY <2>1, <2>6, LineRests
<1>16. ASSUME NEW z \in Sides, z # s
       PROVE  Line(slot', queue'[z], z, LL[z])
  <2>1. queue'[z] = queue[z]
    BY <1>13, <1>16
  <2>2. Line(slot, queue[z], z, LL[z])
    BY <1>4 DEF IsLine
  <2>3. \A k \in Locs : /\ LiveOn(slot', z, k) <=> LiveOn(slot, z, k)
                        /\ LiveOn(slot, z, k) => slot'[k].price = slot[k].price
    BY <1>2, <1>13, <1>16 DEF LiveOn
  <2> QED  BY <2>1, <2>2, <2>3, LineSame
<1>17. PICK MM \in [Sides -> Seq(Locs)] : MM = [LL EXCEPT ![s] = M]
  BY <1>11
<1>18. MM[s] = M /\ \A z \in Sides : z # s => MM[z] = LL[z]
  BY <1>17
<1>19. Lined' /\ Resting' = [z \in Sides |-> ListOf(slot', MM[z])]
  <2>1. \A z \in Sides : Line(slot', queue'[z], z, MM[z])
    BY <1>15, <1>16, <1>18
  <2> QED  BY <2>1, LinedAfter
<1>20. ListOf(slot', M) = o2
  <2>1. /\ Len(M) = Len(L) + 1 /\ Len(o2) = Len(L) + 1
        /\ \A j \in 1 .. (Len(L) + 1) :
              /\ M[j] = IF j <= c THEN L[j] ELSE IF j = c + 1 THEN l ELSE L[j - 1]
              /\ o2[j] = IF j <= c THEN own[j] ELSE IF j = c + 1 THEN a ELSE own[j - 1]
    BY <1>10, <1>11, <1>12 DEF Inserted
  <2>2. ASSUME NEW j \in 1 .. (Len(L) + 1)
        PROVE  OrderAt(slot', M[j]) = o2[j]
    <3>1. CASE j = c + 1
      <4>1. M[j] = l /\ o2[j] = a
        BY <1>10, <2>1, <3>1
      <4> QED  BY <1>13, <4>1 DEF OrderAt
    <3>2. CASE j # c + 1
      <4>1. PICK m \in 1 .. Len(L) : M[j] = L[m] /\ o2[j] = own[m]
        <5>1. CASE j <= c
          BY <1>10, <2>1, <5>1
        <5>2. CASE ~(j <= c)
          <6>1. j - 1 \in 1 .. Len(L)
            BY <1>10, <3>2, <5>2
          <6> QED  BY <2>1, <3>2, <5>2, <6>1
        <5> QED  BY <5>1, <5>2
      <4>2. slot'[L[m]] = slot[L[m]]
        BY <1>10, <1>13, NilIsNoRecord
      <4> QED  BY <1>10, <4>1, <4>2 DEF OrderAt
    <3> QED  BY <3>1, <3>2
  <2>3. o2 = [j \in 1 .. (Len(L) + 1) |-> o2[j]]
    BY <2>1
  <2> QED  BY <2>1, <2>2, <2>3 DEF ListOf
<1>21. ASSUME NEW z \in Sides, z # s
       PROVE  ListOf(slot', LL[z]) = Resting[z]
  <2>1. IsLine(z, LL[z]) /\ Resting[z] = ListOf(slot, LL[z])
    BY <1>4, <1>6
  <2>2. ListsLine(z, LL[z], Resting[z])
    BY <2>1, ListingFacts
  <2>3. \A j \in 1 .. Len(LL[z]) : slot'[LL[z][j]] = slot[LL[z][j]]
    BY <1>13, <2>2, NilIsNoRecord DEF ListsLine
  <2> QED  BY <2>1, <2>3 DEF ListOf, OrderAt
<1>22. PICK B \in Books : B = Resting
  BY <1>6
<1>23. \A z \in Sides : ListOf(slot', MM[z]) = IF z = s THEN o2 ELSE B[z]
  BY <1>18, <1>20, <1>21, <1>22
<1>24. [B EXCEPT ![s] = Atomic!Joined(s, @, a)]
         = [z \in Sides |-> IF z = s THEN o2 ELSE B[z]]
  BY <1>7, <1>12, <1>22 DEF Books
<1> QED  BY <1>2, <1>19, <1>22, <1>23, <1>24
----------------------------------------------------------------------------
(* The steps of the loop.                                                  *)

LEMMA WithinIs ==
    ASSUME NEW side, NEW limit \in Int \cup {NIL}, NEW p \in Int
    PROVE  Atomic!Acceptable(side, limit, p) <=> Within(side, limit, p)
<1>1. CASE limit = NIL
  BY <1>1 DEF Atomic!Acceptable, Within
<1>2. CASE limit # NIL
  BY <1>2 DEF Atomic!Acceptable, Within
<1> QED  BY <1>1, <1>2

\* While a command crosses, what it has yet to do makes the difference.
Owes(t, b) ==
    /\ Atomic!Settled(b, t).book = orders
    /\ evs \o Atomic!Settled(b, t).events = out
    /\ (seq + Len(Atomic!Settled(b, t).events)) % SeqModulus = number

\* A taker and the book it crosses.
Crossing ==
    /\ BookInv /\ Lined /\ taker # NIL
    /\ PromiseKept

LEMMA CrossingFacts ==
    ASSUME Crossing
    PROVE  /\ taker \in Takers /\ taker.side \in Sides
           /\ taker.qty \in 0 .. (QtyMod - 1) /\ taker.qty \in Nat
           /\ taker.id \in Ids /\ taker.limit \in Int \cup {NIL}
           /\ taker.limit \in Prices \cup {NIL}
           /\ Resting \in Books /\ Owes(taker, Resting)
           /\ StoreInv
<1>1. taker \in Takers /\ StoreInv
  BY DEF Crossing, BookInv, MapInv, MapType
<1>2. /\ taker.side \in Sides /\ taker.qty \in 0 .. (QtyMod - 1)
      /\ taker.id \in Ids /\ taker.limit \in Prices \cup {NIL}
  BY <1>1, TakerFields
<1>3. Resting \in Books
  BY <1>1, RestingType DEF Crossing, Lined
<1>4. Owes(taker, Resting)
  BY DEF Owes, Crossing, PromiseKept, ToCome
<1>5. taker.limit \in Int \cup {NIL} /\ taker.qty \in Nat
  <2>1. Prices \subseteq Int
    BY PricesAreTicks DEF Prices
  <2>2. \A q \in 0 .. (QtyMod - 1) : q \in Nat
    BY QtyWidth
  <2> QED  BY <1>2, <2>1, <2>2
<1> QED  BY <1>1, <1>2, <1>3, <1>4, <1>5

LEMMA ConcatEvents ==
    ASSUME NEW a \in Seq(Events), NEW b \in Seq(Events), NEW c \in Seq(Events)
    PROVE  (a \o b) \o c = a \o (b \o c)
OBVIOUS

\* A step that says the first words of what is to come.
LEMMA SaysFirst ==
    ASSUME evs \in Seq(Events), seq \in Nat, NEW es \in Seq(Events),
           NEW rest \in Seq(Events), Emit(evs, es), UNCHANGED promise,
           evs \o (es \o rest) = out,
           (seq + Len(es \o rest)) % SeqModulus = number
    PROVE  /\ evs' \o rest = out'
           /\ (seq' + Len(rest)) % SeqModulus = number'
<1>1. evs' = evs \o es /\ seq' = (seq + Len(es)) % SeqModulus
        /\ out' = out /\ number' = number
  BY DEF Emit, promise
<1>2. (evs \o es) \o rest = evs \o (es \o rest)
  BY ConcatEvents
<1>3. PICK a \in Nat, b \in Nat : a = Len(es) /\ b = Len(rest)
  OBVIOUS
<1>4. Len(es \o rest) = a + b
  BY <1>3
<1>5. seq + a \in Int /\ b \in Int
  BY <1>3
<1>6. (((seq + a) % SeqModulus) + b) % SeqModulus = ((seq + a) + b) % SeqModulus
  BY <1>5, SeqWidth, ModAdd
<1>7. (seq + a) + b = seq + (a + b)
  BY <1>3
<1> QED  BY <1>1, <1>2, <1>3, <1>4, <1>6, <1>7

LEMMA PromiseAfter ==
    ASSUME taker' # NIL, Owes(taker, Resting)'
    PROVE  PromiseKept'
BY DEF Owes, PromiseKept, ToCome

LEMMA OwesAfter ==
    ASSUME NEW u, u = taker', NEW c, c = Resting',
           Atomic!Settled(c, u).book = orders',
           evs' \o Atomic!Settled(c, u).events = out',
           (seq' + Len(Atomic!Settled(c, u).events)) % SeqModulus = number'
    PROVE  Owes(taker, Resting)'
BY DEF Owes

\* The first order on the other side, when a level is in reach.
AtHead(bp, s, LL, l) ==
    /\ Marketable(bp) /\ s = Opposite(taker.side)
    /\ LinesAre(LL) /\ l = Head(queue[s][bp])

\* Listing o is that of the side the taker meets, and l is its first location.
MeetsFirst(bp, s, LL, l, o) ==
    /\ s \in Sides /\ IsListedAt(LL, l, s, 1)
    /\ slot[l].price = bp /\ slot[l].qty \in LiveQtys /\ slot[l].id \in Ids
    /\ o \in Seq(Listed) /\ o # <<>>
    /\ o = Resting[s] /\ o = Met(Resting, taker)
    /\ o[1] \in Listed /\ o[1].price = bp
    /\ o[1].id = slot[l].id /\ o[1].qty = slot[l].qty
    /\ Atomic!Acceptable(taker.side, taker.limit, o[1].price)

LEMMA FirstInReach ==
    ASSUME Crossing, NEW bp, NEW s, NEW LL, NEW l, AtHead(bp, s, LL, l)
    PROVE  \E o : MeetsFirst(bp, s, LL, l, o)
<1> USE DEF AtHead
<1>1. /\ s \in Sides /\ StoreInv /\ taker.side \in Sides
      /\ taker.limit \in Int \cup {NIL} /\ IsBest(s, bp)
      /\ Within(taker.side, taker.limit, bp)
  BY CrossingFacts, OtherSide DEF Marketable
<1>2. /\ l \in Locs /\ slot[l] \in Orders /\ slot[l] # NIL /\ bp \in Prices
      /\ slot[l].side = s /\ slot[l].price = bp
  BY <1>1, HeadIsLive, NilIsNoRecord DEF IsBest
<1>3. slot[l].qty \in LiveQtys /\ slot[l].id \in Ids
  BY <1>2 DEF Orders
<1>4. PICK L : L = LL[s] /\ IsLine(s, L)
  BY <1>1 DEF LinesAre
<1>5. L # <<>> /\ L[1] = l
  BY <1>1, <1>4, HeadOfLine
<1>6. PICK o : o = Resting[s] /\ o = ListOf(slot, L)
  BY <1>1, <1>4, RestingType
<1>7. ListsLine(s, L, o)
  BY <1>1, <1>4, <1>6, ListingFacts
<1>8. 1 \in DOMAIN L
  <2>1. L \in Seq(Locs)
    BY <1>4 DEF IsLine, Line
  <2> QED  BY <1>5, <2>1
<1>9. /\ o \in Seq(Listed) /\ 1 \in DOMAIN o
      /\ o[1] = OrderAt(slot, l)
      /\ o[1].price = bp /\ o[1].id = slot[l].id /\ o[1].qty = slot[l].qty
  BY <1>2, <1>5, <1>7, <1>8 DEF ListsLine
<1>10. o # <<>>
  BY <1>9
<1>11. Atomic!Acceptable(taker.side, taker.limit, o[1].price)
  <2>1. bp \in Int
    BY <1>2, PricesAreTicks DEF Prices
  <2> QED  BY <1>1, <1>9, <2>1, WithinIs
<1>12. o = Met(Resting, taker)
  BY <1>6 DEF Met
<1>13. o[1] \in Listed
  BY <1>9, ListedFacts
<1>14. IsListedAt(LL, l, s, 1)
  BY <1>2, <1>4, <1>5, <1>8 DEF IsListedAt
<1> QED  BY <1>1, <1>2, <1>3, <1>6, <1>9, <1>10, <1>11, <1>12, <1>13, <1>14
         DEF MeetsFirst

\* A maker that is filled: the loop says so, and owes the rest.
LEMMA FillMakerPromise ==
    ASSUME Crossing, BookInv', taker.qty > 0, NEW bp, Marketable(bp),
           FillMaker(bp), UNCHANGED promise
    PROVE  Lined' /\ PromiseKept'
<1>1. PICK LL \in [Sides -> Seq(Locs)] : LinesAre(LL)
  BY DEF Crossing, Lined
<1>2. PICK s : s = Opposite(taker.side)
  OBVIOUS
<1>3. PICK l : l = Head(queue[s][bp])
  OBVIOUS
<1>4. PICK o : MeetsFirst(bp, s, LL, l, o)
  <2>1. AtHead(bp, s, LL, l)
    BY <1>1, <1>2, <1>3 DEF AtHead
  <2> QED  BY <2>1, FirstInReach
<1>5. /\ s \in Sides /\ o \in Seq(Listed) /\ o # <<>>
      /\ o = Resting[s] /\ o = Met(Resting, taker)
      /\ o[1] \in Listed /\ o[1].price = bp
      /\ o[1].id = slot[l].id /\ o[1].qty = slot[l].qty
      /\ slot[l].qty \in LiveQtys /\ slot[l].id \in Ids
      /\ Atomic!Acceptable(taker.side, taker.limit, o[1].price)
      /\ IsListedAt(LL, l, s, 1)
  BY <1>4 DEF MeetsFirst
<1>6. PICK t \in Takers, b \in Books : t = taker /\ b = Resting
  BY CrossingFacts
<1>7. PICK c : c = [b EXCEPT ![s] = Tail(o)]
  OBVIOUS
<1>8. Lined' /\ Resting' = c
  <2>1. Leaves(l, 1, Tail(queue[s][bp]))
    <3>1. bp \in index[s] /\ StoreInv
      BY <1>2, CrossingFacts DEF Marketable, IsBest
    <3> QED  BY <1>2, <1>3, <3>1, FillMakerLeaves
  <2>2. Tail(o) \in Seq(Listed) /\ Drops(o, Tail(o), 1)
    BY <1>5, TailDrops
  <2>3. StoreInv /\ StoreInv'
    BY CrossingFacts DEF BookInv
  <2>4. PICK q2, o2, n : q2 = Tail(queue[s][bp]) /\ o2 = Tail(o) /\ n = 1
    OBVIOUS
  <2>5. /\ Leaves(l, n, q2) /\ o2 \in Seq(Listed) /\ Drops(Resting[s], o2, n)
        /\ IsListedAt(LL, l, s, n)
    BY <1>5, <2>1, <2>2, <2>4
  <2>6. Lined' /\ Resting' = [Resting EXCEPT ![s] = o2]
    BY <2>3, <2>5, LeavesBook
  <2> QED  BY <1>6, <1>7, <2>4, <2>6
<1>9. PICK u \in Takers : u = taker' /\ u = Reduced(t, o[1].qty)
  <2>1. taker' = [t EXCEPT !.qty = @ - o[1].qty]
    BY <1>2, <1>3, <1>5, <1>6 DEF FillMaker
  <2>2. t.qty - o[1].qty \in 0 .. (QtyMod - 1)
    <3>1. /\ o[1].qty <= t.qty /\ o[1].qty \in 1 .. (QtyMod - 1)
          /\ t.qty \in 0 .. (QtyMod - 1)
      BY <1>2, <1>3, <1>5, <1>6, CrossingFacts DEF FillMaker, LiveQtys
    <3> QED  BY <3>1, QtyWidth
  <2>3. taker' \in Takers
    BY <2>1, <2>2, TakerFilled
  <2> QED  BY <2>1, <2>3 DEF Reduced
<1>10. TakesAll(t, o) /\ o = Met(b, t)
  <2>1. o[1].qty <= t.qty
    BY <1>2, <1>3, <1>5, <1>6 DEF FillMaker
  <2>2. t.qty \in Nat /\ t.id \in Ids
    BY <1>6, CrossingFacts
  <2> QED  BY <1>5, <1>6, <2>1, <2>2 DEF TakesAll
<1>11. PICK es : es = <<Trade(o[1].id, t.id, o[1].price, o[1].qty),
                        Closed(o[1].id, "Filled")>>
  OBVIOUS
<1>12. /\ Atomic!Settled(c, u).book = Atomic!Settled(b, t).book
       /\ Atomic!Settled(b, t).events = es \o Atomic!Settled(c, u).events
  <2>1. MeetsSmaller(b, t, o, u, c)
    BY <1>2, <1>6, <1>7, <1>9, <1>10 DEF MeetsSmaller
  <2> QED  BY <1>11, <2>1, SettledAll
<1>13. Emit(evs, es)
  BY <1>2, <1>3, <1>5, <1>6, <1>11 DEF FillMaker
<1>14. es \in Seq(Events)
  <2>1. Trade(o[1].id, t.id, o[1].price, o[1].qty) \in Events
    <3>1. /\ o[1].id \in Ids /\ o[1].price \in CmdPrices /\ o[1].qty \in LiveQtys
          /\ t.id \in Ids
      BY <1>5, <1>6, CrossingFacts DEF Prices, Listed
    <3> QED  BY <3>1 DEF Trade, Events
  <2>2. Closed(o[1].id, "Filled") \in Events
    BY <1>5 DEF Closed, Events, CloseReasons
  <2> QED  BY <1>11, <2>1, <2>2
<1>15. PICK rest \in Seq(Events) : rest = Atomic!Settled(c, u).events
  <2>1. c \in Books
    BY <1>5, <1>6, <1>7 DEF Books
  <2> QED  BY <1>9, <2>1, SettledType
<1>16. evs' \o rest = out' /\ (seq' + Len(rest)) % SeqModulus = number'
  <2>1. /\ evs \o (es \o rest) = out
        /\ (seq + Len(es \o rest)) % SeqModulus = number
    BY <1>6, <1>12, <1>15, CrossingFacts DEF Owes
  <2>2. evs \in Seq(Events) /\ seq \in Nat
    BY SeqWidth DEF Crossing, BookInv, OutInv
  <2> QED  BY <1>13, <1>14, <2>1, <2>2, SaysFirst
<1>17. Atomic!Settled(c, u).book = orders'
  BY <1>6, <1>12, CrossingFacts DEF Owes, promise
<1>18. Owes(taker, Resting)'
  BY <1>8, <1>9, <1>15, <1>16, <1>17, OwesAfter
<1>19. taker' # NIL
  BY <1>9, NilIsNoRecord
<1> QED  BY <1>8, <1>18, <1>19, PromiseAfter

\* A taker that is filled: nothing is left to owe but its end.
LEMMA FillTakerPromise ==
    ASSUME Crossing, BookInv', taker.qty > 0, NEW bp, Marketable(bp),
           FillTaker(bp), UNCHANGED promise
    PROVE  Lined' /\ PromiseKept'
<1>1. PICK LL \in [Sides -> Seq(Locs)] : LinesAre(LL)
  BY DEF Crossing, Lined
<1>2. PICK s : s = Opposite(taker.side)
  OBVIOUS
<1>3. PICK l : l = Head(queue[s][bp])
  OBVIOUS
<1>4. PICK o : MeetsFirst(bp, s, LL, l, o)
  <2>1. AtHead(bp, s, LL, l)
    BY <1>1, <1>2, <1>3 DEF AtHead
  <2> QED  BY <2>1, FirstInReach
<1>5. /\ s \in Sides /\ o \in Seq(Listed) /\ o # <<>>
      /\ o = Resting[s] /\ o = Met(Resting, taker)
      /\ o[1] \in Listed /\ o[1].price = bp
      /\ o[1].id = slot[l].id /\ o[1].qty = slot[l].qty
      /\ slot[l].qty \in LiveQtys /\ slot[l].id \in Ids
      /\ Atomic!Acceptable(taker.side, taker.limit, o[1].price)
      /\ IsListedAt(LL, l, s, 1)
  BY <1>4 DEF MeetsFirst
<1>6. PICK t \in Takers, b \in Books : t = taker /\ b = Resting
  BY CrossingFacts
<1>7. PICK r \in LiveQtys : /\ r = o[1].qty - t.qty
                            /\ t.qty \in Nat \ {0} /\ t.qty < o[1].qty
                            /\ t.qty \in 0 .. (QtyMod - 1) /\ t.id \in Ids
  <2>1. /\ t.qty < o[1].qty /\ t.qty \in 0 .. (QtyMod - 1) /\ t.qty > 0
        /\ o[1].qty \in 1 .. (QtyMod - 1) /\ t.id \in Ids
    BY <1>2, <1>3, <1>5, <1>6, CrossingFacts DEF FillTaker, LiveQtys
  <2> QED  BY <2>1, QtyWidth DEF LiveQtys
<1>8. PICK o2 : o2 = [o EXCEPT ![1] = Reduced(@, t.qty)]
  OBVIOUS
<1>9. PICK c : c = [b EXCEPT ![s] = o2]
  OBVIOUS
<1>10. o2 \in Seq(Listed) /\ Resized(o, o2, 1, r)
  <2>1. PICK x \in Listed : x = o[1]
    BY <1>5
  <2>2. PICK y : y = Reduced(x, t.qty)
    OBVIOUS
  <2>3. y = [id |-> x.id, price |-> x.price, qty |-> r, tif |-> x.tif]
    BY <1>7, <2>1, <2>2 DEF Reduced, Listed
  <2>4. y \in Listed
    BY <2>3 DEF Listed
  <2>5. o2 = [o EXCEPT ![1] = y]
    BY <1>8, <2>1, <2>2
  <2>6. /\ Len(o2) = Len(o) /\ o2 \in Seq(Listed)
        /\ \A j \in 1 .. Len(o) : o2[j] = IF j = 1 THEN y ELSE o[j]
    BY <1>5, <2>4, <2>5
  <2> QED  BY <2>1, <2>3, <2>6 DEF Resized
<1>11. Lined' /\ Resting' = c
  <2>1. PICK n : n = 1
    OBVIOUS
  <2>2. StoreInv /\ StoreInv'
    BY CrossingFacts DEF BookInv
  <2>3. Resizes(l, r)
    BY <1>2, <1>3, <1>5, <1>6, <1>7 DEF FillTaker, Resizes
  <2>4. Resized(Resting[s], o2, n, r) /\ IsListedAt(LL, l, s, n)
    BY <1>5, <1>10, <2>1
  <2>5. Lined' /\ Resting' = [Resting EXCEPT ![s] = o2]
    BY <1>10, <2>2, <2>3, <2>4, ResizeBook
  <2> QED  BY <1>6, <1>9, <2>5
<1>12. PICK u \in Takers : u = taker' /\ u = Reduced(t, t.qty)
  <2>1. taker' = [t EXCEPT !.qty = 0]
    BY <1>6 DEF FillTaker
  <2>2. 0 \in 0 .. (QtyMod - 1)
    BY QtyWidth
  <2>3. taker' \in Takers
    BY <2>1, <2>2, TakerFilled
  <2>4. t.qty - t.qty = 0
    BY <1>7
  <2>5. Reduced(t, t.qty) = [t EXCEPT !.qty = 0]
    BY <2>4 DEF Reduced
  <2> QED  BY <2>1, <2>3, <2>5
<1>13. TakesPart(t, o) /\ o = Met(b, t)
  BY <1>5, <1>6, <1>7 DEF TakesPart
<1>14. PICK es : es = <<Trade(o[1].id, t.id, o[1].price, t.qty)>>
  OBVIOUS
<1>15. /\ Atomic!Settled(c, u).book = Atomic!Settled(b, t).book
       /\ Atomic!Settled(b, t).events = es \o Atomic!Settled(c, u).events
  <2>1. MeetsLarger(b, t, o, u, c)
    BY <1>2, <1>6, <1>8, <1>9, <1>12, <1>13 DEF MeetsLarger
  <2>2. /\ Atomic!Settled(c, u).book = Atomic!Settled(b, t).book
        /\ Atomic!Settled(b, t).events =
             <<Trade(o[1].id, t.id, o[1].price, t.qty)>> \o Atomic!Settled(c, u).events
    BY <2>1, SettledPart
  <2> QED  BY <1>14, <2>2
<1>16. Emit(evs, es)
  BY <1>2, <1>3, <1>5, <1>6, <1>14 DEF FillTaker
<1>17. es \in Seq(Events)
  <2>1. /\ o[1].id \in Ids /\ o[1].price \in CmdPrices /\ t.qty \in LiveQtys
        /\ t.id \in Ids
    BY <1>5, <1>7, QtyWidth DEF Prices, Listed, LiveQtys
  <2>2. Trade(o[1].id, t.id, o[1].price, t.qty) \in Events
    BY <2>1 DEF Trade, Events
  <2> QED  BY <1>14, <2>2
<1>18. PICK rest \in Seq(Events) : rest = Atomic!Settled(c, u).events
  <2>1. c \in Books
    BY <1>5, <1>6, <1>9, <1>10 DEF Books
  <2> QED  BY <1>12, <2>1, SettledType
<1>19. evs' \o rest = out' /\ (seq' + Len(rest)) % SeqModulus = number'
  <2>1. /\ evs \o (es \o rest) = out
        /\ (seq + Len(es \o rest)) % SeqModulus = number
    BY <1>6, <1>15, <1>18, CrossingFacts DEF Owes
  <2>2. evs \in Seq(Events) /\ seq \in Nat
    BY SeqWidth DEF Crossing, BookInv, OutInv
  <2> QED  BY <1>16, <1>17, <2>1, <2>2, SaysFirst
<1>20. Atomic!Settled(c, u).book = orders'
  BY <1>6, <1>15, CrossingFacts DEF Owes, promise
<1>21. Owes(taker, Resting)'
  BY <1>11, <1>12, <1>18, <1>19, <1>20, OwesAfter
<1>22. taker' # NIL
  BY <1>12, NilIsNoRecord
<1> QED  BY <1>11, <1>21, <1>22, PromiseAfter

LEMMA FillPromise ==
    ASSUME Crossing, BookInv', Fill, UNCHANGED promise
    PROVE  Lined' /\ PromiseKept'
BY FillMakerPromise, FillTakerPromise DEF Fill

\* A command that has crossed owes only its end.
LEMMA CrossedOwes ==
    ASSUME Crossing, Crossed
    PROVE  /\ orders = WithRest(Resting, taker, taker.qty)
           /\ out = evs \o <<LastWord(taker, taker.qty)>>
           /\ number = (seq + 1) % SeqModulus
<1>1. PICK t \in Takers, b \in Books : t = taker /\ b = Resting /\ Owes(t, b)
  BY CrossingFacts
<1>2. t.qty = 0 \/ Atomic!Reach(t.side, t.limit, Met(b, t)) = 0
  <2>1. SUFFICES ASSUME taker.qty # 0
                 PROVE  Atomic!Reach(t.side, t.limit, Met(b, t)) = 0
    BY <1>1, <2>1
  <2>2. PICK s \in Sides : s = Opposite(taker.side) /\ taker.side \in Sides
    BY CrossingFacts, OtherSide
  <2>3. \A bp \in index[s] : ~Within(taker.side, taker.limit, bp)
    BY <2>1, <2>2, CrossingFacts, NothingInReach
  <2>4. PICK LL \in [Sides -> Seq(Locs)] : LinesAre(LL)
    BY DEF Crossing, Lined
  <2>5. PICK L : L = LL[s] /\ IsLine(s, L)
    BY <2>4 DEF LinesAre
  <2>6. PICK o : o = Resting[s] /\ o = ListOf(slot, L) /\ Sorted(s, o)
    BY <2>4, <2>5, CrossingFacts, RestingType
  <2>7. ListsLine(s, L, o)
    BY <2>5, <2>6, CrossingFacts, ListingFacts
  <2>8. o \in Seq(Listed) /\ Len(o) = Len(L) /\ Len(L) \in Nat
    BY <2>7 DEF ListsLine
  <2>9. PICK r : r = Atomic!Reach(taker.side, taker.limit, o)
    OBVIOUS
  <2>10. /\ r \in 0 .. Len(o)
         /\ \A i \in 1 .. Len(o) :
               i <= r <=> Atomic!Acceptable(taker.side, taker.limit, o[i].price)
    <3>1. PICK side \in Sides, limit \in Int \cup {NIL} :
             side = taker.side /\ limit = taker.limit
      BY CrossingFacts
    <3>2. Sorted(Opposite(side), o)
      BY <2>2, <2>6, <3>1
    <3>3. o \in Seq(Listed) /\ r = Atomic!Reach(side, limit, o)
      BY <2>8, <2>9, <3>1
    <3>4. /\ r \in 0 .. Len(o)
          /\ \A i \in 1 .. Len(o) :
                i <= r <=> Atomic!Acceptable(side, limit, o[i].price)
      BY <3>2, <3>3, ReachIs
    <3> QED  BY <3>1, <3>4
  <2>11. ASSUME r # 0
         PROVE  FALSE
    <3>1. 1 \in 1 .. Len(o) /\ 1 <= r
      BY <2>8, <2>10, <2>11
    <3>2. /\ o[1].price = slot[L[1]].price /\ o[1].price \in Int
          /\ L # <<>>
      BY <2>7, <2>8, <3>1 DEF ListsLine
    <3>3. Atomic!Acceptable(taker.side, taker.limit, o[1].price)
      BY <2>10, <3>1
    <3>4. IsBest(s, slot[L[1]].price)
      BY <2>5, <3>2, CrossingFacts, FrontIsBest
    <3>5. o[1].price \in index[s]
      BY <3>2, <3>4 DEF IsBest
    <3>6. Within(taker.side, taker.limit, o[1].price)
      BY <3>2, <3>3, CrossingFacts, WithinIs
    <3> QED  BY <2>3, <3>5, <3>6
  <2> QED  BY <1>1, <2>2, <2>6, <2>9, <2>11 DEF Met
<1>3. /\ Atomic!Settled(b, t).book = WithRest(b, t, t.qty)
      /\ Atomic!Settled(b, t).events = <<LastWord(t, t.qty)>>
  BY <1>2, SettledNothing
<1> QED  BY <1>1, <1>3 DEF Owes

\* The end of a command that leaves the book as it is.
LEMMA EndsPromise ==
    ASSUME Crossing, BookInv', Crossed, taker' = NIL, UNCHANGED promise,
           UNCHANGED <<queue, slot>>, ~Rests(taker, taker.qty),
           Emit(evs, <<LastWord(taker, taker.qty)>>)
    PROVE  Lined' /\ PromiseKept'
<1>1. Lined' /\ Resting' = Resting
  BY SameBook, CrossingFacts DEF Crossing, BookInv
<1>2. Resting = orders
  BY CrossedOwes DEF WithRest
<1>3. evs' = out /\ seq' = number
  BY CrossedOwes DEF Emit
<1> QED  BY <1>1, <1>2, <1>3 DEF PromiseKept, promise

\* The end of a command that rests what it has left.
LEMMA RestsPromise ==
    ASSUME Crossing, BookInv', Crossed, taker' = NIL, UNCHANGED promise,
           Rests(taker, taker.qty), taker.limit # NIL,
           NEW l \in FreeLocs, Rest(l, Remainder(taker.limit)),
           Emit(evs, <<LastWord(taker, taker.qty)>>)
    PROVE  Lined' /\ PromiseKept'
<1>1. PICK o : o = Remainder(taker.limit)
  OBVIOUS
<1>2. PICK a : a = AsRest(taker, taker.qty)
  OBVIOUS
<1>3. o \in Orders /\ o.side = taker.side
  <2>1. taker.qty > 0 /\ taker.qty \in 0 .. (QtyMod - 1)
    BY CrossingFacts DEF Rests
  <2>2. taker.qty \in LiveQtys
    BY <2>1, QtyWidth DEF LiveQtys
  <2> QED  BY <1>1, <2>2, CrossingFacts, TakerFields DEF Remainder, Orders
<1>4. a = [id |-> o.id, price |-> o.price, qty |-> o.qty, tif |-> o.tif]
  BY <1>1, <1>2 DEF AsRest, Remainder
<1>5. /\ Lined'
      /\ Resting' = [Resting EXCEPT ![o.side] = Atomic!Joined(o.side, @, a)]
  <2>1. l \in Locs /\ Rest(l, o)
    BY <1>1 DEF FreeLocs
  <2>2. StoreInv /\ StoreInv' /\ Lined
    BY CrossingFacts DEF BookInv, Crossing
  <2> QED  BY <1>3, <1>4, <2>1, <2>2, RestBook
<1>6. orders = [Resting EXCEPT ![taker.side] = Atomic!Joined(taker.side, @, a)]
  BY <1>2, CrossedOwes DEF WithRest
<1>7. evs' = out /\ seq' = number
  BY CrossedOwes DEF Emit
<1> QED  BY <1>3, <1>5, <1>6, <1>7 DEF PromiseKept, promise

LEMMA FinishPromise ==
    ASSUME Crossing, BookInv', Finish, UNCHANGED promise
    PROVE  Lined' /\ PromiseKept'
<1>1. /\ taker.cmd \in {"new", "replace"} /\ taker.qty \in Nat
      /\ taker.cmd = "replace" => taker.limit # NIL
  <2>1. taker.cmd = "replace" => taker.limit \in Prices
    BY CrossingFacts, TakerFields
  <2>2. NIL \notin Prices
    BY PricesAreTicks, NilIsNoValue DEF Prices
  <2> QED  BY <2>1, <2>2, CrossingFacts, TakerFields
<1>2. CASE FinishNewFilled
  <2>1. ~Rests(taker, taker.qty)
    BY <1>2 DEF FinishNewFilled, Rests
  <2>2. Emit(evs, <<LastWord(taker, taker.qty)>>)
    BY <1>2 DEF FinishNewFilled, LastWord
  <2> QED  BY <1>2, <2>1, <2>2, EndsPromise DEF FinishNewFilled, book
<1>3. CASE FinishNewRests
  <2>1. Rests(taker, taker.qty) /\ taker.limit # NIL
    BY <1>3 DEF FinishNewRests, Rests, MayRest
  <2>2. Emit(evs, <<LastWord(taker, taker.qty)>>)
    <3>1. LastWord(taker, taker.qty) = Accepted(taker.id, taker.qty)
      BY <1>1, <1>3, <2>1 DEF FinishNewRests, LastWord
    <3> QED  BY <1>3, <3>1 DEF FinishNewRests
  <2> QED  BY <1>3, <2>1, <2>2, RestsPromise DEF FinishNewRests
<1>4. CASE FinishNewExpires
  <2>1. ~Rests(taker, taker.qty)
    BY <1>4 DEF FinishNewExpires, Rests, MayRest
  <2>2. Emit(evs, <<LastWord(taker, taker.qty)>>)
    <3>1. LastWord(taker, taker.qty) = Closed(taker.id, "Expired")
      BY <1>1, <1>4, <2>1 DEF FinishNewExpires, LastWord
    <3> QED  BY <1>4, <3>1 DEF FinishNewExpires
  <2> QED  BY <1>4, <2>1, <2>2, EndsPromise DEF FinishNewExpires, book
<1>5. CASE FinishReplaceFilled
  <2>1. ~Rests(taker, taker.qty)
    BY <1>5 DEF FinishReplaceFilled, Rests
  <2>2. Emit(evs, <<LastWord(taker, taker.qty)>>)
    BY <1>5 DEF FinishReplaceFilled, LastWord
  <2> QED  BY <1>5, <2>1, <2>2, EndsPromise DEF FinishReplaceFilled
<1>6. CASE FinishReplaceRests
  <2>1. Rests(taker, taker.qty) /\ taker.limit # NIL
    BY <1>1, <1>6 DEF FinishReplaceRests, Rests
  <2>2. Emit(evs, <<LastWord(taker, taker.qty)>>)
    <3>1. LastWord(taker, taker.qty) = Replaced(taker.id, taker.limit, taker.qty)
      BY <1>1, <1>6, <2>1 DEF FinishReplaceRests, LastWord
    <3> QED  BY <1>6, <3>1 DEF FinishReplaceRests
  <2> QED  BY <1>6, <2>1, <2>2, RestsPromise DEF FinishReplaceRests
<1> QED  BY <1>2, <1>3, <1>4, <1>5, <1>6 DEF Finish
----------------------------------------------------------------------------
(* What the checks of a command ask of the book, and of its listing.       *)

\* The line and the listing of a side.
OnSide(s, L, o) ==
    /\ s \in Sides /\ L \in Seq(Locs) /\ o \in Seq(Listed)
    /\ IsLine(s, L) /\ o = Resting[s] /\ o = ListOf(slot, L)
    /\ ListsLine(s, L, o) /\ Sorted(s, o)

LEMMA LinesOnSides ==
    ASSUME StoreInv, NEW LL, LinesAre(LL), NEW s \in Sides
    PROVE  OnSide(s, LL[s], Resting[s])
<1>1. PICK L : L = LL[s] /\ IsLine(s, L) /\ L \in Seq(Locs)
  BY DEF LinesAre
<1>2. PICK o : o = Resting[s] /\ o = ListOf(slot, L) /\ Sorted(s, o)
  BY <1>1, RestingType
<1>3. ListsLine(s, L, o)
  BY <1>1, <1>2, ListingFacts
<1>4. o \in Seq(Listed)
  BY <1>3 DEF ListsLine
<1> QED  BY <1>1, <1>2, <1>3, <1>4 DEF OnSide

LEMMA HasSide ==
    ASSUME StoreInv, Lined, NEW s \in Sides
    PROVE  \E L, o : OnSide(s, L, o)
BY LinesOnSides DEF Lined

LEMMA SideFacts ==
    ASSUME NEW s, NEW L, NEW o, OnSide(s, L, o)
    PROVE  /\ Len(o) = Len(L) /\ Len(L) \in Nat
           /\ DOMAIN o = 1 .. Len(L) /\ DOMAIN L = 1 .. Len(L)
           /\ \A i \in 1 .. Len(L) :
                 /\ L[i] \in Locs /\ slot[L[i]] \in Orders /\ slot[L[i]] # NIL
                 /\ slot[L[i]].side = s /\ slot[L[i]].price \in Int
                 /\ o[i].price = slot[L[i]].price /\ o[i].id = slot[L[i]].id
                 /\ o[i].qty = slot[L[i]].qty /\ o[i].tif = slot[L[i]].tif
           /\ \A i, j \in 1 .. Len(L) : L[i] = L[j] => i = j
           /\ \A l \in Locs : slot[l] # NIL /\ slot[l].side = s =>
                 \E i \in 1 .. Len(L) : L[i] = l
<1>1. ListsLine(s, L, o) /\ Line(slot, queue[s], s, L)
  BY DEF OnSide, IsLine
<1>2. /\ Len(o) = Len(L) /\ Len(L) \in Nat
      /\ DOMAIN o = 1 .. Len(L) /\ DOMAIN L = 1 .. Len(L)
      /\ \A i \in 1 .. Len(L) :
            /\ L[i] \in Locs /\ slot[L[i]] \in Orders
            /\ slot[L[i]].side = s /\ slot[L[i]].price \in Int
            /\ o[i].price = slot[L[i]].price /\ o[i].id = slot[L[i]].id
            /\ o[i].qty = slot[L[i]].qty /\ o[i].tif = slot[L[i]].tif
  BY <1>1 DEF ListsLine
<1>3. /\ \A i, j \in DOMAIN L : L[i] = L[j] => i = j
      /\ \A l \in Locs : LiveOn(slot, s, l) => \E i \in DOMAIN L : L[i] = l
  BY <1>1 DEF Line
<1> QED  BY <1>2, <1>3, NilIsNoRecord DEF LiveOn

LEMMA IdsOnSide ==
    ASSUME NEW s, NEW L, NEW o, OnSide(s, L, o)
    PROVE  Atomic!IdsOf(Resting, s) = {slot[l].id : l \in {k \in LiveLocs : slot[k].side = s}}
<1>1. Atomic!IdsOf(Resting, s) = {o[i].id : i \in DOMAIN o}
  BY DEF Atomic!IdsOf, OnSide
<1>2. ASSUME NEW x, x \in {o[i].id : i \in DOMAIN o}
      PROVE  x \in {slot[l].id : l \in {k \in LiveLocs : slot[k].side = s}}
  <2>1. PICK i \in 1 .. Len(L) : x = o[i].id
    BY <1>2, SideFacts
  <2>2. L[i] \in LiveLocs /\ slot[L[i]].side = s /\ x = slot[L[i]].id
    BY <2>1, SideFacts DEF LiveLocs
  <2> QED  BY <2>2
<1>3. ASSUME NEW x, x \in {slot[l].id : l \in {k \in LiveLocs : slot[k].side = s}}
      PROVE  x \in {o[i].id : i \in DOMAIN o}
  <2>1. PICK l \in Locs : slot[l] # NIL /\ slot[l].side = s /\ x = slot[l].id
    BY <1>3 DEF LiveLocs
  <2>2. PICK i \in 1 .. Len(L) : L[i] = l
    BY <2>1, SideFacts
  <2>3. i \in DOMAIN o /\ o[i].id = x
    BY <2>1, <2>2, SideFacts
  <2> QED  BY <2>3
<1> QED  BY <1>1, <1>2, <1>3

\* The ids at rest are those of the live orders, one of each.
LEMMA LiveIdsAre ==
    ASSUME StoreInv, Lined, LiveAreMapped
    PROVE  /\ Atomic!LiveIds(Resting) = {slot[l].id : l \in LiveLocs}
           /\ Atomic!Cardinality(Atomic!LiveIds(Resting)) = live
<1>1. \A s \in Sides : Atomic!IdsOf(Resting, s) =
                         {slot[l].id : l \in {k \in LiveLocs : slot[k].side = s}}
  BY HasSide, IdsOnSide
<1>2. \A l \in LiveLocs : slot[l].side \in Sides /\ l \in Locs /\ slot[l] # NIL
  BY DEF LiveLocs, StoreInv, StoreType, Orders
<1>3. Atomic!LiveIds(Resting)
        = Atomic!IdsOf(Resting, "Bid") \cup Atomic!IdsOf(Resting, "Ask")
  BY DEF Atomic!LiveIds
<1>4. Atomic!LiveIds(Resting) = {slot[l].id : l \in LiveLocs}
  <2>1. "Bid" \in Sides /\ "Ask" \in Sides /\ \A s \in Sides : s = "Bid" \/ s = "Ask"
    BY DEF Sides
  <2> QED  BY <1>1, <1>2, <1>3, <2>1
<1>5. Cardinality({slot[l].id : l \in LiveLocs}) = Cardinality(LiveLocs)
  <2> DEFINE T == {slot[l].id : l \in LiveLocs}
             f == [l \in LiveLocs |-> slot[l].id]
  <2>1. f \in [LiveLocs -> T] /\ \A y \in T : \E l \in LiveLocs : f[l] = y
    OBVIOUS
  <2>2. \A k, l \in LiveLocs : f[k] = f[l] => k = l
    BY <1>2 DEF LiveAreMapped
  <2>3. IsFiniteSet(LiveLocs)
    <3>1. LiveLocs \subseteq Locs
      BY DEF LiveLocs
    <3> QED  BY <3>1, StoreIsBigEnough, FS_Subset
  <2> HIDE DEF T, f
  <2>4. f \in Bijection(LiveLocs, T)
    BY <2>1, <2>2 DEF Bijection, Injection, IsInjective, Surjection
  <2>5. Cardinality(T) = Cardinality(LiveLocs)
    BY <2>3, <2>4, FS_Bijection DEF ExistsBijection
  <2> QED  BY <2>5 DEF T
<1>6. live = Cardinality(LiveLocs)
  BY DEF StoreInv, LiveCounted
<1> QED  BY <1>4, <1>5, <1>6, SameCount

\* Between commands: exactly the ids the map has.
LEMMA LiveIdsAreMapped ==
    ASSUME BookInv, Lined, taker = NIL, NEW id \in Ids
    PROVE  id \in Atomic!LiveIds(Resting) <=> map[id] # NIL
<1>1. Atomic!LiveIds(Resting) = {slot[l].id : l \in LiveLocs}
  BY LiveIdsAre DEF BookInv, MapInv
<1>2. ASSUME map[id] # NIL
      PROVE  id \in {slot[l].id : l \in LiveLocs}
  <2>1. map[id] \in LiveLocs /\ slot[map[id]].id = id
    BY <1>2, EntryIsLive DEF BookInv, LiveLocs
  <2> QED  BY <2>1
<1>3. ASSUME NEW l \in LiveLocs, slot[l].id = id
      PROVE  map[id] # NIL
  <2>1. map[id] = l /\ l \in Locs
    BY <1>3 DEF BookInv, MapInv, LiveAreMapped, LiveLocs
  <2> QED  BY <2>1, StoreIsBigEnough
<1> QED  BY <1>1, <1>2, <1>3

\* Where an order stands in the listing.
LEMMA PlaceIs ==
    ASSUME StoreInv, LiveAreMapped, NEW LL, NEW l, NEW s, NEW n,
           IsListedAt(LL, l, s, n), NEW id, id = slot[l].id
    PROVE  /\ Atomic!SideOf(Resting, id) = s /\ Atomic!PlaceOf(Resting, id) = n
           /\ s \in Sides /\ n \in DOMAIN Resting[s] /\ n \in Nat
           /\ Resting[s][n].id = slot[l].id /\ Resting[s][n].qty = slot[l].qty
           /\ Resting[s][n].price = slot[l].price /\ Resting[s][n].tif = slot[l].tif
<1>1. /\ LinesAre(LL) /\ l \in Locs /\ slot[l] # NIL
      /\ s = slot[l].side /\ n \in DOMAIN LL[s] /\ LL[s][n] = l
  BY DEF IsListedAt
<1>2. s \in Sides
  BY <1>1 DEF StoreInv, StoreType, Orders
<1>3. PICK L, o : L = LL[s] /\ o = Resting[s] /\ OnSide(s, L, o)
  BY <1>1, <1>2, LinesOnSides
<1>4. \A k \in LiveLocs : slot[k].id = id => k = l
  BY <1>1 DEF LiveLocs, LiveAreMapped
<1>5. \A z \in Sides : Atomic!IdsOf(Resting, z) =
                         {slot[k].id : k \in {k \in LiveLocs : slot[k].side = z}}
  BY <1>1, LinesOnSides, IdsOnSide
<1>6. \A z \in Sides : id \in Atomic!IdsOf(Resting, z) <=> z = s
  <2>1. l \in LiveLocs
    BY <1>1 DEF LiveLocs
  <2> QED  BY <1>1, <1>4, <1>5, <2>1
<1>7. Atomic!SideOf(Resting, id) = s
  BY <1>2, <1>6 DEF Atomic!SideOf, Sides
<1>8. /\ n \in DOMAIN o /\ n \in Nat /\ o[n].id = id /\ o[n].qty = slot[l].qty
      /\ o[n].price = slot[l].price /\ o[n].tif = slot[l].tif
  BY <1>1, <1>3, SideFacts
<1>9. \A i \in DOMAIN o : o[i].id = id => i = n
  <2> SUFFICES ASSUME NEW i \in DOMAIN o, o[i].id = id
               PROVE  i = n
    OBVIOUS
  <2>1. L[i] \in LiveLocs /\ slot[L[i]].id = id
    BY <1>3, SideFacts DEF LiveLocs
  <2>2. L[i] = l
    BY <1>4, <2>1
  <2> QED  BY <1>1, <1>3, <2>2, SideFacts
<1>10. Atomic!PlaceOf(Resting, id) = CHOOSE i \in DOMAIN o : o[i].id = id
  BY <1>3, <1>7 DEF Atomic!PlaceOf
<1>11. (CHOOSE i \in DOMAIN o : o[i].id = id) = n
  BY <1>8, <1>9
<1> QED  BY <1>2, <1>3, <1>7, <1>8, <1>10, <1>11

LEMMA ReachOnSide ==
    ASSUME NEW side \in Sides, NEW limit \in Int \cup {NIL},
           NEW L, NEW o, OnSide(Opposite(side), L, o),
           NEW r, r = Atomic!Reach(side, limit, o)
    PROVE  /\ r \in 0 .. Len(L)
           /\ \A i \in 1 .. Len(L) : i <= r <=> Within(side, limit, slot[L[i]].price)
<1>1. o \in Seq(Listed) /\ Sorted(Opposite(side), o)
  BY DEF OnSide
<1>2. /\ r \in 0 .. Len(o)
      /\ \A i \in 1 .. Len(o) : i <= r <=> Atomic!Acceptable(side, limit, o[i].price)
  BY <1>1, ReachIs
<1>3. /\ Len(o) = Len(L)
      /\ \A i \in 1 .. Len(L) : /\ o[i].price = slot[L[i]].price
                                /\ o[i].price \in Int
  BY SideFacts
<1>4. \A i \in 1 .. Len(L) :
         Atomic!Acceptable(side, limit, o[i].price)
           <=> Within(side, limit, slot[L[i]].price)
  BY <1>3, WithinIs
<1> QED  BY <1>2, <1>3, <1>4

\* would_cross() looks at the best level; that is the first of the listing.
LEMMA WouldTradeIs ==
    ASSUME StoreInv, Lined, NEW side \in Sides, NEW limit \in Prices
    PROVE  Atomic!WouldTrade(Resting, side, limit) <=> WouldCross(side, limit)
<1>1. PICK s \in Sides : s = Opposite(side)
  BY OtherSide
<1>2. PICK L, o : OnSide(s, L, o)
  BY HasSide
<1>3. PICK r : r = Atomic!Reach(side, limit, o)
  OBVIOUS
<1>4. limit \in Int
  BY PricesAreTicks DEF Prices
<1>5. /\ r \in 0 .. Len(L) /\ Len(L) \in Nat
      /\ \A i \in 1 .. Len(L) : i <= r <=> Within(side, limit, slot[L[i]].price)
  BY <1>1, <1>2, <1>3, <1>4, ReachOnSide, SideFacts
<1>6. Atomic!WouldTrade(Resting, side, limit) <=> r > 0
  BY <1>1, <1>2, <1>3, SameWords DEF Atomic!WouldTrade, OnSide
<1>7. L \in Seq(Locs) /\ IsLine(s, L)
  BY <1>2 DEF OnSide
<1>8. ASSUME r > 0
      PROVE  WouldCross(side, limit)
  <2>1. 1 \in 1 .. Len(L) /\ 1 <= r /\ L # <<>>
    BY <1>5, <1>7, <1>8
  <2>2. IsBest(s, slot[L[1]].price) /\ Within(side, limit, slot[L[1]].price)
    BY <1>5, <1>7, <2>1, FrontIsBest
  <2> QED  BY <1>1, <2>2 DEF WouldCross, IsBest
<1>9. ASSUME WouldCross(side, limit)
      PROVE  r > 0
  <2>1. PICK bp \in index[s] : IsBest(s, bp) /\ Within(side, limit, bp)
    BY <1>1, <1>9 DEF WouldCross
  <2>2. L # <<>> /\ L[1] = Head(queue[s][bp])
    BY <1>7, <2>1, HeadOfLine
  <2>3. slot[L[1]].price = bp
    BY <2>1, <2>2, HeadIsLive
  <2>4. 1 \in 1 .. Len(L)
    BY <1>7, <2>2
  <2> QED  BY <1>5, <2>1, <2>3, <2>4
<1> QED  BY <1>6, <1>8, <1>9

\* The first n orders of the listing have what their locations have.
LEMMA AheadIsSum ==
    ASSUME StoreInv, NEW s, NEW L, NEW o, OnSide(s, L, o)
    PROVE  \A n \in 0 .. Len(L) :
              Atomic!Ahead(o, n) = SumFunctionOnSet(QtyAt, {L[i] : i \in 1 .. n})
<1> DEFINE Firsts(n) == {L[i] : i \in 1 .. n}
           T == {n \in Nat : n <= Len(L) =>
                   Atomic!Ahead(o, n) = SumFunctionOnSet(QtyAt, Firsts(n))}
<1>1. 0 \in T
  <2>1. Firsts(0) = {}
    OBVIOUS
  <2>2. Atomic!Ahead(o, 0) = 0 /\ SumFunctionOnSet(QtyAt, {}) = 0
    BY AheadNone, SumEmpty
  <2> HIDE DEF Firsts
  <2> QED  BY <2>1, <2>2
<1>2. ASSUME NEW n \in Nat, n \in T
      PROVE  n + 1 \in T
  <2> SUFFICES ASSUME n + 1 <= Len(L)
               PROVE  Atomic!Ahead(o, n + 1) = SumFunctionOnSet(QtyAt, Firsts(n + 1))
    OBVIOUS
  <2>1. Len(L) \in Nat /\ Len(o) = Len(L) /\ o \in Seq(Listed)
    <3>1. Len(L) \in Nat /\ Len(o) = Len(L)
      BY SideFacts
    <3> QED  BY <3>1 DEF OnSide
  <2>2. Atomic!Ahead(o, n) = SumFunctionOnSet(QtyAt, Firsts(n))
    BY <1>2, <2>1
  <2>3. n \in 0 .. (Len(o) - 1) /\ n + 1 \in 1 .. Len(L)
    BY <2>1
  <2>4. Atomic!Ahead(o, n + 1) = o[n + 1].qty + Atomic!Ahead(o, n)
    BY <2>1, <2>3, AheadNext
  <2>5. PICK e : e = L[n + 1]
    OBVIOUS
  <2>6. e \in Locs /\ slot[e] # NIL /\ o[n + 1].qty = slot[e].qty
    BY <2>3, <2>5, SideFacts
  <2>7. Firsts(n + 1) = Firsts(n) \cup {e} /\ e \notin Firsts(n)
    <3>1. 1 .. (n + 1) = (1 .. n) \cup {n + 1}
      OBVIOUS
    <3>2. \A i \in 1 .. n : L[i] # e
      <4>1. \A i \in 1 .. n : i \in 1 .. Len(L) /\ i # n + 1
        BY <2>1, <2>3
      <4> QED  BY <2>3, <2>5, <4>1, SideFacts
    <3> QED  BY <2>5, <3>1, <3>2
  <2>8. Firsts(n) \subseteq Locs
    <3>1. \A i \in 1 .. n : i \in 1 .. Len(L)
      BY <2>1, <2>3
    <3> QED  BY <3>1, SideFacts
  <2> HIDE DEF Firsts
  <2>9. IsFiniteSet(Firsts(n)) /\ \A x \in Firsts(n) \cup {e} : QtyAt[x] \in Int
    BY <2>6, <2>8, QtyFacts, FS_Subset
  <2>10. SumFunctionOnSet(QtyAt, Firsts(n) \cup {e})
           = QtyAt[e] + SumFunctionOnSet(QtyAt, Firsts(n))
    BY <2>7, <2>9, SumAdd
  <2>11. QtyAt[e] = slot[e].qty
    BY <2>6, QtyFacts
  <2> QED  BY <2>2, <2>4, <2>6, <2>7, <2>10, <2>11
<1> HIDE DEF T
<1>3. \A n \in Nat : n \in T
  BY <1>1, <1>2, NatInductive
<1> QED
  <2> SUFFICES ASSUME NEW n \in 0 .. Len(L)
               PROVE  Atomic!Ahead(o, n) = SumFunctionOnSet(QtyAt, {L[i] : i \in 1 .. n})
    OBVIOUS
  <2>1. n \in Nat /\ n <= Len(L) /\ n \in T
    BY <1>3, SideFacts
  <2> QED  BY <2>1 DEF T

\* What is in reach of an order is what the book offers it.
LEMMA InReachIs ==
    ASSUME StoreInv, Lined, NEW side \in Sides, NEW limit \in Prices
    PROVE  Atomic!InReach(side, limit, Resting[Opposite(side)]) = Offered(side, limit)
<1>1. PICK s \in Sides : s = Opposite(side)
  BY OtherSide
<1>2. PICK L, o : OnSide(s, L, o)
  BY HasSide
<1>3. PICK r : r = Atomic!Reach(side, limit, o)
  OBVIOUS
<1>4. limit \in Int
  BY PricesAreTicks DEF Prices
<1>5. /\ r \in 0 .. Len(L) /\ Len(L) \in Nat
      /\ \A i \in 1 .. Len(L) : i <= r <=> Within(side, limit, slot[L[i]].price)
  BY <1>1, <1>2, <1>3, <1>4, ReachOnSide, SideFacts
<1>6. Atomic!InReach(side, limit, o) = SumFunctionOnSet(QtyAt, {L[i] : i \in 1 .. r})
  BY <1>2, <1>3, <1>5, AheadIsSum DEF Atomic!InReach
<1>7. {L[i] : i \in 1 .. r} = InReach(side, limit)
  <2>1. ASSUME NEW i \in 1 .. r
        PROVE  L[i] \in InReach(side, limit)
    <3>1. i \in 1 .. Len(L) /\ i <= r
      BY <1>5
    <3> QED  BY <1>1, <1>2, <1>5, <3>1, SideFacts DEF InReach
  <2>2. ASSUME NEW l \in InReach(side, limit)
        PROVE  l \in {L[i] : i \in 1 .. r}
    <3>1. /\ l \in Locs /\ slot[l] # NIL /\ slot[l].side = s
          /\ Within(side, limit, slot[l].price)
      BY <1>1 DEF InReach
    <3>2. PICK i \in 1 .. Len(L) : L[i] = l
      BY <1>2, <3>1, SideFacts
    <3>3. i \in 1 .. r
      BY <1>5, <3>1, <3>2
    <3> QED  BY <3>2, <3>3
  <2> QED  BY <2>1, <2>2
<1> QED  BY <1>1, <1>2, <1>6, <1>7 DEF Offered, OnSide

\* fillable() adds up what is in reach, where nothing wraps.
LEMMA ShortIs ==
    ASSUME BookInv, TotalsExact, Lined, NothingWraps,
           Prices \subseteq LowEnd .. HighEnd,
           NEW side \in Sides, NEW limit \in Prices, NEW qty
    PROVE  Atomic!Short(Resting, side, limit, qty) <=> Fillable(side, limit) < qty
<1>1. Atomic!InReach(side, limit, Resting[Opposite(side)]) = Offered(side, limit)
  BY InReachIs DEF BookInv
<1>2. Fillable(side, limit) = Offered(side, limit)
  BY FillableBounds DEF BookInv, NothingWraps
<1> QED  BY <1>1, <1>2, SameWords DEF Atomic!Short

LEMMA RemoveAtIs ==
    ASSUME NEW q \in Seq(Listed), NEW i \in DOMAIN q
    PROVE  Atomic!RemoveAt(q, i) \in Seq(Listed) /\ Drops(q, Atomic!RemoveAt(q, i), i)
<1>1. Atomic!RemoveAt(q, i) = RemoveAt(q, i)
  BY DEF Atomic!RemoveAt, RemoveAt
<1> QED  BY <1>1, RemoveAtDrops

\* A live order that is taken out is gone from the listing.
LEMMA UnlinkBook ==
    ASSUME BookInv, StoreInv', Lined, taker = NIL, NEW id \in Ids,
           map[id] # NIL, Unlink(map[id])
    PROVE  Lined' /\ Resting' = Atomic!Without(Resting, id)
<1>1. PICK l : l = map[id]
  OBVIOUS
<1>2. l \in Locs /\ slot[l] \in Orders /\ slot[l] # NIL /\ slot[l].id = id
  BY <1>1, EntryIsLive DEF BookInv
<1>3. PICK s \in Sides : s = slot[l].side
  BY <1>2 DEF Orders
<1>4. PICK LL \in [Sides -> Seq(Locs)] : LinesAre(LL)
  BY DEF Lined
<1>5. PICK n : IsListedAt(LL, l, s, n)
  <2>1. StoreInv
    BY DEF BookInv
  <2>2. OnSide(s, LL[s], Resting[s])
    BY <1>4, <2>1, LinesOnSides
  <2>3. PICK n \in DOMAIN LL[s] : LL[s][n] = l
    BY <1>2, <1>3, <2>2, SideFacts
  <2> QED  BY <1>2, <1>3, <1>4, <2>3 DEF IsListedAt
<1>6. /\ Atomic!SideOf(Resting, id) = s /\ Atomic!PlaceOf(Resting, id) = n
      /\ n \in DOMAIN Resting[s]
  BY <1>2, <1>5, PlaceIs DEF BookInv, MapInv
<1>7. PICK o \in Seq(Listed) : o = Resting[s]
  BY <1>4, RestingType DEF BookInv, Books
<1>8. PICK o2 \in Seq(Listed) : o2 = Atomic!RemoveAt(o, n) /\ Drops(o, o2, n)
  BY <1>6, <1>7, RemoveAtIs
<1>9. PICK i, q2 : Leaves(l, i, q2)
  BY <1>1, <1>2, UnlinkLeaves DEF BookInv
<1>10. Lined' /\ Resting' = [Resting EXCEPT ![s] = o2]
  <2>1. StoreInv /\ Drops(Resting[s], o2, n)
    BY <1>7, <1>8 DEF BookInv
  <2> QED  BY <1>5, <1>9, <2>1, LeavesBook
<1>11. Atomic!Without(Resting, id) = [Resting EXCEPT ![s] = o2]
  BY <1>6, <1>7, <1>8 DEF Atomic!Without
<1> QED  BY <1>10, <1>11
----------------------------------------------------------------------------
(* The commands, side by side.                                             *)

\* Between commands, both books as they should be.
AtRest ==
    /\ BookInv /\ TotalsExact /\ Lined /\ NothingWraps /\ taker = NIL
    /\ Resting = orders /\ evs = out /\ seq = number

PricesInRange == Prices \subseteq LowEnd .. HighEnd

LEMMA AtRestFacts ==
    ASSUME AtRest
    PROVE  /\ StoreInv /\ MapInv /\ LiveAreMapped /\ Resting \in Books
           /\ seq \in Nat /\ seq % SeqModulus = seq
<1>1. StoreInv /\ MapInv /\ LiveAreMapped
  BY DEF AtRest, BookInv, MapInv
<1>2. Resting \in Books
  BY <1>1, RestingType DEF AtRest, Lined
<1>3. seq \in 0 .. (SeqModulus - 1)
  BY DEF AtRest, BookInv, OutInv
<1> QED  BY <1>1, <1>2, <1>3, SeqWidth

\* The atomic book refuses for the reason the loop finds, and else crosses.
LEMMA NewAgrees ==
    ASSUME AtRest, PricesInRange, NEW id \in Ids, NEW side \in Sides,
           NEW limit \in CmdPrices \cup {NIL}, NEW qty \in CmdQtys,
           NEW tif \in Tifs, NEW fault, fault = NewFault(id, side, limit, qty, tif)
    PROVE  Atomic!AfterNew(Resting, Prices, MaxOrders, id, side, limit, qty, tif)
             = IF fault # NIL THEN Atomic!Refused(Resting, id, fault)
               ELSE Atomic!Settled(Resting,
                      [cmd |-> "new", id |-> id, side |-> side, limit |-> limit,
                       qty |-> qty, tif |-> tif])
<1>1. id \in Atomic!LiveIds(Resting) <=> map[id] # NIL
  BY LiveIdsAreMapped DEF AtRest
<1>2. Atomic!Cardinality(Atomic!LiveIds(Resting)) = live
  BY AtRestFacts, LiveIdsAre DEF AtRest
<1>3. limit # NIL => (limit \notin Prices <=> ~PriceOK(limit))
  BY DEF Prices
<1>4. limit \in Prices =>
         /\ Atomic!WouldTrade(Resting, side, limit) <=> WouldCross(side, limit)
         /\ Atomic!Short(Resting, side, limit, qty) <=> Fillable(side, limit) < qty
  BY AtRestFacts, WouldTradeIs, ShortIs DEF AtRest, PricesInRange
<1>5. /\ NIL # "InvalidQty" /\ NIL # "InvalidPrice" /\ NIL # "DuplicateOrderId"
      /\ NIL # "BookFull" /\ NIL # "PostOnlyWouldCross" /\ NIL # "FokCannotFill"
  BY NilIsNoValue DEF RejectReasons
<1>6. BookIsFull <=> Atomic!Cardinality(Atomic!LiveIds(Resting)) >= MaxOrders
  BY <1>2 DEF BookIsFull
<1>7. CASE qty = 0
  BY <1>5, <1>7 DEF NewFault, Atomic!AfterNew
<1>8. CASE qty # 0 /\ limit # NIL /\ limit \notin Prices
  BY <1>3, <1>5, <1>8 DEF NewFault, Atomic!AfterNew
<1>9. CASE qty # 0 /\ (limit = NIL \/ limit \in Prices) /\ map[id] # NIL
  BY <1>1, <1>3, <1>5, <1>9 DEF NewFault, Atomic!AfterNew
<1>10. CASE /\ qty # 0 /\ (limit = NIL \/ limit \in Prices)
            /\ map[id] = NIL /\ BookIsFull
  BY <1>1, <1>3, <1>5, <1>6, <1>10 DEF NewFault, Atomic!AfterNew
<1>11. CASE /\ qty # 0 /\ (limit = NIL \/ limit \in Prices)
            /\ map[id] = NIL /\ ~BookIsFull
  <2>1. fault = IF limit # NIL /\ tif = "PostOnly" /\ WouldCross(side, limit)
                THEN "PostOnlyWouldCross"
                ELSE IF limit # NIL /\ tif = "Fok" /\ Fillable(side, limit) < qty
                THEN "FokCannotFill" ELSE NIL
    BY <1>3, <1>11 DEF NewFault
  <2>2. Atomic!AfterNew(Resting, Prices, MaxOrders, id, side, limit, qty, tif)
          = IF limit # NIL /\ tif = "PostOnly"
                 /\ Atomic!WouldTrade(Resting, side, limit)
            THEN Atomic!Refused(Resting, id, "PostOnlyWouldCross")
            ELSE IF limit # NIL /\ tif = "Fok"
                      /\ Atomic!Short(Resting, side, limit, qty)
            THEN Atomic!Refused(Resting, id, "FokCannotFill")
            ELSE Atomic!Settled(Resting,
                   [cmd |-> "new", id |-> id, side |-> side, limit |-> limit,
                    qty |-> qty, tif |-> tif])
    BY <1>1, <1>6, <1>11 DEF Atomic!AfterNew
  <2> QED  BY <1>4, <1>5, <1>11, <2>1, <2>2
<1> QED  BY <1>7, <1>8, <1>9, <1>10, <1>11

\* A command that both refuse.
LEMMA RefusePromise ==
    ASSUME AtRest, BookInv', NEW id, NEW why,
           UNCHANGED <<book, taker>>, Emit(<<>>, <<Rejected(id, why)>>),
           Atomic!Take(Atomic!Refused(orders, id, why))
    PROVE  Lined' /\ PromiseKept'
<1>1. Lined' /\ Resting' = Resting
  BY SameBook, AtRestFacts DEF AtRest, BookInv, book
<1>2. /\ Atomic!Refused(orders, id, why).book = orders
      /\ Atomic!Refused(orders, id, why).events = <<Rejected(id, why)>>
  BY SameWords DEF Atomic!Refused
<1>3. orders' = orders /\ out' = <<Rejected(id, why)>>
      /\ number' = (number + 1) % SeqModulus
  BY <1>2 DEF Atomic!Take
<1>4. evs' = <<Rejected(id, why)>> /\ seq' = (seq + 1) % SeqModulus
  BY DEF Emit
<1> QED  BY <1>1, <1>3, <1>4 DEF PromiseKept, AtRest

\* A command that both let in: all of it is to come.
LEMMA StartPromise ==
    ASSUME AtRest, BookInv', NEW b \in Books, Resting' = b,
           NEW t \in Takers, taker' = t, Emit(<<>>, <<>>),
           Atomic!Take(Atomic!Settled(b, t))
    PROVE  PromiseKept'
<1>1. PICK rest \in Seq(Events) : rest = Atomic!Settled(b, t).events
  BY SettledType
<1>2. orders' = Atomic!Settled(b, t).book /\ out' = rest
      /\ number' = (number + Len(rest)) % SeqModulus
  BY <1>1 DEF Atomic!Take
<1>3. evs' = <<>> /\ seq' = seq
  BY AtRestFacts DEF Emit
<1>4. evs' \o rest = out'
  BY <1>1, <1>2, <1>3
<1>5. (seq' + Len(rest)) % SeqModulus = number'
  BY <1>2, <1>3 DEF AtRest
<1>6. Owes(taker, Resting)'
  <2>1. PICK u, c : u = taker' /\ c = Resting' /\ u = t /\ c = b
    OBVIOUS
  <2> QED  BY <1>1, <1>2, <1>4, <1>5, <2>1, OwesAfter
<1>7. taker' # NIL
  BY NilIsNoRecord
<1> QED  BY <1>6, <1>7, PromiseAfter

LEMMA NewPromise ==
    ASSUME AtRest, BookInv', PricesInRange, NEW id \in Ids, NEW side \in Sides,
           NEW limit \in CmdPrices \cup {NIL}, NEW qty \in CmdQtys,
           NEW tif \in Tifs,
           \/ RejectNew(id, side, limit, qty, tif)
           \/ StartNew(id, side, limit, qty, tif),
           Atomic!New(id, side, limit, qty, tif)
    PROVE  Lined' /\ PromiseKept'
<1>1. PICK fault : fault = NewFault(id, side, limit, qty, tif)
  OBVIOUS
<1>2. PICK t : t = [cmd |-> "new", id |-> id, side |-> side, limit |-> limit,
                    qty |-> qty, tif |-> tif]
  OBVIOUS
<1>3. PICK after :
         /\ after = Atomic!AfterNew(orders, Prices, MaxOrders, id, side, limit, qty, tif)
         /\ Atomic!Take(after)
  BY DEF Atomic!New
<1>4. after = IF fault # NIL THEN Atomic!Refused(orders, id, fault)
              ELSE Atomic!Settled(orders, t)
  BY <1>1, <1>2, <1>3, NewAgrees DEF AtRest
<1>5. CASE RejectNew(id, side, limit, qty, tif)
  <2>1. fault # NIL /\ Emit(<<>>, <<Rejected(id, fault)>>) /\ UNCHANGED <<book, taker>>
    BY <1>1, <1>5 DEF RejectNew
  <2> QED  BY <1>3, <1>4, <2>1, RefusePromise
<1>6. CASE StartNew(id, side, limit, qty, tif)
  <2>1. fault = NIL /\ Emit(<<>>, <<>>) /\ taker' = t /\ UNCHANGED book
    BY <1>1, <1>2, <1>6 DEF StartNew
  <2>2. Lined' /\ Resting' = Resting
    BY <2>1, SameBook, AtRestFacts DEF AtRest, BookInv, book
  <2>3. t \in Takers
    <3>1. taker' \in Takers \cup {NIL}
      BY DEF BookInv, MapInv, MapType
    <3>2. t # NIL
      <4>1. qty \in 0 .. (QtyMod - 1)
        BY QtyWidth
      <4>2. limit \in Prices \cup {NIL}
        BY <1>1, <1>6, <2>1, NilIsNoValue DEF NewFault, Prices, RejectReasons
      <4>3. t \in Takers
        BY <1>2, <4>1, <4>2 DEF Takers
      <4> QED  BY <4>3, NilIsNoRecord
    <3> QED  BY <2>1, <3>1, <3>2
  <2>4. Resting' = orders /\ orders \in Books
    BY <2>2, AtRestFacts DEF AtRest
  <2>5. Atomic!Take(Atomic!Settled(orders, t))
    BY <1>3, <1>4, <2>1
  <2> QED  BY <2>1, <2>2, <2>3, <2>4, <2>5, StartPromise
<1> QED  BY <1>5, <1>6

LEMMA RestingTypes == \A LL : StoreInv /\ LinesAre(LL) => Resting \in Books
BY RestingType

LEMMA RestingTypeAfter ==
    (\A LL : StoreInv /\ LinesAre(LL) => Resting \in Books)'
BY RestingTypes, PTL

LEMMA CancelPromise ==
    ASSUME AtRest, BookInv', NEW id \in Ids, RejectCancel(id) \/ Cancel(id),
           Atomic!Cancel(id)
    PROVE  Lined' /\ PromiseKept'
<1>1. id \in Atomic!LiveIds(orders) <=> map[id] # NIL
  BY LiveIdsAreMapped DEF AtRest
<1>2. PICK after : after = Atomic!AfterCancel(orders, id) /\ Atomic!Take(after)
  BY DEF Atomic!Cancel
<1>3. CASE RejectCancel(id)
  <2>1. PICK why : why = "UnknownOrderId"
    OBVIOUS
  <2>2. after = Atomic!Refused(orders, id, why)
    BY <1>1, <1>2, <1>3, <2>1 DEF RejectCancel, Atomic!AfterCancel
  <2>3. Emit(<<>>, <<Rejected(id, why)>>) /\ UNCHANGED <<book, taker>>
    BY <1>3, <2>1 DEF RejectCancel
  <2> QED  BY <1>2, <2>2, <2>3, RefusePromise
<1>4. CASE Cancel(id)
  <2>1. /\ map[id] # NIL /\ Unlink(map[id]) /\ taker' = NIL
        /\ Emit(<<>>, <<Closed(id, "Cancelled")>>)
    BY <1>4 DEF Cancel
  <2>2. Lined' /\ Resting' = Atomic!Without(Resting, id)
    <3>1. StoreInv'
      BY DEF BookInv
    <3> QED  BY <2>1, <3>1, UnlinkBook DEF AtRest
  <2>3. after = [book |-> Atomic!Without(orders, id),
                 events |-> <<Closed(id, "Cancelled")>>]
    BY <1>1, <1>2, <2>1, SameWords DEF Atomic!AfterCancel
  <2>4. /\ orders' = Atomic!Without(orders, id)
        /\ out' = <<Closed(id, "Cancelled")>> /\ number' = (number + 1) % SeqModulus
    BY <1>2, <2>3 DEF Atomic!Take
  <2>5. evs' = <<Closed(id, "Cancelled")>> /\ seq' = (seq + 1) % SeqModulus
    BY <2>1 DEF Emit
  <2> QED  BY <2>1, <2>2, <2>4, <2>5 DEF PromiseKept, AtRest
<1> QED  BY <1>3, <1>4

\* What replace() sees of the order is what the listing shows of it.
SeesOrder(id, l, s, n) ==
    /\ l = map[id] /\ l \in Locs /\ slot[l] \in Orders /\ slot[l] # NIL
    /\ s = slot[l].side /\ s \in Sides /\ n \in Nat
    /\ Atomic!SideOf(orders, id) = s /\ Atomic!PlaceOf(orders, id) = n
    /\ n \in DOMAIN orders[s]
    /\ orders[s][n].id = id /\ orders[s][n].qty = slot[l].qty
    /\ orders[s][n].price = slot[l].price /\ orders[s][n].tif = slot[l].tif
    /\ \E LL : IsListedAt(LL, l, s, n)

LEMMA OrderIsSeen ==
    ASSUME AtRest, NEW id \in Ids, map[id] # NIL
    PROVE  \E l, s, n : SeesOrder(id, l, s, n)
<1>1. PICK l : l = map[id]
  OBVIOUS
<1>2. l \in Locs /\ slot[l] \in Orders /\ slot[l] # NIL /\ slot[l].id = id
  BY <1>1, AtRestFacts, EntryIsLive DEF AtRest
<1>3. PICK s \in Sides : s = slot[l].side
  BY <1>2 DEF Orders
<1>4. PICK LL \in [Sides -> Seq(Locs)] : LinesAre(LL)
  BY DEF AtRest, Lined
<1>5. OnSide(s, LL[s], Resting[s])
  BY <1>4, AtRestFacts, LinesOnSides
<1>6. PICK n \in DOMAIN LL[s] : LL[s][n] = l
  BY <1>2, <1>3, <1>5, SideFacts
<1>7. IsListedAt(LL, l, s, n)
  BY <1>2, <1>3, <1>4, <1>6 DEF IsListedAt
<1>8. /\ Atomic!SideOf(Resting, id) = s /\ Atomic!PlaceOf(Resting, id) = n
      /\ n \in DOMAIN Resting[s] /\ n \in Nat
      /\ Resting[s][n].id = slot[l].id /\ Resting[s][n].qty = slot[l].qty
      /\ Resting[s][n].price = slot[l].price /\ Resting[s][n].tif = slot[l].tif
  BY <1>2, <1>7, AtRestFacts, PlaceIs
<1>9. SeesOrder(id, l, s, n)
  BY <1>1, <1>2, <1>3, <1>7, <1>8 DEF SeesOrder, AtRest
<1> QED  BY <1>9

LEMMA ReplaceRefused ==
    ASSUME AtRest, BookInv', NEW id \in Ids, NEW price \in CmdPrices,
           NEW qty \in CmdQtys, RejectReplace(id, price, qty),
           Atomic!Replace(id, price, qty)
    PROVE  Lined' /\ PromiseKept'
<1>1. id \in Atomic!LiveIds(orders) <=> map[id] # NIL
  BY LiveIdsAreMapped DEF AtRest
<1>2. PICK after : /\ after = Atomic!AfterReplace(orders, Prices, id, price, qty)
                   /\ Atomic!Take(after)
  BY DEF Atomic!Replace
<1>3. PICK fault : fault = ReplaceFault(id, price, qty)
  OBVIOUS
<1>4. fault # NIL /\ Emit(<<>>, <<Rejected(id, fault)>>) /\ UNCHANGED <<book, taker>>
  BY <1>3 DEF RejectReplace
<1>5. price \notin Prices <=> ~PriceOK(price)
  BY DEF Prices
<1>6. after = Atomic!Refused(orders, id, fault)
  BY <1>1, <1>2, <1>3, <1>4, <1>5 DEF ReplaceFault, Atomic!AfterReplace
<1> QED  BY <1>2, <1>4, <1>6, RefusePromise

\* A command that both let in, as the atomic book reads it.
LEMMA ReplaceAllowed ==
    ASSUME AtRest, NEW id \in Ids, NEW price \in CmdPrices, NEW qty \in CmdQtys,
           ReplaceFault(id, price, qty) = NIL, NEW l, NEW s, NEW n,
           SeesOrder(id, l, s, n), NEW t,
           t = [cmd |-> "replace", id |-> id, side |-> s, limit |-> price,
                qty |-> qty, tif |-> slot[l].tif]
    PROVE  Atomic!AfterReplace(orders, Prices, id, price, qty) =
             IF KeepsPriority(slot[l], price, qty)
             THEN [book |-> [orders EXCEPT ![s][n].qty = qty],
                   events |-> <<Replaced(id, price, qty)>>]
             ELSE Atomic!Settled(Atomic!Without(orders, id), t)
<1>1. map[id] # NIL /\ price \in Prices /\ qty \in LiveQtys
  BY ReplacePasses DEF AtRest
<1>2. id \in Atomic!LiveIds(orders) /\ qty # 0
  BY <1>1, LiveIdsAreMapped DEF AtRest, LiveQtys
<1>3. PICK o : o = orders[s][n] /\ o.price = slot[l].price /\ o.qty = slot[l].qty
                 /\ o.tif = slot[l].tif
  BY DEF SeesOrder
<1>4. Atomic!SideOf(orders, id) = s /\ Atomic!PlaceOf(orders, id) = n
  BY DEF SeesOrder
<1>5. Atomic!Replaced(id, price, qty) = Replaced(id, price, qty)
  BY SameWords
<1>6. KeepsPriority(slot[l], price, qty) <=> price = o.price /\ qty <= o.qty
  BY <1>3 DEF KeepsPriority
<1>7. CASE KeepsPriority(slot[l], price, qty)
  BY <1>1, <1>2, <1>3, <1>4, <1>5, <1>6, <1>7 DEF Atomic!AfterReplace
<1>8. CASE ~KeepsPriority(slot[l], price, qty)
  BY <1>1, <1>2, <1>3, <1>4, <1>6, <1>8 DEF Atomic!AfterReplace
<1> QED  BY <1>7, <1>8

LEMMA ReplaceInPlacePromise ==
    ASSUME AtRest, BookInv', NEW id \in Ids, NEW price \in CmdPrices,
           NEW qty \in CmdQtys, ReplaceInPlace(id, price, qty),
           Atomic!Replace(id, price, qty)
    PROVE  Lined' /\ PromiseKept'
<1>1. ReplaceFault(id, price, qty) = NIL
  BY DEF ReplaceInPlace
<1>2. map[id] # NIL /\ qty \in LiveQtys
  BY <1>1, ReplacePasses DEF AtRest
<1>3. PICK l, s, n : SeesOrder(id, l, s, n)
  BY <1>2, OrderIsSeen
<1>4. /\ l = map[id] /\ s \in Sides /\ n \in DOMAIN orders[s] /\ n \in Nat
      /\ \E LL : IsListedAt(LL, l, s, n)
  BY <1>3 DEF SeesOrder
<1>5. /\ KeepsPriority(slot[l], price, qty) /\ taker' = NIL
      /\ Resizes(l, qty) /\ Emit(<<>>, <<Replaced(id, price, qty)>>)
  BY <1>4 DEF ReplaceInPlace, Resizes, AtRest
<1>6. PICK t : t = [cmd |-> "replace", id |-> id, side |-> s, limit |-> price,
                    qty |-> qty, tif |-> slot[l].tif]
  OBVIOUS
<1>7. Atomic!AfterReplace(orders, Prices, id, price, qty)
        = [book |-> [orders EXCEPT ![s][n].qty = qty],
           events |-> <<Replaced(id, price, qty)>>]
  BY <1>1, <1>3, <1>5, <1>6, ReplaceAllowed
<1>8. /\ orders' = [orders EXCEPT ![s][n].qty = qty]
      /\ out' = <<Replaced(id, price, qty)>> /\ number' = (number + 1) % SeqModulus
  BY <1>7 DEF Atomic!Replace, Atomic!Take
<1>9. PICK b \in Books : b = orders /\ b = Resting
  BY AtRestFacts DEF AtRest
<1>10. PICK o \in Seq(Listed) : o = b[s]
  BY <1>4, <1>9 DEF Books
<1>11. n \in 1 .. Len(o) /\ o[n] \in Listed
  <2>1. n \in 1 .. Len(o)
    BY <1>4, <1>9, <1>10, ListedFacts
  <2> QED  BY <2>1, ListedFacts
<1>12. PICK x \in Listed :
          /\ x = [o[n] EXCEPT !.qty = qty]
          /\ x = [id |-> o[n].id, price |-> o[n].price, qty |-> qty, tif |-> o[n].tif]
  <2>1. PICK y \in Listed : y = o[n]
    BY <1>11
  <2>2. PICK z : z = [id |-> y.id, price |-> y.price, qty |-> qty, tif |-> y.tif]
    OBVIOUS
  <2>3. z \in Listed
    BY <1>2, <2>2 DEF Listed
  <2>4. z = [y EXCEPT !.qty = qty]
    BY <2>2 DEF Listed
  <2> QED  BY <2>1, <2>2, <2>3, <2>4
<1>13. PICK o2 : o2 = [o EXCEPT ![n] = x]
  OBVIOUS
<1>14. o2 \in Seq(Listed) /\ Resized(o, o2, n, qty)
  <2>1. /\ o2 \in Seq(Listed) /\ Len(o2) = Len(o)
        /\ \A j \in 1 .. Len(o) : o2[j] = IF j = n THEN x ELSE o[j]
    BY <1>11, <1>12, <1>13
  <2> QED  BY <1>12, <2>1 DEF Resized
<1>15. Lined' /\ Resting' = [Resting EXCEPT ![s] = o2]
  <2>1. StoreInv /\ StoreInv' /\ Resized(Resting[s], o2, n, qty)
    BY <1>9, <1>10, <1>14, AtRestFacts DEF BookInv
  <2> QED  BY <1>2, <1>4, <1>5, <1>14, <2>1, ResizeBook
<1>16. [orders EXCEPT ![s][n].qty = qty] = [b EXCEPT ![s] = o2]
  BY <1>4, <1>9, <1>10, <1>12, <1>13
<1>17. evs' = <<Replaced(id, price, qty)>> /\ seq' = (seq + 1) % SeqModulus
  BY <1>5 DEF Emit
<1> QED  BY <1>5, <1>8, <1>9, <1>15, <1>16, <1>17 DEF PromiseKept, AtRest

LEMMA StartReplacePromise ==
    ASSUME AtRest, BookInv', NEW id \in Ids, NEW price \in CmdPrices,
           NEW qty \in CmdQtys, StartReplace(id, price, qty),
           Atomic!Replace(id, price, qty)
    PROVE  Lined' /\ PromiseKept'
<1>1. ReplaceFault(id, price, qty) = NIL
  BY DEF StartReplace
<1>2. map[id] # NIL /\ price \in Prices /\ qty \in LiveQtys
  BY <1>1, ReplacePasses DEF AtRest
<1>3. PICK l, s, n : SeesOrder(id, l, s, n)
  BY <1>2, OrderIsSeen
<1>4. l = map[id] /\ s \in Sides /\ slot[l] \in Orders /\ s = slot[l].side
  BY <1>3 DEF SeesOrder
<1>5. PICK t : t = [cmd |-> "replace", id |-> id, side |-> s, limit |-> price,
                    qty |-> qty, tif |-> slot[l].tif]
  OBVIOUS
<1>6. /\ ~KeepsPriority(slot[l], price, qty) /\ Unlink(map[id])
      /\ taker' = t /\ Emit(<<>>, <<>>)
  BY <1>4, <1>5 DEF StartReplace
<1>7. t \in Takers
  BY <1>2, <1>4, <1>5, QtyWidth DEF Takers, Orders
<1>8. PICK b : b = Atomic!Without(orders, id)
  OBVIOUS
<1>9. Lined' /\ Resting' = b
  <2>1. StoreInv'
    BY DEF BookInv
  <2>2. Lined' /\ Resting' = Atomic!Without(Resting, id)
    BY <1>2, <1>6, <2>1, UnlinkBook DEF AtRest
  <2> QED  BY <1>8, <2>2 DEF AtRest
<1>10. b \in Books
  <2>1. (\A LL : StoreInv /\ LinesAre(LL) => Resting \in Books)'
    BY RestingTypeAfter
  <2> QED  BY <1>9, <2>1 DEF BookInv, Lined
<1>11. Atomic!Take(Atomic!Settled(b, t))
  <2>1. Atomic!AfterReplace(orders, Prices, id, price, qty) = Atomic!Settled(b, t)
    BY <1>1, <1>3, <1>5, <1>6, <1>8, ReplaceAllowed
  <2> QED  BY <2>1 DEF Atomic!Replace
<1> QED  BY <1>6, <1>7, <1>9, <1>10, <1>11, StartPromise

----------------------------------------------------------------------------

PromiseInv == BookInv /\ TotalsExact /\ Lined /\ PromiseKept

LEMMA JointIsNext ==
    ASSUME JointNext
    PROVE  Next
BY DEF JointNext, JointNew, JointCancel, JointReplace, JointLoop, Next, Command,
       NewCommand, CancelCommand, ReplaceCommand

LEMMA JointStepKeeps ==
    ASSUME PromiseInv, NothingWraps, PricesInRange, JointNext
    PROVE  PromiseInv'
<1>1. BookInv' /\ TotalsExact'
  BY JointIsNext, NextKeeps, NextTotals DEF PromiseInv
<1>2. taker = NIL => AtRest
  BY DEF PromiseInv, PromiseKept, AtRest
<1>3. taker # NIL => Crossing
  BY DEF PromiseInv, Crossing
<1>4. CASE JointNew
  <2>1. PICK id \in Ids, side \in Sides, limit \in CmdPrices \cup {NIL},
             qty \in CmdQtys, tif \in Tifs :
               /\ \/ RejectNew(id, side, limit, qty, tif)
                  \/ StartNew(id, side, limit, qty, tif)
               /\ Atomic!New(id, side, limit, qty, tif)
    BY <1>4 DEF JointNew
  <2>2. AtRest
    BY <1>2, <2>1 DEF RejectNew, StartNew
  <2> QED  BY <1>1, <2>1, <2>2, NewPromise DEF PromiseInv
<1>5. CASE JointCancel
  <2>1. PICK id \in Ids : (RejectCancel(id) \/ Cancel(id)) /\ Atomic!Cancel(id)
    BY <1>5 DEF JointCancel
  <2>2. AtRest
    BY <1>2, <2>1 DEF RejectCancel, Cancel
  <2> QED  BY <1>1, <2>1, <2>2, CancelPromise DEF PromiseInv
<1>6. CASE JointReplace
  <2>1. PICK id \in Ids, price \in CmdPrices, qty \in CmdQtys :
               /\ \/ RejectReplace(id, price, qty)
                  \/ ReplaceInPlace(id, price, qty)
                  \/ StartReplace(id, price, qty)
               /\ Atomic!Replace(id, price, qty)
    BY <1>6 DEF JointReplace
  <2>2. AtRest
    BY <1>2, <2>1 DEF RejectReplace, ReplaceInPlace, StartReplace
  <2> QED  BY <1>1, <2>1, <2>2, ReplaceRefused, ReplaceInPlacePromise,
              StartReplacePromise DEF PromiseInv
<1>7. CASE JointLoop
  <2>1. (Fill \/ Finish) /\ UNCHANGED promise
    BY <1>7 DEF JointLoop
  <2>2. Crossing
    BY <1>3, <2>1 DEF Fill, Finish, FinishNewFilled, FinishNewRests,
       FinishNewExpires, FinishReplaceFilled, FinishReplaceRests, Crossed
  <2> QED  BY <1>1, <2>1, <2>2, FillPromise, FinishPromise DEF PromiseInv
<1> QED  BY <1>4, <1>5, <1>6, <1>7 DEF JointNext

LEMMA JointStutterKeeps ==
    ASSUME PromiseInv, UNCHANGED <<vars, promise>>
    PROVE  PromiseInv'
<1>1. BookInv' /\ TotalsExact'
  <2>1. [Next]_vars
    BY DEF vars
  <2> QED  BY <2>1, NextKeeps, NextTotals DEF PromiseInv
<1>2. Lined' /\ Resting' = Resting
  BY <1>1, SameBook DEF PromiseInv, BookInv, vars
<1>3. PromiseKept'
  <2>1. CASE taker = NIL
    BY <1>2, <2>1 DEF PromiseInv, PromiseKept, vars, promise
  <2>2. CASE taker # NIL
    <3>1. Owes(taker, Resting)
      BY <2>2 DEF PromiseInv, PromiseKept, ToCome, Owes
    <3>2. taker' # NIL /\ taker' = taker
      BY <2>2 DEF vars
    <3>3. Owes(taker, Resting)'
      BY <1>2, <3>1, <3>2 DEF Owes, vars, promise
    <3> QED  BY <3>2, <3>3, PromiseAfter
  <2> QED  BY <2>1, <2>2
<1> QED  BY <1>1, <1>2, <1>3 DEF PromiseInv

LEMMA EmptyLines ==
    ASSUME EmptyBook, BookInv
    PROVE  Lined /\ Resting = [s \in Sides |-> <<>>]
<1>1. PICK LL \in [Sides -> Seq(Locs)] : LL = [s \in Sides |-> <<>>]
  <2>1. <<>> \in Seq(Locs)
    OBVIOUS
  <2>2. [s \in Sides |-> <<>>] \in [Sides -> Seq(Locs)]
    BY <2>1
  <2> QED  BY <2>2
<1>2. LinesAre(LL)
  <2>1. \A s \in Sides : Line(slot, queue[s], s, <<>>)
    BY DEF EmptyBook, Line, LiveOn
  <2> QED  BY <1>1, <2>1 DEF LinesAre, IsLine
<1>3. Resting = [s \in Sides |-> ListOf(slot, LL[s])]
  BY <1>2, RestingBook DEF BookInv
<1>4. \A s \in Sides : ListOf(slot, LL[s]) = <<>>
  BY <1>1 DEF ListOf
<1> QED  BY <1>2, <1>3, <1>4 DEF Lined

LEMMA JointInitHolds ==
    ASSUME JointInit
    PROVE  PromiseInv
<1>1. Init /\ Atomic!Init
  BY DEF JointInit
<1>2. BookInv /\ TotalsExact /\ EmptyBook
  BY <1>1, InitHolds, InitTotals DEF Init, EmptyBook
<1>3. Lined /\ Resting = [s \in Sides |-> <<>>]
  BY <1>2, EmptyLines
<1>4. orders = [s \in Sides |-> <<>>] /\ out = <<>> /\ number = 0
  BY <1>1, SameWords DEF Atomic!Init
<1>5. PromiseKept
  BY <1>1, <1>3, <1>4 DEF Init, PromiseKept
<1> QED  BY <1>2, <1>3, <1>5 DEF PromiseInv

\* The command loop implements the atomic book: prices and quantities, time
\* priority, the events and their order, and their numbers.  While no total of
\* live quantities in reach exceeds a Qty, and a tree's prices are within the
\* range fillable() looks at, nothing tells the two apart.
THEOREM BookKeepsPromise ==
    ASSUME Prices \subseteq LowEnd .. HighEnd
    PROVE  JointSpec /\ []NothingWraps => []PromiseKept
<1>1. JointInit => PromiseInv
  BY JointInitHolds
<1>2. PricesInRange
  BY DEF PricesInRange
<1>3. PromiseInv /\ NothingWraps /\ [JointNext]_<<vars, promise>> => PromiseInv'
  BY <1>2, JointStepKeeps, JointStutterKeeps
<1>4. PromiseInv => PromiseKept
  BY DEF PromiseInv
<1> QED  BY <1>1, <1>3, <1>4, PTL DEF JointSpec

\* The same from numbers an operator knows: while max_orders orders of the
\* largest quantity fit a Qty, no sum wraps and the promise is kept.
THEOREM SmallBookKeepsPromise ==
    ASSUME Prices \subseteq LowEnd .. HighEnd, NEW K, QtysFit(K)
    PROVE  JointSpec => []PromiseKept
<1>1. JointInit => PromiseInv /\ UpTo(K)
  BY JointInitHolds DEF JointInit, Init, UpTo
<1>2. PricesInRange
  BY DEF PricesInRange
<1>3. PromiseInv /\ UpTo(K) => NothingWraps
  BY UpToFits DEF PromiseInv
<1>4. PromiseInv /\ UpTo(K) /\ [JointNext]_<<vars, promise>> => PromiseInv' /\ UpTo(K)'
  <2> SUFFICES ASSUME PromiseInv, UpTo(K), [JointNext]_<<vars, promise>>
               PROVE  PromiseInv' /\ UpTo(K)'
    OBVIOUS
  <2>1. [Next]_vars
    BY JointIsNext
  <2>2. UpTo(K)'
    BY <2>1, NextUpTo DEF PromiseInv
  <2>3. PromiseInv'
    BY <1>2, <1>3, JointStepKeeps, JointStutterKeeps
  <2> QED  BY <2>2, <2>3
<1>5. PromiseInv => PromiseKept
  BY DEF PromiseInv
<1> QED  BY <1>1, <1>4, <1>5, PTL DEF JointSpec

\* Until the sink throws the book keeps its promise.
PromiseUntil == thrown = "none" => PromiseInv

THEOREM PromiseHoldsUntilThrown ==
    ASSUME Prices \subseteq LowEnd .. HighEnd
    PROVE  ThrowSpec /\ []NothingWraps => []PromiseUntilThrown
<1>1. ThrowInit => PromiseUntil
  BY JointInitHolds DEF ThrowInit, PromiseUntil
<1>2. PricesInRange
  BY DEF PricesInRange
<1>3. PromiseUntil /\ NothingWraps /\ [ThrowNext]_<<vars, promise, sink>>
        => PromiseUntil'
  <2> SUFFICES ASSUME PromiseUntil, NothingWraps, thrown' = "none",
                      [ThrowNext]_<<vars, promise, sink>>
               PROVE  PromiseInv'
    BY DEF PromiseUntil
  <2>1. CASE BookStep
    BY <1>2, <2>1, JointStepKeeps DEF BookStep, PromiseUntil
  <2>2. CASE \E bp \in Prices : ThrowAtTrade(bp) \/ ThrowAtClosed(bp)
    BY <2>2 DEF ThrowAtTrade, ThrowAtClosed, Announce
  <2>3. CASE UNCHANGED <<vars, promise, sink>>
    BY <2>3, JointStutterKeeps DEF PromiseUntil, sink
  <2> QED  BY <2>1, <2>2, <2>3 DEF ThrowNext
<1>4. PromiseUntil => PromiseUntilThrown
  BY DEF PromiseUntil, PromiseUntilThrown, PromiseInv
<1> QED  BY <1>1, <1>3, <1>4, PTL DEF ThrowSpec

----------------------------------------------------------------------------
(* The commands keep the lines, whatever the totals.                       *)

LEMMA PlaceOnLine ==
    ASSUME StoreInv, Lined, NEW l \in Locs, slot[l] # NIL
    PROVE  \E LL, s, n, o :
              /\ IsListedAt(LL, l, s, n) /\ o \in Seq(Listed) /\ o = Resting[s]
              /\ n \in DOMAIN o
<1>1. PICK s \in Sides : s = slot[l].side
  BY DEF StoreInv, StoreType, Orders
<1>2. PICK LL : LinesAre(LL)
  BY DEF Lined
<1>3. PICK L, o : L = LL[s] /\ o = Resting[s] /\ OnSide(s, L, o)
  BY <1>2, LinesOnSides
<1>4. PICK n \in 1 .. Len(L) : L[n] = l
  BY <1>1, <1>3, SideFacts
<1>5. n \in DOMAIN L /\ n \in DOMAIN o
  BY <1>3, <1>4, SideFacts
<1>6. o \in Seq(Listed)
  BY <1>3 DEF OnSide
<1>7. IsListedAt(LL, l, s, n)
  BY <1>1, <1>2, <1>3, <1>4, <1>5 DEF IsListedAt
<1> QED  BY <1>3, <1>5, <1>6, <1>7

LEMMA LeavesLined ==
    ASSUME StoreInv, StoreInv', Lined, NEW l \in Locs, slot[l] # NIL,
           NEW i, NEW q2, Leaves(l, i, q2)
    PROVE  Lined'
<1>1. PICK LL, s, n, o : /\ IsListedAt(LL, l, s, n) /\ o \in Seq(Listed)
                         /\ o = Resting[s] /\ n \in DOMAIN o
  BY PlaceOnLine
<1>2. PICK o2 \in Seq(Listed) : Drops(o, o2, n)
  BY <1>1, RemoveAtIs
<1>3. Drops(Resting[s], o2, n)
  BY <1>1, <1>2
<1> QED  BY <1>1, <1>2, <1>3, LeavesBook

LEMMA ResizeLined ==
    ASSUME StoreInv, StoreInv', Lined, NEW l \in Locs, slot[l] # NIL,
           NEW r \in LiveQtys, Resizes(l, r)
    PROVE  Lined'
<1>1. PICK LL, s, n, o : /\ IsListedAt(LL, l, s, n) /\ o \in Seq(Listed)
                         /\ o = Resting[s] /\ n \in DOMAIN o
  BY PlaceOnLine
<1>2. PICK x : x = o[n]
  OBVIOUS
<1>3. x \in Listed
  BY <1>1, <1>2, ListedFacts
<1>4. PICK y : y = [id |-> x.id, price |-> x.price, qty |-> r, tif |-> x.tif]
  OBVIOUS
<1>5. y \in Listed
  BY <1>3, <1>4 DEF Listed
<1>6. PICK o2 : o2 = [o EXCEPT ![n] = y]
  OBVIOUS
<1>7. /\ o2 \in Seq(Listed) /\ Len(o2) = Len(o)
      /\ \A j \in 1 .. Len(o) : o2[j] = IF j = n THEN y ELSE o[j]
  BY <1>1, <1>5, <1>6
<1>8. Resized(o, o2, n, r)
  BY <1>2, <1>4, <1>7 DEF Resized
<1>9. Resized(Resting[s], o2, n, r)
  BY <1>1, <1>8
<1> QED  BY <1>1, <1>7, <1>9, ResizeBook

LEMMA NextLined ==
    ASSUME BookInv, Lined, Next
    PROVE  Lined'
<1>1. BookInv' /\ StoreInv /\ StoreInv'
  BY NextKeeps DEF BookInv
<1>2. CASE UNCHANGED <<queue, slot>>
  BY <1>1, <1>2, SameBook
<1>3. ASSUME NEW l \in FreeLocs, taker # NIL, Crossed, taker.qty > 0,
             taker.limit # NIL, Rest(l, Remainder(taker.limit))
      PROVE  Lined'
  <2>1. PICK o \in Orders : o = Remainder(taker.limit)
    BY <1>3, TakerFields, QtyWidth
       DEF Remainder, Orders, LiveQtys, BookInv, MapInv, MapType
  <2>2. Rest(l, o) /\ l \in Locs
    BY <1>3, <2>1 DEF FreeLocs
  <2> QED  BY <1>1, <2>2, RestBook
<1>4. CASE NewCommand
  BY <1>2, <1>4 DEF NewCommand, RejectNew, StartNew, book
<1>5. CASE CancelCommand
  <2> PICK id \in Ids : RejectCancel(id) \/ Cancel(id)
    BY <1>5 DEF CancelCommand
  <2>1. CASE RejectCancel(id)
    BY <1>2, <2>1 DEF RejectCancel, book
  <2>2. CASE Cancel(id)
    <3>1. PICK l \in Locs : l = map[id] /\ slot[l] # NIL
      BY <2>2, EntryIsLive DEF Cancel, BookInv
    <3>2. Unlink(l)
      BY <2>2, <3>1 DEF Cancel
    <3>3. PICK i, q2 : Leaves(l, i, q2)
      BY <3>1, <3>2, UnlinkLeaves DEF BookInv
    <3> QED  BY <1>1, <3>1, <3>3, LeavesLined
  <2> QED  BY <2>1, <2>2
<1>6. CASE ReplaceCommand
  <2> PICK id \in Ids, price \in CmdPrices, qty \in CmdQtys :
              \/ RejectReplace(id, price, qty)
              \/ ReplaceInPlace(id, price, qty)
              \/ StartReplace(id, price, qty)
    BY <1>6 DEF ReplaceCommand
  <2>1. CASE RejectReplace(id, price, qty)
    BY <1>2, <2>1 DEF RejectReplace, book
  <2>2. CASE ReplaceInPlace(id, price, qty)
    <3>1. map[id] # NIL /\ qty \in LiveQtys
      BY <2>2, ReplacePasses DEF ReplaceInPlace
    <3>2. PICK l \in Locs : l = map[id] /\ slot[l] # NIL
      BY <2>2, <3>1, EntryIsLive DEF ReplaceInPlace, BookInv
    <3>3. Resizes(l, qty)
      BY <2>2, <3>2 DEF ReplaceInPlace, Resizes
    <3> QED  BY <1>1, <3>1, <3>2, <3>3, ResizeLined
  <2>3. CASE StartReplace(id, price, qty)
    <3>1. PICK l \in Locs : l = map[id] /\ slot[l] # NIL
      BY <2>3, ReplacePasses, EntryIsLive DEF StartReplace, BookInv
    <3>2. Unlink(l)
      BY <2>3, <3>1 DEF StartReplace
    <3>3. PICK i, q2 : Leaves(l, i, q2)
      BY <3>1, <3>2, UnlinkLeaves DEF BookInv
    <3> QED  BY <1>1, <3>1, <3>3, LeavesLined
  <2> QED  BY <2>1, <2>2, <2>3
<1>7. CASE Fill
  <2>1. PICK bp \in index[Opposite(taker.side)] : FillMaker(bp) \/ FillTaker(bp)
    BY <1>7 DEF Fill
  <2>2. taker \in Takers /\ taker.qty > 0
    BY <1>7 DEF Fill, BookInv, MapInv, MapType
  <2>3. Opposite(taker.side) \in Sides
    BY DEF Opposite, Sides
  <2>4. PICK l \in Locs : l = Head(queue[Opposite(taker.side)][bp])
    BY <2>3, HeadIsLive DEF BookInv
  <2>5. /\ slot[l] \in Orders /\ slot[l] # NIL
        /\ slot[l].side = Opposite(taker.side) /\ slot[l].price = bp
    BY <2>3, <2>4, HeadIsLive, NilIsNoRecord DEF BookInv
  <2>6. CASE FillMaker(bp)
    <3>1. Leaves(l, 1, Tail(queue[Opposite(taker.side)][bp]))
      BY <2>4, <2>6, FillMakerLeaves DEF BookInv
    <3> QED  BY <1>1, <2>5, <3>1, LeavesLined
  <2>7. CASE FillTaker(bp)
    <3>1. slot[l].qty > taker.qty
      BY <2>4, <2>7 DEF FillTaker
    <3>2. taker.qty \in 0 .. (QtyMod - 1)
      BY <2>2, TakerFields
    <3>3. slot[l].qty \in 1 .. (QtyMod - 1)
      BY <2>5 DEF Orders, LiveQtys
    <3>4. PICK r \in LiveQtys : r = slot[l].qty - taker.qty
      BY <3>1, <3>2, <3>3, QtyWidth DEF LiveQtys
    <3>5. Resizes(l, r)
      BY <2>4, <2>7, <3>4 DEF FillTaker, Resizes
    <3> QED  BY <1>1, <2>5, <3>5, ResizeLined
  <2> QED  BY <2>1, <2>6, <2>7
<1>8. CASE Finish
  <2>1. CASE FinishNewFilled \/ FinishNewExpires \/ FinishReplaceFilled
    BY <1>2, <2>1
       DEF FinishNewFilled, FinishNewExpires, FinishReplaceFilled, book
  <2>2. CASE FinishNewRests
    BY <1>3, <2>2 DEF FinishNewRests, MayRest, Crossed
  <2>3. CASE FinishReplaceRests
    <3>1. taker # NIL /\ taker.limit # NIL
      BY <2>3, TakerFields, PricesAreTicks, NilIsNoValue
         DEF FinishReplaceRests, Crossed, BookInv, MapInv, MapType, Prices
    <3> QED  BY <1>3, <2>3, <3>1 DEF FinishReplaceRests
  <2> QED  BY <1>8, <2>1, <2>2, <2>3 DEF Finish
<1> QED  BY <1>4, <1>5, <1>6, <1>7, <1>8 DEF Next, Command

----------------------------------------------------------------------------
(* A sink that throws.                                                     *)

\* The part of SurvivesThrow that does not ask which entries name the dead, nor
\* which levels the index has.
StillAgrees ==
    /\ QueuedAreLive /\ LiveAreQueued /\ LiveAreMapped
    /\ TotalsMatch
    /\ live = Cardinality({l \in Locs : slot[l] # NIL})

\* An entry names a live order of its id, or it is that of the replace that
\* was cut off.
EntriesNameOrders ==
    \A id \in Ids : map[id] # NIL =>
      IF Abandoned(id) THEN slot[map[id]] = NIL
      ELSE slot[map[id]] # NIL /\ slot[map[id]].id = id

LEMMA SurvivesWhen ==
    ASSUME StillAgrees, EntriesNameOrders, IndexKeepsLevels
    PROVE  SurvivesThrow
BY DEF StillAgrees, EntriesNameOrders, SurvivesThrow

LEMMA SurvivesAfter ==
    (StillAgrees /\ EntriesNameOrders /\ IndexKeepsLevels => SurvivesThrow)'
BY SurvivesWhen, PTL

LEMMA BookAgrees == BookInv /\ TotalsExact => StillAgrees
<1>1. BookInv /\ TotalsExact => TotalsMatch
  BY StoreHasLevels, LevelsAddUp DEF BookInv
<1> QED  BY <1>1 DEF BookInv, StoreInv, MapInv, LiveCounted, LiveLocs, StillAgrees

LEMMA BookAgreesAfter == (BookInv /\ TotalsExact => StillAgrees)'
BY BookAgrees, PTL

LEMMA LevelsAddUpAfter == (LevelsInv /\ TotalsExact => TotalsMatch)'
BY LevelsAddUp, PTL

\* The sink was called with nothing of the fill done yet.
LEMMA CutAtTrade ==
    ASSUME BookInv, TotalsExact, taker # NIL, NEW bp \in Prices, ThrowAtTrade(bp)
    PROVE  SurvivesThrow'
<1>1. UNCHANGED book /\ lost' = taker
  BY DEF ThrowAtTrade, Announce
<1>2. StillAgrees'
  <2>1. StillAgrees
    BY BookAgrees
  <2> QED  BY <1>1, <2>1 DEF StillAgrees, QueuedAreLive, LiveAreQueued,
       LiveAreMapped, TotalsMatch, QtyAt, book
<1>3. EntriesNameOrders'
  <2>1. MappedAreLive
    BY DEF BookInv, MapInv
  <2> QED  BY <1>1, <2>1 DEF MappedAreLive, Replacing, Abandoned, EntriesNameOrders,
       book
<1>4. IndexKeepsLevels'
  <2>1. IndexExact
    BY DEF BookInv, StoreInv
  <2> QED  BY <1>1, <2>1 DEF IndexExact, IndexKeepsLevels, book
<1> QED  BY <1>2, <1>3, <1>4, SurvivesAfter

\* The sink was called with the maker gone and the level still in the index.
LEMMA CutAtClosed ==
    ASSUME BookInv, TotalsExact, taker # NIL, NEW bp \in Prices, ThrowAtClosed(bp)
    PROVE  SurvivesThrow'
<1>1. PICK s \in Sides : s = Opposite(taker.side)
  BY DEF Opposite, Sides
<1>2. bp \in index[s]
  BY <1>1 DEF ThrowAtClosed, Marketable, IsBest
<1>3. PICK q : q = queue[s][bp]
  OBVIOUS
<1>4. PICK l \in Locs : /\ l = Head(q) /\ slot[l] \in Orders
                        /\ slot[l].side = s /\ slot[l].price = bp
                        /\ q \in Seq(Locs) /\ q # <<>> /\ l = q[1]
  BY <1>2, <1>3, HeadIsLive DEF BookInv
<1>5. slot[l] # NIL
  BY <1>4, NilIsNoRecord
<1>6. /\ queue' = [queue EXCEPT ![s][bp] = Tail(q)]
      /\ total' = TotalWith(s, bp, -slot[l].qty)
      /\ slot' = [slot EXCEPT ![l] = NIL]
      /\ live' = live - 1
      /\ map' = [map EXCEPT ![slot[l].id] = NIL]
      /\ lost' = taker
  BY <1>1, <1>3, <1>4 DEF ThrowAtClosed, Announce
<1>7. LeavesLevel(l, 1, Tail(q))
  <2>1. Tail(q) \in Seq(Locs) /\ Drops(q, Tail(q), 1) /\ 1 \in DOMAIN q
    BY <1>4, TailDrops
  <2> QED  BY <1>3, <1>4, <1>6, <2>1 DEF LeavesLevel
<1>8. LevelsInv' /\ \A k \in Locs : slot'[k] = IF k = l THEN NIL ELSE slot[k]
  BY <1>5, <1>7, LeavesLevels DEF BookInv
<1>9. TotalsExact'
  BY <1>5, <1>7, <1>8, LeavesTotals DEF BookInv
<1>10. /\ LiveAreMapped'
       /\ \A x \in Ids : map'[x] # NIL =>
            IF Replacing(x) THEN slot'[map'[x]] = NIL
            ELSE slot'[map'[x]] # NIL /\ slot'[map'[x]].id = x
  BY <1>5, <1>6, <1>8, MakerLeavesMap
<1>11. StillAgrees'
  <2>1. TotalsMatch'
    BY <1>8, <1>9, LevelsAddUpAfter
  <2> QED  BY <1>8, <1>10, <2>1 DEF LevelsInv, LiveCounted, LiveLocs, StillAgrees
<1>12. EntriesNameOrders'
  BY <1>6, <1>10 DEF Replacing, Abandoned, EntriesNameOrders
<1>13. IndexKeepsLevels'
  <2>1. IndexExact
    BY DEF BookInv, StoreInv
  <2>2. /\ index' = index /\ thrown' = "closed" /\ s = Opposite(lost'.side)
        /\ IsBest(s, bp)
    BY <1>1, <1>6 DEF ThrowAtClosed, Announce, Marketable
  <2>3. IsBest(s, bp)'
    BY <2>2 DEF IsBest
  <2>4. ASSUME NEW t \in Sides, NEW p \in Prices, ~(t = s /\ p = bp)
        PROVE  queue'[t][p] = queue[t][p]
    BY <1>6, <2>4 DEF BookInv, StoreInv, StoreType
  <2>5. ASSUME NEW t \in Sides, NEW p \in Prices
        PROVE  /\ queue'[t][p] # <<>> => p \in index'[t]
               /\ p \in index'[t] /\ queue'[t][p] = <<>> =>
                    thrown' = "closed" /\ t = Opposite(lost'.side) /\ IsBest(t, p)'
    <3>1. CASE t = s /\ p = bp
      BY <1>2, <2>2, <2>3, <3>1
    <3>2. CASE ~(t = s /\ p = bp)
      <4>1. p \in index[t] <=> queue[t][p] # <<>>
        BY <2>1 DEF IndexExact
      <4> QED  BY <2>2, <2>4, <3>2, <4>1
    <3> QED  BY <3>1, <3>2
  <2> QED  BY <2>5 DEF IndexKeepsLevels
<1> QED  BY <1>11, <1>12, <1>13, SurvivesAfter

\* Until the sink throws the book is whole; then it stays as it was left.
WholeUntilThrown ==
    /\ thrown = "none" => BookInv /\ TotalsExact /\ lost = NIL
    /\ SurvivesThrow

\* A sink that throws leaves a book that still works, whichever of its calls it
\* was: levels, slots, totals, count and map agree, only the entry of a replace
\* that was cut off names an order that is gone, and the index misses no level and
\* has at most one, the best opposite one, that is empty.
THEOREM BookSurvivesThrow == ThrowSpec => []SurvivesThrow
<1>1. ThrowInit => WholeUntilThrown
  BY InitHolds, InitTotals
     DEF ThrowInit, JointInit, WholeUntilThrown, SurvivesThrow
<1>2. ASSUME WholeUntilThrown, [ThrowNext]_<<vars, promise, sink>>
      PROVE  WholeUntilThrown'
  <2>1. CASE BookStep
    <3>1. BookInv' /\ TotalsExact' /\ lost' = NIL
      BY <1>2, <2>1, JointIsNext, NextKeeps, NextTotals
         DEF BookStep, WholeUntilThrown
    <3>2. CASE thrown' = "none"
      BY <3>1, <3>2 DEF WholeUntilThrown, SurvivesThrow
    <3>3. CASE thrown' # "none"
      <4>1. taker' = NIL
        BY <2>1, <3>3 DEF BookStep
      <4>2. MappedAreLive'
        BY <3>1 DEF BookInv, MapInv
      <4>3. EntriesNameOrders'
        BY <3>1, <4>1, <4>2
           DEF MappedAreLive, Replacing, Abandoned, EntriesNameOrders
      <4>4. IndexKeepsLevels'
        BY <3>1 DEF BookInv, StoreInv, IndexExact, IndexKeepsLevels
      <4> QED  BY <3>1, <3>3, <4>3, <4>4, BookAgreesAfter, SurvivesAfter
               DEF WholeUntilThrown
    <3> QED  BY <3>2, <3>3
  <2>2. ASSUME NEW bp \in Prices, thrown = "none", taker # NIL,
               ThrowAtTrade(bp) \/ ThrowAtClosed(bp)
        PROVE  WholeUntilThrown'
    <3>1. thrown' # "none"
      BY <2>2 DEF ThrowAtTrade, ThrowAtClosed, Announce
    <3>2. SurvivesThrow'
      BY <1>2, <2>2, CutAtTrade, CutAtClosed DEF WholeUntilThrown
    <3> QED  BY <3>1, <3>2 DEF WholeUntilThrown
  <2>3. CASE UNCHANGED <<vars, promise, sink>>
    <3>1. BookInv /\ TotalsExact => BookInv' /\ TotalsExact'
      <4>1. [Next]_vars
        BY <2>3
      <4> QED  BY <4>1, NextKeeps, NextTotals
    <3>2. SurvivesThrow'
      BY <1>2, <2>3 DEF WholeUntilThrown, SurvivesThrow, IndexKeepsLevels, IsBest,
         QueuedAreLive, LiveAreQueued, LiveAreMapped, TotalsMatch, QtyAt, Abandoned, vars, sink
    <3> QED  BY <1>2, <2>3, <3>1, <3>2 DEF WholeUntilThrown, sink
  <2> QED  BY <1>2, <2>1, <2>2, <2>3 DEF ThrowNext
<1>3. WholeUntilThrown => SurvivesThrow
  BY DEF WholeUntilThrown
<1> QED  BY <1>1, <1>2, <1>3, PTL DEF ThrowSpec
----------------------------------------------------------------------------
(* The trades a thrown command has announced.                              *)

\* What the order of that id has left, by the map and the slots.
Left(id) ==
    IF map[id] # NIL /\ slot[map[id]] # NIL THEN slot[map[id]].qty ELSE 0

\* The trades among the first n events in which that order was the maker.
Told(es, n, id) == {i \in 1 .. n : es[i].ev = "trade" /\ es[i].maker = id}

SoldIn(es, n, id) ==
    SumFunctionOnSet([i \in Told(es, n, id) |-> es[i].qty], Told(es, n, id))

SoldAt(es, i, id) ==
    IF es[i].ev = "trade" /\ es[i].maker = id THEN es[i].qty ELSE 0

\* Events that trade have a quantity.
Priced(es, n) ==
    /\ n \in Nat
    /\ \A i \in 1 .. n : es[i].ev = "trade" => es[i].qty \in Int

LEMMA ToldFinite ==
    ASSUME NEW es, NEW n \in Nat, NEW id
    PROVE  IsFiniteSet(Told(es, n, id))
<1>1. IsFiniteSet(1 .. n)
  BY FS_Interval
<1> QED  BY <1>1, FS_Subset DEF Told

LEMMA SoldSame ==
    ASSUME NEW es, NEW fs, NEW n \in Nat, NEW id,
           \A i \in 1 .. n : es[i] = fs[i]
    PROVE  SoldIn(es, n, id) = SoldIn(fs, n, id)
<1>1. PICK T : T = Told(es, n, id) /\ IsFiniteSet(T)
  BY ToldFinite
<1>2. T = Told(fs, n, id) /\ T \subseteq 1 .. n
  BY <1>1 DEF Told
<1>3. \A i \in T : [j \in T |-> es[j].qty][i] = [j \in T |-> fs[j].qty][i]
  BY <1>2
<1>4. SumFunctionOnSet([j \in T |-> es[j].qty], T)
        = SumFunctionOnSet([j \in T |-> fs[j].qty], T)
  BY <1>1, <1>3, SumSame
<1> QED  BY <1>1, <1>2, <1>4 DEF SoldIn

LEMMA SoldInt ==
    ASSUME NEW es, NEW n, Priced(es, n), NEW id
    PROVE  SoldIn(es, n, id) \in Int
<1>1. PICK T : T = Told(es, n, id) /\ IsFiniteSet(T)
  BY ToldFinite DEF Priced
<1>2. \A i \in T : [j \in T |-> es[j].qty][i] \in Int
  BY <1>1 DEF Told, Priced
<1>3. SumFunctionOnSet([j \in T |-> es[j].qty], T) \in Int
  BY <1>1, <1>2, SumInt
<1> QED  BY <1>1, <1>3 DEF SoldIn

\* One more event.
LEMMA SoldNext ==
    ASSUME NEW es, NEW n \in Nat, Priced(es, n + 1), NEW id
    PROVE  SoldIn(es, n + 1, id) = SoldAt(es, n + 1, id) + SoldIn(es, n, id)
<1>1. PICK S, T : S = Told(es, n, id) /\ T = Told(es, n + 1, id)
  OBVIOUS
<1>2. IsFiniteSet(S) /\ IsFiniteSet(T) /\ n + 1 \notin S
  <2>1. n + 1 \in Nat /\ n + 1 \notin 1 .. n
    OBVIOUS
  <2>2. IsFiniteSet(S) /\ IsFiniteSet(T)
    BY <1>1, <2>1, ToldFinite
  <2> QED  BY <1>1, <2>1, <2>2 DEF Told
<1>3. PICK v, w : v = [j \in S |-> es[j].qty] /\ w = [j \in T |-> es[j].qty]
  OBVIOUS
<1>4. /\ SoldIn(es, n, id) = SumFunctionOnSet(v, S)
      /\ SoldIn(es, n + 1, id) = SumFunctionOnSet(w, T)
  BY <1>1, <1>3 DEF SoldIn
<1>5. SoldIn(es, n, id) \in Int
  <2>1. Priced(es, n)
    BY DEF Priced
  <2> QED  BY <2>1, SoldInt
<1>6. CASE es[n + 1].ev = "trade" /\ es[n + 1].maker = id
  <2>1. T = S \cup {n + 1}
    BY <1>1, <1>6 DEF Told
  <2>2. \A x \in S \cup {n + 1} : w[x] \in Int
    BY <1>1, <1>3, <2>1 DEF Told, Priced
  <2>3. SumFunctionOnSet(w, T) = w[n + 1] + SumFunctionOnSet(w, S)
    BY <1>2, <2>1, <2>2, SumAdd
  <2>4. \A x \in S : w[x] = v[x]
    BY <1>3, <2>1
  <2>5. SumFunctionOnSet(w, S) = SumFunctionOnSet(v, S)
    BY <1>2, <2>4, SumSame
  <2>6. w[n + 1] = es[n + 1].qty
    BY <1>3, <2>1
  <2> QED  BY <1>4, <1>6, <2>3, <2>5, <2>6 DEF SoldAt
<1>7. CASE ~(es[n + 1].ev = "trade" /\ es[n + 1].maker = id)
  <2>1. T = S
    BY <1>1, <1>7 DEF Told
  <2>2. SoldIn(es, n + 1, id) = SoldIn(es, n, id)
    BY <1>3, <1>4, <2>1
  <2> QED  BY <1>5, <1>7, <2>2 DEF SoldAt
<1> QED  BY <1>6, <1>7

LEMMA EventsArePriced ==
    ASSUME NEW es \in Seq(Events)
    PROVE  Priced(es, Len(es))
<1>1. \A e \in Events : e.ev = "trade" => e.qty \in Int
  BY DEF Events, LiveQtys
<1>2. Len(es) \in Nat /\ \A i \in 1 .. Len(es) : es[i] \in Events
  OBVIOUS
<1> QED  BY <1>1, <1>2 DEF Priced

\* The announcements counted are all, or all but the last.
Counted == IF thrown = "trade" THEN Len(evs) - 1 ELSE Len(evs)

LEMMA AnnouncedIs ==
    \A id \in Ids :
       Len(evs) \in Nat \ {0} /\ DOMAIN evs = 1 .. Len(evs) =>
         Announced(id) = SoldIn(evs, Counted, id)
<1> SUFFICES ASSUME NEW id \in Ids, Len(evs) \in Nat \ {0},
                    DOMAIN evs = 1 .. Len(evs)
             PROVE  Announced(id) = SoldIn(evs, Counted, id)
  OBVIOUS
<1>1. PICK n : n = Counted
  OBVIOUS
<1>2. {i \in DOMAIN evs : ~(thrown = "trade" /\ i = Len(evs))} = 1 .. n
  <2>1. CASE thrown = "trade"
    <3>1. n = Len(evs) - 1
      BY <1>1, <2>1 DEF Counted
    <3>2. \A i : i \in 1 .. Len(evs) /\ i # Len(evs) <=> i \in 1 .. n
      BY <3>1
    <3> QED  BY <2>1, <3>2
  <2>2. CASE thrown # "trade"
    BY <1>1, <2>2 DEF Counted
  <2> QED  BY <2>1, <2>2
<1>3. PICK T : T = Told(evs, n, id)
  OBVIOUS
<1>4. Announced(id) = SumFunction([i \in T |-> evs[i].qty])
  BY <1>2, <1>3 DEF Announced, Told
<1>5. SumFunction([i \in T |-> evs[i].qty])
        = SumFunctionOnSet([i \in T |-> evs[i].qty], T)
  BY DEF SumFunction
<1> QED  BY <1>1, <1>3, <1>4, <1>5 DEF SoldIn

LEMMA AnnouncedAfter ==
    (\A id \in Ids :
       Len(evs) \in Nat \ {0} /\ DOMAIN evs = 1 .. Len(evs) =>
         Announced(id) = SoldIn(evs, Counted, id))'
BY AnnouncedIs, PTL

\* Where an order's quantity at rest can be looked up by its id.
Tellable ==
    /\ Listable /\ Lined /\ LiveAreMapped
    /\ \A id \in Ids : map[id] # NIL /\ slot[map[id]] # NIL =>
          map[id] \in Locs /\ slot[map[id]].id = id

LEMMA BookIsTellable == BookInv /\ Lined => Tellable
<1> SUFFICES ASSUME BookInv, Lined
             PROVE  Tellable
  OBVIOUS
<1>1. Listable /\ LiveAreMapped
  BY StoreIsListable DEF BookInv, MapInv
<1>2. \A id \in Ids : map[id] # NIL /\ slot[map[id]] # NIL =>
          map[id] \in Locs /\ slot[map[id]].id = id
  BY DEF BookInv, MapInv, MapType, MappedAreLive
<1> QED  BY <1>1, <1>2 DEF Tellable

\* W lists the locations of all live orders, each once.
AllLive(W) ==
    /\ W \in Seq(Locs)
    /\ \A i \in 1 .. Len(W) : slot[W[i]] # NIL
    /\ \A l \in Locs : slot[l] # NIL => \E i \in 1 .. Len(W) : W[i] = l
    /\ \A i, j \in 1 .. Len(W) : W[i] = W[j] => i = j

LEMMA LineIs ==
    ASSUME NEW s, NEW qs, NEW L \in Seq(Locs), NEW n, n = Len(L),
           Line(slot, qs, s, L)
    PROVE  /\ \A i \in 1 .. n : /\ L[i] \in Locs /\ slot[L[i]] # NIL
                               /\ slot[L[i]].side = s
           /\ \A i, j \in 1 .. n : L[i] = L[j] => i = j
           /\ \A l \in Locs : slot[l] # NIL /\ slot[l].side = s =>
                 \E i \in 1 .. n : L[i] = l
<1>1. DOMAIN L = 1 .. n /\ \A i \in 1 .. n : L[i] \in Locs
  OBVIOUS
<1>2. \A i \in 1 .. n : LiveOn(slot, s, L[i])
  BY <1>1 DEF Line
<1>3. \A i, j \in 1 .. n : L[i] = L[j] => i = j
  BY <1>1 DEF Line
<1>4. \A l \in Locs : LiveOn(slot, s, l) => \E i \in 1 .. n : L[i] = l
  BY <1>1 DEF Line
<1> QED  BY <1>1, <1>2, <1>3, <1>4 DEF LiveOn

LEMMA BothLines ==
    ASSUME Listable, Lined
    PROVE  \E W : /\ AllLive(W)
                  /\ Len(Resting.Bid \o Resting.Ask) = Len(W)
                  /\ DOMAIN (Resting.Bid \o Resting.Ask) = 1 .. Len(W)
                  /\ \A i \in 1 .. Len(W) :
                        (Resting.Bid \o Resting.Ask)[i] = OrderAt(slot, W[i])
<1>1. PICK LL \in [Sides -> Seq(Locs)] : LinesAre(LL)
  BY DEF Lined
<1>2. PICK A \in Seq(Locs), B \in Seq(Locs) :
         /\ A = LL["Bid"] /\ B = LL["Ask"]
         /\ Line(slot, queue["Bid"], "Bid", A)
         /\ Line(slot, queue["Ask"], "Ask", B)
  BY <1>1 DEF LinesAre, IsLine, Sides
<1>3. Resting.Bid = ListOf(slot, A) /\ Resting.Ask = ListOf(slot, B)
  BY <1>1, <1>2, RestingLists DEF Sides
<1>4. PICK m \in Nat, n \in Nat :
         /\ m = Len(A) /\ DOMAIN A = 1 .. m
         /\ n = Len(B) /\ DOMAIN B = 1 .. n
  BY <1>2
<1>5. PICK W : W = A \o B
  OBVIOUS
<1>6. /\ W \in Seq(Locs) /\ Len(W) = m + n
      /\ \A i \in 1 .. m : W[i] = A[i]
      /\ \A i \in 1 .. n : W[m + i] = B[i]
  BY <1>4, <1>5, ConcatFacts
<1>7. \A i \in 1 .. (m + n) : i \in 1 .. m \/ \E j \in 1 .. n : i = m + j
  <2> TAKE i \in 1 .. (m + n)
  <2>1. CASE i <= m
    BY <2>1
  <2>2. CASE ~(i <= m)
    <3>1. i - m \in 1 .. n /\ i = m + (i - m)
      BY <2>2
    <3> QED  BY <3>1
  <2> QED  BY <2>1, <2>2
<1>8. /\ \A i \in 1 .. m : /\ A[i] \in Locs /\ slot[A[i]] # NIL
                          /\ slot[A[i]].side = "Bid"
      /\ \A i, j \in 1 .. m : A[i] = A[j] => i = j
      /\ \A l \in Locs : slot[l] # NIL /\ slot[l].side = "Bid" =>
            \E i \in 1 .. m : A[i] = l
  BY <1>2, <1>4, LineIs
<1>9. /\ \A i \in 1 .. n : /\ B[i] \in Locs /\ slot[B[i]] # NIL
                          /\ slot[B[i]].side = "Ask"
      /\ \A i, j \in 1 .. n : B[i] = B[j] => i = j
      /\ \A l \in Locs : slot[l] # NIL /\ slot[l].side = "Ask" =>
            \E i \in 1 .. n : B[i] = l
  BY <1>2, <1>4, LineIs
<1>10. AllLive(W)
  <2>1. ASSUME NEW i \in 1 .. (m + n)
        PROVE  slot[W[i]] # NIL
    <3>1. CASE i \in 1 .. m
      BY <1>6, <1>8, <3>1
    <3>2. ASSUME NEW j \in 1 .. n, i = m + j
          PROVE  slot[W[i]] # NIL
      BY <1>9, <1>6, <3>2, ZenonT(30)
    <3> QED  BY <1>7, <3>1, <3>2
  <2>2. ASSUME NEW l \in Locs, slot[l] # NIL
        PROVE  \E i \in 1 .. (m + n) : W[i] = l
    <3>1. slot[l].side \in {"Bid", "Ask"}
      BY <2>2 DEF Listable, Orders, Sides
    <3>2. CASE slot[l].side = "Bid"
      <4>1. PICK i \in 1 .. m : A[i] = l
        BY <1>8, <2>2, <3>2
      <4>2. i \in 1 .. (m + n)
        OBVIOUS
      <4> QED  BY <1>6, <4>1, <4>2
    <3>3. CASE slot[l].side = "Ask"
      <4>1. PICK i \in 1 .. n : B[i] = l
        BY <1>9, <2>2, <3>3
      <4>2. m + i \in 1 .. (m + n) /\ W[m + i] = l
        BY <1>6, <4>1
      <4> QED  BY <1>6, <4>1, <4>2
    <3> QED  BY <3>1, <3>2, <3>3
  <2>3. ASSUME NEW i \in 1 .. (m + n), NEW j \in 1 .. (m + n), W[i] = W[j]
        PROVE  i = j
    <3>1. CASE i \in 1 .. m /\ j \in 1 .. m
      BY <1>6, <1>8, <2>3, <3>1
    <3>2. ASSUME NEW c \in 1 .. n, NEW d \in 1 .. n, i = m + c, j = m + d
          PROVE  i = j
      <4>1. W[i] = B[c] /\ W[j] = B[d]
        BY <1>6, <3>2
      <4> QED  BY <1>9, <2>3, <3>2, <4>1
    <3>3. ASSUME NEW c \in 1 .. n, i = m + c, j \in 1 .. m
          PROVE  FALSE
      <4>1. W[i] = B[c] /\ W[j] = A[j]
        BY <1>6, <3>3
      <4> QED  BY <1>9, <1>8, <2>3, <3>3, <4>1
    <3>4. ASSUME NEW d \in 1 .. n, j = m + d, i \in 1 .. m
          PROVE  FALSE
      <4>1. W[j] = B[d] /\ W[i] = A[i]
        BY <1>6, <3>4
      <4> QED  BY <1>9, <1>8, <2>3, <3>4, <4>1
    <3> QED  BY <1>7, <3>1, <3>2, <3>3, <3>4
  <2> QED  BY <1>6, <2>1, <2>2, <2>3 DEF AllLive
<1>11. PICK x, y : x = ListOf(slot, A) /\ y = ListOf(slot, B)
  OBVIOUS
<1> DEFINE X == {OrderAt(slot, l) : l \in Locs}
<1>12. /\ x \in Seq(X) /\ Len(x) = m
       /\ \A i \in 1 .. m : x[i] = OrderAt(slot, A[i])
  <2>1. x = [i \in 1 .. m |-> OrderAt(slot, A[i])]
    BY <1>4, <1>11 DEF ListOf
  <2>2. \A i \in 1 .. m : OrderAt(slot, A[i]) \in X
    BY <1>8
  <2> HIDE DEF X
  <2> QED  BY <2>1, <2>2
<1>13. /\ y \in Seq(X) /\ Len(y) = n
       /\ \A i \in 1 .. n : y[i] = OrderAt(slot, B[i])
  <2>1. y = [i \in 1 .. n |-> OrderAt(slot, B[i])]
    BY <1>4, <1>11 DEF ListOf
  <2>2. \A i \in 1 .. n : OrderAt(slot, B[i]) \in X
    BY <1>9
  <2> HIDE DEF X
  <2> QED  BY <2>1, <2>2
<1> HIDE DEF X
<1>14. /\ Len(x \o y) = m + n /\ DOMAIN (x \o y) = 1 .. (m + n)
       /\ \A i \in 1 .. m : (x \o y)[i] = x[i]
       /\ \A i \in 1 .. n : (x \o y)[m + i] = y[i]
  <2>1. /\ x \o y \in Seq(X) /\ Len(x \o y) = Len(x) + Len(y)
        /\ \A j \in 1 .. Len(x) : (x \o y)[j] = x[j]
        /\ \A j \in 1 .. Len(y) : (x \o y)[Len(x) + j] = y[j]
    <3>1. x \in Seq(X) /\ y \in Seq(X)
      BY <1>12, <1>13
    <3> QED  BY <3>1, ConcatFacts
  <2>2. DOMAIN (x \o y) = 1 .. Len(x \o y)
    BY <2>1
  <2>3. Len(x) = m /\ Len(y) = n
    BY <1>12, <1>13
  <2> QED  BY <2>1, <2>2, <2>3
<1>15. \A i \in 1 .. (m + n) : (x \o y)[i] = OrderAt(slot, W[i])
  <2> TAKE i \in 1 .. (m + n)
  <2>1. CASE i \in 1 .. m
    BY <1>6, <1>12, <1>14, <2>1
  <2>2. ASSUME NEW j \in 1 .. n, i = m + j
        PROVE  (x \o y)[i] = OrderAt(slot, W[i])
    BY <1>6, <1>13, <1>14, <2>2
  <2> QED  BY <1>7, <2>1, <2>2
<1>16. x \o y = Resting.Bid \o Resting.Ask
  BY <1>3, <1>11
<1> QED  BY <1>6, <1>10, <1>14, <1>15, <1>16, ZenonT(30)

LEMMA SumOfOne ==
    ASSUME NEW w, NEW e, w[e] \in Int
    PROVE  SumFunctionOnSet(w, {e}) = w[e]
<1>1. IsFiniteSet({}) /\ SumFunctionOnSet(w, {}) = 0
  BY FS_EmptySet, SumEmpty
<1>2. SumFunctionOnSet(w, {} \cup {e}) = w[e] + SumFunctionOnSet(w, {})
  BY <1>1, SumAdd
<1>3. {} \cup {e} = {e}
  OBVIOUS
<1> QED  BY <1>1, <1>2, <1>3

LEMMA QtyLeft ==
    \A id \in Ids : Tellable => QtyAtRest(Resting, id) = Left(id)
<1> SUFFICES ASSUME NEW id \in Ids, Tellable
             PROVE  QtyAtRest(Resting, id) = Left(id)
  OBVIOUS
<1>1. PICK all : all = Resting.Bid \o Resting.Ask
  OBVIOUS
<1>2. PICK W : /\ AllLive(W) /\ DOMAIN all = 1 .. Len(W)
               /\ \A i \in 1 .. Len(W) : all[i] = OrderAt(slot, W[i])
  BY <1>1, BothLines DEF Tellable
<1>3. PICK S : S = {i \in DOMAIN all : all[i].id = id}
  OBVIOUS
<1>4. PICK w : w = [i \in DOMAIN all |-> all[i].qty]
  OBVIOUS
<1>5. QtyAtRest(Resting, id) = SumFunctionOnSet(w, S)
  BY <1>1, <1>3, <1>4 DEF QtyAtRest
<1>6. \A i \in 1 .. Len(W) : /\ W[i] \in Locs /\ slot[W[i]] # NIL
                            /\ all[i].id = slot[W[i]].id
                            /\ all[i].qty = slot[W[i]].qty
  <2>1. \A i \in 1 .. Len(W) : W[i] \in Locs /\ slot[W[i]] # NIL
    BY <1>2 DEF AllLive
  <2> QED  BY <1>2, <2>1 DEF OrderAt
<1>7. \A i \in S : i \in 1 .. Len(W) /\ W[i] = map[id]
  BY <1>2, <1>3, <1>6 DEF Tellable, LiveAreMapped
<1>8. CASE map[id] # NIL /\ slot[map[id]] # NIL
  <2>1. map[id] \in Locs /\ slot[map[id]].id = id
    BY <1>8 DEF Tellable
  <2>2. PICK i \in 1 .. Len(W) : W[i] = map[id]
    BY <1>2, <1>8, <2>1 DEF AllLive
  <2>3. i \in S
    BY <1>2, <1>3, <1>6, <2>1, <2>2
  <2>4. S = {i}
    <3>1. \A j \in S : j = i
      BY <1>2, <1>7, <2>2 DEF AllLive
    <3> QED  BY <2>3, <3>1
  <2>5. w[i] = slot[map[id]].qty /\ slot[map[id]].qty \in Int
    <3>1. w[i] = slot[map[id]].qty
      BY <1>2, <1>4, <1>6, <2>2
    <3>2. slot[map[id]] \in Orders
      BY <1>8, <2>1 DEF Tellable, Listable
    <3> QED  BY <3>1, <3>2 DEF Orders, LiveQtys
  <2>6. SumFunctionOnSet(w, S) = w[i]
    BY <2>4, <2>5, SumOfOne
  <2> QED  BY <1>5, <1>8, <2>5, <2>6 DEF Left
<1>9. CASE ~(map[id] # NIL /\ slot[map[id]] # NIL)
  <2>1. S = {}
    <3>1. \A i \in S : map[id] \in Locs /\ slot[map[id]] # NIL
      BY <1>6, <1>7
    <3>2. NIL \notin Locs
      BY StoreIsBigEnough
    <3> QED  BY <1>9, <3>1, <3>2
  <2> QED  BY <1>5, <1>9, <2>1, SumEmpty DEF Left
<1> QED  BY <1>8, <1>9

LEMMA QtyLeftAfter ==
    (\A id \in Ids : Tellable => QtyAtRest(Resting, id) = Left(id))'
BY QtyLeft, PTL

\* While a command matches: what an order has left, and what it is said to
\* have traded, are what it had when the command began.
BookedSoFar(who, n) ==
    \A id \in Ids \ {who.id} :
       Left(id) + SoldIn(evs, n, id) = QtyAtRest(before, id)

LEMMA LeftInt ==
    ASSUME BookInv, Lined, NEW id \in Ids
    PROVE  Left(id) \in Int
<1>1. map[id] # NIL /\ slot[map[id]] # NIL => map[id] \in Locs
  BY BookIsTellable DEF Tellable
<1>2. \A l \in Locs : slot[l] # NIL => slot[l].qty \in Int
  BY DEF BookInv, StoreInv, StoreType, Orders, LiveQtys
<1> QED  BY <1>1, <1>2 DEF Left

\* Nothing is sold before the first event.
LEMMA SoldNothing ==
    ASSUME NEW es, NEW id
    PROVE  SoldIn(es, 0, id) = 0
<1>1. Told(es, 0, id) = {}
  BY DEF Told
<1> QED  BY <1>1, SumEmpty DEF SoldIn

\* The events of one turn of the loop: a trade, and the end of the maker if it
\* was filled.
TurnSays(fs, x, y, p, q) ==
    \/ fs = evs \o <<Trade(x, y, p, q)>>
    \/ fs = evs \o <<Trade(x, y, p, q), Closed(x, "Filled")>>

LEMMA TurnFacts ==
    ASSUME evs \in Seq(Events), NEW x, NEW y, NEW p, NEW q,
           NEW fs, TurnSays(fs, x, y, p, q)
    PROVE  /\ Len(evs) \in Nat /\ Len(fs) \in Nat /\ Len(fs) # 0
           /\ DOMAIN fs = 1 .. Len(fs)
           /\ Len(fs) \in {Len(evs) + 1, Len(evs) + 2}
           /\ fs[Len(evs) + 1] = Trade(x, y, p, q)
           /\ Len(fs) = Len(evs) + 2 =>
                 fs[Len(evs) + 2] = Closed(x, "Filled")
           /\ \A i \in 1 .. Len(evs) : fs[i] = evs[i]
<1>1. PICK t, c : t = Trade(x, y, p, q) /\ c = Closed(x, "Filled")
  OBVIOUS
<1> DEFINE X == Events \cup {t, c}
<1>2. evs \in Seq(X) /\ t \in X /\ c \in X
  OBVIOUS
<1>3. fs = evs \o <<t>> \/ fs = evs \o <<t, c>>
  BY <1>1 DEF TurnSays
<1> HIDE DEF X
<1>4. ASSUME fs = evs \o <<t>>
      PROVE  /\ fs \in Seq(X) /\ Len(fs) = Len(evs) + 1
             /\ fs[Len(evs) + 1] = t
             /\ \A i \in 1 .. Len(evs) : fs[i] = evs[i]
  <2>1. /\ <<t>> \in Seq(X) /\ Len(<<t>>) = 1 /\ <<t>>[1] = t
    BY <1>2
  <2>2. /\ fs \in Seq(X) /\ Len(fs) = Len(evs) + 1
        /\ \A j \in 1 .. Len(evs) : fs[j] = evs[j]
        /\ \A j \in 1 .. 1 : fs[Len(evs) + j] = <<t>>[j]
    BY <1>2, <1>4, <2>1, ConcatFacts
  <2> QED  BY <2>1, <2>2
<1>5. ASSUME fs = evs \o <<t, c>>
      PROVE  /\ fs \in Seq(X) /\ Len(fs) = Len(evs) + 2
             /\ fs[Len(evs) + 1] = t /\ fs[Len(evs) + 2] = c
             /\ \A i \in 1 .. Len(evs) : fs[i] = evs[i]
  <2>1. /\ <<t, c>> \in Seq(X) /\ Len(<<t, c>>) = 2
        /\ <<t, c>>[1] = t /\ <<t, c>>[2] = c
    BY <1>2
  <2>2. /\ fs \in Seq(X) /\ Len(fs) = Len(evs) + 2
        /\ \A j \in 1 .. Len(evs) : fs[j] = evs[j]
        /\ \A j \in 1 .. 2 : fs[Len(evs) + j] = <<t, c>>[j]
    BY <1>2, <1>5, <2>1, ConcatFacts
  <2> QED  BY <2>1, <2>2
<1>6. Len(evs) \in Nat
  OBVIOUS
<1>7. fs \in Seq(X)
  BY <1>3, <1>4, <1>5
<1>8. Len(fs) \in Nat /\ DOMAIN fs = 1 .. Len(fs)
  BY <1>7
<1>9. PICK one, two : one = evs \o <<t>> /\ two = evs \o <<t, c>>
  OBVIOUS
<1>10. /\ Len(fs) \in {Len(evs) + 1, Len(evs) + 2}
       /\ fs[Len(evs) + 1] = t
       /\ Len(fs) = Len(evs) + 2 => fs[Len(evs) + 2] = c
       /\ \A i \in 1 .. Len(evs) : fs[i] = evs[i]
  <2>1. fs = one \/ fs = two
    BY <1>3, <1>9
  <2>2. CASE fs = one
    <3>1. Len(fs) = Len(evs) + 1 /\ Len(fs) # Len(evs) + 2
      BY <1>4, <1>6, <1>9, <2>2
    <3>2. fs[Len(evs) + 1] = t /\ \A i \in 1 .. Len(evs) : fs[i] = evs[i]
      BY <1>4, <1>9, <2>2
    <3> QED  BY <3>1, <3>2
  <2>3. CASE fs = two
    BY <1>5, <1>9, <2>3
  <2> QED  BY <2>1, <2>2, <2>3
<1>11. Len(fs) # 0
  BY <1>6, <1>10
<1>12. Trade(x, y, p, q) = t /\ Closed(x, "Filled") = c
  BY <1>1
<1> QED  BY Zenon, <1>6, <1>8, <1>10, <1>11, <1>12

\* One event more.
LEMMA OneMore ==
    ASSUME evs \in Seq(Events), NEW t, NEW fs, fs = evs \o <<t>>
    PROVE  Len(fs) = Len(evs) + 1
<1> DEFINE X == Events \cup {t}
<1>1. evs \in Seq(X) /\ t \in X
  OBVIOUS
<1> HIDE DEF X
<1>2. <<t>> \in Seq(X) /\ Len(<<t>>) = 1
  BY <1>1
<1> QED  BY <1>1, <1>2, ConcatFacts

LEMMA TurnSells ==
    ASSUME evs \in Seq(Events), NEW x, NEW y, NEW p, NEW q \in Int,
           NEW fs, TurnSays(fs, x, y, p, q), NEW id
    PROVE  /\ SoldIn(fs, Len(evs), id) = SoldIn(evs, Len(evs), id)
           /\ SoldIn(fs, Len(fs), id)
                = SoldIn(evs, Len(evs), id) + (IF x = id THEN q ELSE 0)
<1>1. PICK t, c : t = Trade(x, y, p, q) /\ c = Closed(x, "Filled")
  OBVIOUS
<1>2. t.ev = "trade" /\ t.maker = x /\ t.qty = q /\ c.ev = "closed"
  BY <1>1 DEF Trade, Closed
<1>3. PICK n \in Nat : n = Len(evs)
  OBVIOUS
<1>4. /\ fs[n + 1] = t /\ Len(fs) \in {n + 1, n + 2}
      /\ Len(fs) = n + 2 => fs[n + 2] = c
      /\ \A i \in 1 .. n : fs[i] = evs[i]
  <2>1. /\ Len(fs) \in {Len(evs) + 1, Len(evs) + 2}
        /\ fs[Len(evs) + 1] = Trade(x, y, p, q)
        /\ Len(fs) = Len(evs) + 2 => fs[Len(evs) + 2] = Closed(x, "Filled")
        /\ \A i \in 1 .. Len(evs) : fs[i] = evs[i]
    BY TurnFacts
  <2> QED  BY <1>1, <1>3, <2>1
<1>5. Priced(evs, n) /\ Priced(fs, n + 1)
  <2>1. Priced(evs, n)
    BY <1>3, EventsArePriced
  <2>2. \A i \in 1 .. (n + 1) : i \in 1 .. n \/ i = n + 1
    OBVIOUS
  <2> QED  BY <1>2, <1>4, <2>1, <2>2 DEF Priced
<1>6. SoldIn(fs, n, id) = SoldIn(evs, n, id)
  BY <1>4, SoldSame
<1>7. SoldIn(evs, n, id) \in Int
  BY <1>5, SoldInt
<1>8. SoldIn(fs, n + 1, id)
        = SoldIn(evs, n, id) + (IF x = id THEN q ELSE 0)
  <2>1. SoldIn(fs, n + 1, id) = SoldAt(fs, n + 1, id) + SoldIn(fs, n, id)
    BY <1>5, SoldNext
  <2>2. SoldAt(fs, n + 1, id) = IF x = id THEN q ELSE 0
    BY <1>2, <1>4 DEF SoldAt
  <2> QED  BY <1>6, <1>7, <2>1, <2>2
<1>9. CASE Len(fs) = n + 2
  <2>1. Priced(fs, n + 2)
    <3>1. \A i \in 1 .. (n + 2) : i \in 1 .. (n + 1) \/ i = n + 2
      OBVIOUS
    <3> QED  BY <1>2, <1>4, <1>5, <1>9, <3>1 DEF Priced
  <2>2. PICK m \in Nat : m = n + 1 /\ m + 1 = n + 2
    OBVIOUS
  <2>3. SoldIn(fs, m + 1, id) = SoldAt(fs, m + 1, id) + SoldIn(fs, m, id)
    BY <2>1, <2>2, SoldNext
  <2>4. SoldAt(fs, m + 1, id) = 0
    BY <1>2, <1>4, <1>9, <2>2 DEF SoldAt
  <2> QED  BY <1>3, <1>6, <1>7, <1>8, <1>9, <2>2, <2>3, <2>4
<1> QED  BY <1>3, <1>4, <1>6, <1>8, <1>9

\* The maker m at l gives q, all it has or less, and is said to.
LEMMA MakerGives ==
    ASSUME BookInv, Lined, taker # NIL, BookedSoFar(taker, Len(evs)),
           NEW l \in Locs, slot[l] # NIL, NEW m \in Ids, m = slot[l].id,
           NEW p, NEW q \in Int, TurnSays(evs', m, taker.id, p, q),
           \A k \in Locs : k # l => slot'[k] = slot[k],
           \A x \in Ids : x # m => map'[x] = map[x],
           Left(m)' = slot[l].qty - q
    PROVE  \A id \in Ids \ {taker.id} :
              Left(id)' + SoldIn(evs', Len(evs'), id) = QtyAtRest(before, id)
<1> SUFFICES ASSUME NEW id \in Ids, id # taker.id
             PROVE  Left(id)' + SoldIn(evs', Len(evs'), id) = QtyAtRest(before, id)
  OBVIOUS
<1>1. evs \in Seq(Events)
  BY DEF BookInv, OutInv
<1>2. Left(id) + SoldIn(evs, Len(evs), id) = QtyAtRest(before, id)
  BY DEF BookedSoFar
<1>3. Left(id) \in Int /\ SoldIn(evs, Len(evs), id) \in Int
  BY <1>1, LeftInt, EventsArePriced, SoldInt
<1>4. SoldIn(evs', Len(evs'), id)
        = SoldIn(evs, Len(evs), id) + (IF m = id THEN q ELSE 0)
  <2>1. PICK fs, t : fs = evs' /\ t = taker.id
    OBVIOUS
  <2>2. TurnSays(fs, m, t, p, q)
    BY <2>1
  <2>3. SoldIn(fs, Len(fs), id)
          = SoldIn(evs, Len(evs), id) + (IF m = id THEN q ELSE 0)
    BY <1>1, <2>2, TurnSells
  <2> QED  BY <2>1, <2>3
<1>5. CASE m = id
  <2>0. slot[l].qty \in Int
    BY DEF BookInv, StoreInv, StoreType, Orders, LiveQtys
  <2>1. map[id] = l
    BY <1>5 DEF BookInv, MapInv, LiveAreMapped
  <2>2. Left(id) = slot[l].qty
    <3>1. NIL \notin Locs
      BY StoreIsBigEnough
    <3> QED  BY <2>1, <3>1 DEF Left
  <2>3. Left(id)' = slot[l].qty - q
    BY <1>5 DEF Left
  <2>4. SoldIn(evs', Len(evs'), id) = SoldIn(evs, Len(evs), id) + q
    BY <1>4, <1>5
  <2> QED  BY <1>2, <1>3, <2>0, <2>2, <2>3, <2>4
<1>6. CASE m # id
  <2>1. map'[id] = map[id]
    BY <1>6
  <2>2. map[id] # NIL => map[id] \in Locs
    BY DEF BookInv, MapInv, MapType
  <2>3. map[id] # l
    <3>1. ~Replacing(id)
      BY DEF Replacing
    <3>2. map[id] = l => slot[l].id = id
      BY <3>1, StoreIsBigEnough DEF BookInv, MapInv, MappedAreLive
    <3> QED  BY <1>6, <3>2
  <2>4. Left(id)' = Left(id)
    BY <2>1, <2>2, <2>3 DEF Left
  <2> QED  BY <1>2, <1>3, <1>4, <1>6, <2>4
<1> QED  BY <1>5, <1>6

\* A command begins with every order as it was, whatever the taker does: the
\* order a replace takes out is its own.
LEMMA StartBooked ==
    ASSUME BookInv, BookInv', Lined, taker = NIL, taker' # NIL, Next,
           before' = Resting
    PROVE  BookedSoFar(taker, Len(evs))'
<1> SUFFICES ASSUME NEW id \in Ids, id # taker'.id
             PROVE  Left(id)' + SoldIn(evs', Len(evs'), id) = QtyAtRest(Resting, id)
  BY DEF BookedSoFar
<1>1. QtyAtRest(Resting, id) = Left(id) /\ Left(id) \in Int
  BY BookIsTellable, QtyLeft, LeftInt
<1>2. ASSUME Emit(<<>>, <<>>)
      PROVE  SoldIn(evs', Len(evs'), id) = 0
  <2>1. evs' = <<>> /\ Len(evs') = 0
    BY <1>2 DEF Emit
  <2> QED  BY <2>1, SoldNothing
<1>3. ASSUME NEW i \in Ids, NEW side \in Sides, NEW limit, NEW qty, NEW tif,
             StartNew(i, side, limit, qty, tif)
      PROVE  Left(id)' = Left(id) /\ Emit(<<>>, <<>>)
  BY <1>3 DEF StartNew, Left, book
<1>4. ASSUME NEW i \in Ids, NEW price \in CmdPrices, NEW qty \in CmdQtys,
             StartReplace(i, price, qty)
      PROVE  Left(id)' = Left(id) /\ Emit(<<>>, <<>>)
  <2>0. map[i] # NIL /\ StoreInv /\ MapInv
    BY <1>4, ReplacePasses DEF StartReplace, BookInv
  <2>1. PICK l \in Locs : l = map[i] /\ slot[l] # NIL /\ slot[l].id = i
    BY <2>0, EntryIsLive
  <2>2. /\ \A k \in Locs : k # l => slot'[k] = slot[k]
        /\ map' = map /\ taker'.id = i /\ Emit(<<>>, <<>>)
    <3>1. Unlink(l) /\ map' = map /\ Emit(<<>>, <<>>)
      BY <1>4, <2>1 DEF StartReplace
    <3>2. taker'.id = i
      BY <1>4 DEF StartReplace
    <3>3. slot' = [slot EXCEPT ![l] = NIL] /\ slot \in [Locs -> Orders \cup {NIL}]
      BY <2>0, <3>1 DEF Unlink, StoreInv, StoreType
    <3> QED  BY <3>1, <3>2, <3>3
  <2>3. map[id] # NIL => map[id] \in Locs /\ map[id] # l
    <3>1. map[id] # NIL => /\ map[id] \in Locs
                           /\ slot[map[id]] # NIL => slot[map[id]].id = id
      BY BookIsTellable DEF Tellable, BookInv, MapInv, MapType
    <3> QED  BY <2>1, <2>2, <3>1
  <2> QED  BY <2>2, <2>3 DEF Left
<1>5. Command
  BY DEF Next, Fill, Finish, FinishNewFilled, FinishNewRests, FinishNewExpires,
     FinishReplaceFilled, FinishReplaceRests, Crossed
<1>6. \/ \E i \in Ids, side \in Sides, limit \in CmdPrices \cup {NIL},
            qty \in CmdQtys, tif \in Tifs : StartNew(i, side, limit, qty, tif)
      \/ \E i \in Ids, price \in CmdPrices, qty \in CmdQtys :
            StartReplace(i, price, qty)
  BY <1>5 DEF Command, NewCommand, CancelCommand, ReplaceCommand, RejectNew,
     RejectCancel, Cancel, RejectReplace, ReplaceInPlace
<1>7. Left(id)' = Left(id) /\ SoldIn(evs', Len(evs'), id) = 0
  BY <1>2, <1>3, <1>4, <1>6
<1> QED  BY <1>1, <1>7

\* The order the loop matches against now.
NextMaker(l, bp) ==
    /\ l = Head(queue[Opposite(taker.side)][bp])
    /\ slot[l] \in Orders /\ slot[l] # NIL /\ slot[l].id \in Ids
    /\ slot[l].side = Opposite(taker.side) /\ slot[l].price = bp
    /\ slot[l].qty \in Int /\ NIL \notin Locs

LEMMA HasMaker ==
    ASSUME BookInv, NEW bp \in index[Opposite(taker.side)]
    PROVE  \E l \in Locs : NextMaker(l, bp)
<1>1. Opposite(taker.side) \in Sides
  BY DEF Opposite, Sides
<1>2. PICK l \in Locs : l = Head(queue[Opposite(taker.side)][bp])
  BY <1>1, HeadIsLive DEF BookInv
<1>3. /\ slot[l] \in Orders /\ slot[l] # NIL
      /\ slot[l].side = Opposite(taker.side) /\ slot[l].price = bp
  BY <1>1, <1>2, HeadIsLive, NilIsNoRecord DEF BookInv
<1>4. slot[l].id \in Ids /\ slot[l].qty \in Int
  BY <1>3 DEF Orders, LiveQtys
<1> QED  BY <1>2, <1>3, <1>4, StoreIsBigEnough DEF NextMaker

\* A turn of the loop takes from the maker what it announces.
LEMMA FillBooked ==
    ASSUME BookInv, Lined, Fill, BookedSoFar(taker, Len(evs)), UNCHANGED before
    PROVE  BookedSoFar(taker, Len(evs))'
<1>1. PICK bp \in index[Opposite(taker.side)] : FillMaker(bp) \/ FillTaker(bp)
  BY DEF Fill
<1>2. taker # NIL /\ taker \in Takers /\ taker.qty \in Int
  <2>1. taker # NIL /\ taker \in Takers
    BY DEF Fill, BookInv, MapInv, MapType
  <2> QED  BY <2>1, TakerFields
<1>3. PICK l \in Locs : NextMaker(l, bp)
  BY <1>1, HasMaker
<1>4. PICK m \in Ids : m = slot[l].id
  BY <1>3 DEF NextMaker
<1>5. /\ slot \in [Locs -> Orders \cup {NIL}] /\ map \in [Ids -> Locs \cup {NIL}]
      /\ map[m] = l
  BY <1>3, <1>4 DEF NextMaker, BookInv, StoreInv, StoreType, MapInv, MapType,
     LiveAreMapped
<1>6. CASE FillMaker(bp)
  <2>1. /\ map' = [map EXCEPT ![m] = NIL] /\ slot' = [slot EXCEPT ![l] = NIL]
        /\ taker' = [taker EXCEPT !.qty = @ - slot[l].qty]
        /\ evs' = evs \o <<Trade(m, taker.id, bp, slot[l].qty), Closed(m, "Filled")>>
    <3>1. l = Head(queue[Opposite(taker.side)][bp])
      BY <1>3 DEF NextMaker
    <3> QED  BY <1>4, <1>6, <3>1 DEF FillMaker, Emit
  <2>2. taker'.id = taker.id
    BY <1>2, <2>1 DEF Takers
  <2>3. PICK q \in Int : q = slot[l].qty
    BY <1>3 DEF NextMaker
  <2>4. TurnSays(evs', m, taker.id, bp, q)
    BY <2>1, <2>3 DEF TurnSays
  <2>5. /\ \A k \in Locs : k # l => slot'[k] = slot[k]
        /\ \A x \in Ids : x # m => map'[x] = map[x]
    BY <1>5, <2>1
  <2>6. Left(m)' = slot[l].qty - q
    <3>1. map'[m] = NIL
      BY <1>5, <2>1
    <3> QED  BY <2>3, <3>1 DEF Left
  <2>7. \A id \in Ids \ {taker.id} :
           Left(id)' + SoldIn(evs', Len(evs'), id) = QtyAtRest(before, id)
    BY <1>2, <1>3, <1>4, <2>4, <2>5, <2>6, MakerGives DEF NextMaker
  <2> QED  BY <2>2, <2>7 DEF BookedSoFar
<1>7. CASE FillTaker(bp)
  <2>1. /\ map' = map
        /\ slot' = [slot EXCEPT ![l] = [slot[l] EXCEPT !.qty = @ - taker.qty]]
        /\ taker' = [taker EXCEPT !.qty = 0]
        /\ evs' = evs \o <<Trade(m, taker.id, bp, taker.qty)>>
    <3>1. l = Head(queue[Opposite(taker.side)][bp])
      BY <1>3 DEF NextMaker
    <3> QED  BY <1>4, <1>7, <3>1 DEF FillTaker, Emit
  <2>2. taker'.id = taker.id
    BY <1>2, <2>1 DEF Takers
  <2>3. PICK q \in Int : q = taker.qty
    BY <1>2
  <2>4. TurnSays(evs', m, taker.id, bp, q)
    BY <2>1, <2>3 DEF TurnSays
  <2>5. /\ \A k \in Locs : k # l => slot'[k] = slot[k]
        /\ \A x \in Ids : x # m => map'[x] = map[x]
    BY <1>5, <2>1
  <2>6. Left(m)' = slot[l].qty - q
    <3>1. slot'[l] = [slot[l] EXCEPT !.qty = slot[l].qty - q]
      BY <1>5, <2>1, <2>3
    <3>2. slot[l] \in Orders /\ l # NIL /\ l = Head(queue[Opposite(taker.side)][bp])
      BY <1>3 DEF NextMaker
    <3>3. slot[l].qty > taker.qty /\ taker.qty > 0
      BY <1>7, <3>2 DEF FillTaker, Fill
    <3>4. slot[l].qty - q \in LiveQtys
      BY <1>2, <2>3, <3>2, <3>3, QtyWidth DEF Orders, LiveQtys
    <3>5. slot'[l] \in Orders /\ slot'[l].qty = slot[l].qty - q
      BY <3>1, <3>2, <3>4 DEF Orders
    <3> QED  BY <1>5, <2>1, <3>2, <3>5, NilIsNoRecord DEF Left
  <2>7. \A id \in Ids \ {taker.id} :
           Left(id)' + SoldIn(evs', Len(evs'), id) = QtyAtRest(before, id)
    BY <1>2, <1>3, <1>4, <2>4, <2>5, <2>6, MakerGives DEF NextMaker
  <2> QED  BY <2>2, <2>7 DEF BookedSoFar
<1> QED  BY <1>1, <1>6, <1>7

LEMMA SameResting ==
    ASSUME UNCHANGED <<queue, index, slot>>
    PROVE  Resting' = Resting
<1>1. \A side \in Sides : RestingOrders(side)' = RestingOrders(side)
  BY DEF RestingOrders, Places, AsOrder
<1> QED  BY <1>1 DEF Resting, Sides

\* What a turn that is cut off leaves of the promise: TradesAreBooked speaks
\* of the orders, which Left gives, and of the announcements, which SoldIn
\* counts.
LEMMA CutBooked ==
    ASSUME evs \in Seq(Events), NEW x, NEW y, NEW p, NEW q, lost' = taker,
           TurnSays(evs', x, y, p, q),
           \A id \in Ids : QtyAtRest(Resting, id)' = Left(id)',
           \A id \in Ids \ {taker.id} :
              Left(id)' + SoldIn(evs, Counted, id)' = QtyAtRest(before', id)
    PROVE  TradesAreBooked'
<1>1. Len(evs') \in Nat \ {0} /\ DOMAIN evs' = 1 .. Len(evs')
  BY TurnFacts
<1>2. ASSUME NEW id \in Ids, id # taker.id
      PROVE  QtyAtRest(Resting', id) + Announced(id)' = QtyAtRest(before', id)
  <2>1. Announced(id)' = SoldIn(evs, Counted, id)'
    BY <1>1, AnnouncedAfter
  <2>2. QtyAtRest(Resting', id) = Left(id)'
    OBVIOUS
  <2> QED  BY <1>2, <2>1, <2>2
<1> QED  BY <1>2 DEF TradesAreBooked

\* The sink was called with nothing of the fill done yet: what it was told last
\* is not booked, all before is.
LEMMA CutAtTradeBooked ==
    ASSUME BookInv, Lined, taker # NIL, BookedSoFar(taker, Len(evs)),
           NEW bp \in Prices, ThrowAtTrade(bp)
    PROVE  TradesAreBooked'
<1>1. /\ UNCHANGED book /\ before' = before /\ lost' = taker /\ thrown' = "trade"
      /\ evs \in Seq(Events)
  BY DEF ThrowAtTrade, Announce, BookInv, OutInv
<1>2. PICK l : l = Head(queue[Opposite(taker.side)][bp])
  OBVIOUS
<1>3. bp \in index[Opposite(taker.side)]
  BY DEF ThrowAtTrade, Marketable, IsBest
<1>4. PICK q : q = IF taker.qty < slot[l].qty THEN taker.qty ELSE slot[l].qty
  OBVIOUS
<1>5. q \in Int
  <2>1. PICK k \in Locs : NextMaker(k, bp)
    BY <1>3, HasMaker
  <2>2. slot[l].qty \in Int
    BY <1>2, <2>1 DEF NextMaker
  <2>3. taker.qty \in Int
    BY TakerFields DEF BookInv, MapInv, MapType
  <2> QED  BY <1>4, <2>2, <2>3
<1>6. PICK x : x = slot[l].id
  OBVIOUS
<1>7. evs' = evs \o <<Trade(x, taker.id, bp, q)>>
  BY <1>2, <1>4, <1>6 DEF ThrowAtTrade, Announce, Emit
<1>8. TurnSays(evs', x, taker.id, bp, q)
  BY <1>7 DEF TurnSays
<1>9. Resting' = Resting
  BY <1>1, SameResting DEF book
<1>10. \A id \in Ids : QtyAtRest(Resting, id)' = Left(id)'
  <2>1. \A id \in Ids : QtyAtRest(Resting, id) = Left(id)
    BY BookIsTellable, QtyLeft
  <2>2. \A id \in Ids : Left(id)' = Left(id)
    BY <1>1 DEF Left, book
  <2>3. \A id \in Ids : QtyAtRest(Resting, id)' = QtyAtRest(Resting, id)
    BY <1>9
  <2> QED  BY <2>1, <2>2, <2>3
<1>11. ASSUME NEW id \in Ids, id # taker.id
       PROVE  Left(id)' + SoldIn(evs, Counted, id)' = QtyAtRest(before', id)
  <2>1. Counted' = Len(evs)
    <3>1. Len(evs') = Len(evs) + 1 /\ Len(evs) \in Nat
      BY <1>1, <1>7, OneMore
    <3> QED  BY <1>1, <3>1 DEF Counted
  <2>2. SoldIn(evs, Counted, id)' = SoldIn(evs', Len(evs), id)
    BY <2>1
  <2>3. SoldIn(evs', Len(evs), id) = SoldIn(evs, Len(evs), id)
    BY <1>1, <1>5, <1>8, TurnSells
  <2>4. Left(id) + SoldIn(evs, Len(evs), id) = QtyAtRest(before, id)
    BY <1>11 DEF BookedSoFar
  <2>5. Left(id)' = Left(id)
    BY <1>1 DEF Left, book
  <2> QED  BY <1>1, <2>2, <2>3, <2>4, <2>5
<1> QED  BY <1>1, <1>8, <1>10, <1>11, CutBooked

\* The sink was called with the maker gone: all it was told is booked.
LEMMA CutAtClosedBooked ==
    ASSUME BookInv, Lined, taker # NIL, BookedSoFar(taker, Len(evs)),
           NEW bp \in Prices, ThrowAtClosed(bp)
    PROVE  TradesAreBooked'
<1>1. PICK s \in Sides : s = Opposite(taker.side)
  BY DEF Opposite, Sides
<1>2. bp \in index[s]
  <2>1. Marketable(bp)
    BY Zenon DEF ThrowAtClosed
  <2> QED  BY <1>1, <2>1 DEF Marketable, IsBest
<1>3. PICK l \in Locs : /\ NextMaker(l, bp) /\ slot[l] # NIL
                        /\ l = Head(queue[s][bp])
                        /\ slot[l].side = s /\ slot[l].price = bp
  BY <1>1, <1>2, HasMaker DEF NextMaker
<1>4. PICK m \in Ids, q \in Int : m = slot[l].id /\ q = slot[l].qty
  BY <1>3 DEF NextMaker
<1>5. /\ queue' = [queue EXCEPT ![s][bp] = Tail(queue[s][bp])]
      /\ total' = TotalWith(s, bp, -slot[l].qty)
      /\ slot' = [slot EXCEPT ![l] = NIL]
      /\ live' = live - 1
      /\ map' = [map EXCEPT ![m] = NIL]
      /\ index' = index
      /\ before' = before /\ lost' = taker /\ thrown' = "closed"
      /\ evs' = evs \o <<Trade(m, taker.id, bp, q), Closed(m, "Filled")>>
  <2>1. l = Head(queue[Opposite(taker.side)][bp])
    BY <1>1, <1>3
  <2>2. /\ queue' = [queue EXCEPT ![s][bp] = Tail(@)]
        /\ total' = TotalWith(s, bp, -slot[l].qty)
        /\ slot' = [slot EXCEPT ![l] = NIL]
        /\ live' = live - 1
        /\ map' = [map EXCEPT ![slot[l].id] = NIL]
        /\ index' = index
        /\ Announce(<<Trade(slot[l].id, taker.id, bp, slot[l].qty),
                      Closed(slot[l].id, "Filled")>>, "closed")
    BY Zenon, <1>1, <2>1 DEF ThrowAtClosed
  <2>3. queue' = [queue EXCEPT ![s][bp] = Tail(queue[s][bp])]
    BY <2>2
  <2>4. /\ before' = before /\ lost' = taker /\ thrown' = "closed"
        /\ evs' = evs \o <<Trade(m, taker.id, bp, q), Closed(m, "Filled")>>
    BY Zenon, <1>4, <2>2 DEF Announce, Emit
  <2> QED  BY Zenon, <1>4, <2>2, <2>3, <2>4
<1>6. /\ slot \in [Locs -> Orders \cup {NIL}] /\ map \in [Ids -> Locs \cup {NIL}]
      /\ map[m] = l /\ index \in [Sides -> SUBSET Prices] /\ NIL \notin Locs
      /\ evs \in Seq(Events) /\ StoreInv
  BY <1>3, <1>4 DEF NextMaker, BookInv, StoreInv, StoreType, MapInv, MapType,
     LiveAreMapped, OutInv
<1>7. LeavesLevel(l, 1, Tail(queue[s][bp]))
  <2>1. queue[s][bp] \in Seq(Locs) /\ queue[s][bp] # <<>> /\ queue[s][bp][1] = l
    BY <1>2, <1>3, HeadIsLive DEF BookInv
  <2>2. /\ Tail(queue[s][bp]) \in Seq(Locs) /\ 1 \in DOMAIN queue[s][bp]
        /\ Drops(queue[s][bp], Tail(queue[s][bp]), 1)
    BY <2>1, TailDrops
  <2> QED  BY <1>3, <1>5, <2>1, <2>2 DEF LeavesLevel
<1>8. LevelsInv' /\ \A k \in Locs : slot'[k] = IF k = l THEN NIL ELSE slot[k]
  BY <1>3, <1>6, <1>7, LeavesLevels
<1>9. Lined'
  <2>1. PICK LL, z, n : IsListedAt(LL, l, z, n)
    BY <1>3, <1>6, PlaceOnLine
  <2>2. PICK M : LinesWithout(LL, z, n, M)
    BY <1>6, <1>7, <2>1, LeavesLines
  <2>3. LL \in [Sides -> Seq(Locs)]
    BY <2>1 DEF IsListedAt, LinesAre
  <2>4. PICK MM : MM = [w \in Sides |-> IF w = z THEN M ELSE LL[w]]
    OBVIOUS
  <2>5. MM \in [Sides -> Seq(Locs)]
    BY <2>2, <2>3, <2>4 DEF LinesWithout
  <2>6. \A w \in Sides : Line(slot', queue'[w], w, MM[w])
    BY <2>2, <2>4 DEF LinesWithout
  <2>7. LinesAre(MM)'
    BY <2>5, <2>6 DEF LinesAre, IsLine
  <2> QED  BY <2>5, <2>7 DEF Lined
<1>10. Listable'
  <2>1. \A z \in Sides, p \in Prices : queue'[z][p] # <<>> => p \in index'[z]
    <3> SUFFICES ASSUME NEW z \in Sides, NEW p \in Prices, queue'[z][p] # <<>>
                 PROVE  p \in index[z]
      BY <1>5
    <3>1. queue \in [Sides -> [Prices -> Seq(Locs)]]
            /\ (queue[z][p] # <<>> => p \in index[z])
      BY <1>6, StoreIsListable DEF Listable
    <3>2. CASE z = s /\ p = bp
      BY <1>2, <3>2
    <3>3. CASE ~(z = s /\ p = bp)
      <4>1. queue'[z][p] = queue[z][p]
        BY <1>5, <3>1, <3>3
      <4> QED  BY <3>1, <4>1
    <3> QED  BY <3>2, <3>3
  <2> QED  BY <1>5, <1>6, <1>8, <2>1 DEF LevelsInv, Listable
<1>11. Tellable'
  <2>1. map' = [map EXCEPT ![slot[l].id] = NIL]
    BY <1>4, <1>5
  <2>2. LiveAreMapped'
    BY <1>3, <1>8, <2>1, MakerLeavesMap
  <2>3. \A id \in Ids : map'[id] # NIL /\ slot'[map'[id]] # NIL =>
           map'[id] \in Locs /\ slot'[map'[id]].id = id
    <3> SUFFICES ASSUME NEW id \in Ids, map'[id] # NIL, slot'[map'[id]] # NIL
                 PROVE  map'[id] \in Locs /\ slot'[map'[id]].id = id
      OBVIOUS
    <3>1. map'[id] = map[id] /\ map[id] \in Locs
      BY <1>5, <1>6
    <3>2. slot'[map[id]] = slot[map[id]]
      BY <1>8, <3>1
    <3> QED  BY <3>1, <3>2, BookIsTellable DEF Tellable
  <2> QED  BY <1>9, <1>10, <2>2, <2>3 DEF Tellable
<1>12. TurnSays(evs', m, taker.id, bp, q)
  BY <1>5 DEF TurnSays
<1>13. \A id \in Ids \ {taker.id} :
          Left(id)' + SoldIn(evs', Len(evs'), id) = QtyAtRest(before, id)
  <2>1. /\ \A k \in Locs : k # l => slot'[k] = slot[k]
        /\ \A x \in Ids : x # m => map'[x] = map[x]
    BY <1>5, <1>6
  <2>2. Left(m)' = slot[l].qty - q
    <3>1. map'[m] = NIL
      BY <1>5, <1>6
    <3> QED  BY <1>4, <3>1 DEF Left
  <2> QED  BY <1>3, <1>4, <1>12, <2>1, <2>2, MakerGives
<1>14. \A id \in Ids : QtyAtRest(Resting, id)' = Left(id)'
  BY <1>11, QtyLeftAfter
<1>15. \A id \in Ids \ {taker.id} :
          Left(id)' + SoldIn(evs, Counted, id)' = QtyAtRest(before', id)
  <2>1. Counted' = Len(evs')
    BY <1>5 DEF Counted
  <2> QED  BY <1>5, <1>13, <2>1
<1>16. lost' = taker /\ evs \in Seq(Events)
  BY Zenon, <1>5, <1>6
<1> QED  BY <1>12, <1>14, <1>15, <1>16, CutBooked

\* While no call has thrown, the command in progress has booked what it has
\* announced; once one has, the property is settled.
BookedInv ==
    /\ thrown = "none" =>
         /\ BookInv /\ Lined /\ lost = NIL
         /\ taker # NIL => BookedSoFar(taker, Len(evs))
    /\ TradesAreBooked

LEMMA BookStepBooked ==
    ASSUME BookInv, Lined, lost = NIL,
           taker # NIL => BookedSoFar(taker, Len(evs)), BookStep
    PROVE  BookedInv'
<1>1. Next /\ lost' = NIL
  BY JointIsNext DEF BookStep
<1>2. BookInv' /\ Lined'
  BY <1>1, NextKeeps, NextLined
<1>3. taker' # NIL => BookedSoFar(taker, Len(evs))'
  <2> SUFFICES ASSUME taker' # NIL
               PROVE  BookedSoFar(taker, Len(evs))'
    OBVIOUS
  <2>1. CASE taker = NIL
    BY <1>1, <1>2, <2>1, StartBooked DEF BookStep
  <2>2. CASE taker # NIL
    <3>1. Fill
      BY <1>1, <2>2, ZenonT(30) DEF Next, Command, NewCommand, CancelCommand, ReplaceCommand,
         RejectNew, StartNew, RejectCancel, Cancel, RejectReplace,
         ReplaceInPlace, StartReplace, Finish, FinishNewFilled, FinishNewRests,
         FinishNewExpires, FinishReplaceFilled, FinishReplaceRests
    <3>2. UNCHANGED before
      BY <2>2 DEF BookStep
    <3> QED  BY <2>2, <3>1, <3>2, FillBooked
  <2> QED  BY <2>1, <2>2
<1> QED  BY <1>1, <1>2, <1>3 DEF BookedInv, TradesAreBooked

\* Whatever throws in the loop of cross(), and whenever, each order but the
\* taker's has lost exactly what its announced trades say, the one whose
\* announcement threw excepted: no fill is told that was not made, none made
\* that was not told.
THEOREM TradesStayBooked == ThrowSpec => []TradesAreBooked
<1>1. ThrowInit => BookedInv
  <2> SUFFICES ASSUME ThrowInit
               PROVE  BookedInv
    OBVIOUS
  <2>1. Init /\ lost = NIL
    BY DEF ThrowInit, JointInit
  <2>2. BookInv /\ EmptyBook /\ taker = NIL
    BY <2>1, InitHolds DEF Init, EmptyBook
  <2>3. Lined
    BY <2>2, EmptyLines
  <2> QED  BY <2>1, <2>2, <2>3 DEF BookedInv, TradesAreBooked
<1>2. BookedInv /\ [ThrowNext]_<<vars, promise, sink>> => BookedInv'
  <2> SUFFICES ASSUME BookedInv, [ThrowNext]_<<vars, promise, sink>>
               PROVE  BookedInv'
    OBVIOUS
  <2>1. CASE BookStep
    BY <2>1, BookStepBooked DEF BookStep, BookedInv
  <2>2. ASSUME NEW bp \in Prices, thrown = "none", taker # NIL,
               ThrowAtTrade(bp) \/ ThrowAtClosed(bp)
        PROVE  BookedInv'
    <3>1. thrown' # "none"
      <4>1. \E es : Announce(es, "trade") \/ Announce(es, "closed")
        BY Zenon, <2>2 DEF ThrowAtTrade, ThrowAtClosed
      <4> QED  BY <4>1 DEF Announce
    <3>2. TradesAreBooked'
      BY <2>2, CutAtTradeBooked, CutAtClosedBooked DEF BookedInv
    <3> QED  BY <3>1, <3>2 DEF BookedInv
  <2>3. CASE UNCHANGED <<vars, promise, sink>>
    <3>1. Resting' = Resting
      BY <2>3, SameResting DEF vars
    <3>2. TradesAreBooked'
      BY <2>3, <3>1 DEF BookedInv, TradesAreBooked, Announced, vars, sink
    <3>3. BookInv /\ Lined => BookInv' /\ Lined'
      <4>1. [Next]_vars
        BY <2>3
      <4> QED  BY <2>3, <4>1, NextKeeps, SameBook DEF BookInv, vars
    <3>4. BookedSoFar(taker, Len(evs)) => BookedSoFar(taker, Len(evs))'
      BY <2>3 DEF BookedSoFar, Left, vars, sink
    <3> QED  BY <2>3, <3>2, <3>3, <3>4 DEF BookedInv, vars, sink
  <2> QED  BY <2>1, <2>2, <2>3 DEF ThrowNext
<1>3. BookedInv => TradesAreBooked
  BY DEF BookedInv
<1> QED  BY <1>1, <1>2, <1>3, PTL DEF ThrowSpec

=============================================================================

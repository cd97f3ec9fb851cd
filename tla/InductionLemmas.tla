-------------------------- MODULE InductionLemmas --------------------------
(***************************************************************************)
(* Induction on numbers and on finite sets, stated about sets instead of   *)
(* predicates so that first-order provers can use it, and what it gives:   *)
(* that sums over finite sets are what they are taken for.  At the end,    *)
(* what a sequence keeps when it loses an element or gets one, how its     *)
(* pieces join, and what sequences make one after the other.               *)
(***************************************************************************)
EXTENDS Integers, Sequences, FiniteSets, Functions, FiniteSetTheorems,
        SequenceTheorems, WellFoundedInduction, TLAPS

----------------------------------------------------------------------------
(* Induction.                                                              *)

LEMMA NatLeast ==
    ASSUME NEW S, S \subseteq Nat, S # {}
    PROVE  \E x \in S : \A y \in S : x <= y
<1> DEFINE R == {ss \in Nat \X Nat : ss[1] < ss[2]}
<1>1. IsWellFoundedOn(R, Nat)
  BY NatLessThanWellFounded, Zenon DEF OpToRel
<1>2. PICK x \in S : \A y \in S : ~(<<y, x>> \in R)
  BY <1>1, WFMin, Zenon
<1>3. ASSUME NEW y \in S
      PROVE  x <= y
  <2>1. x \in Nat /\ y \in Nat
    OBVIOUS
  <2>2. y < x => <<y, x>> \in R
    BY <2>1
  <2>3. ~(<<y, x>> \in R)
    BY <1>2
  <2> HIDE DEF R
  <2> QED  BY <2>1, <2>2, <2>3
<1> QED  BY <1>3

\* Induction on n, with the set of the n for which the claim holds.
LEMMA NatInductive ==
    ASSUME NEW T, 0 \in T, \A n \in Nat : n \in T => n + 1 \in T
    PROVE  \A n \in Nat : n \in T
<1> DEFINE S == {n \in Nat : n \notin T}
<1>1. SUFFICES ASSUME S # {} PROVE FALSE
  OBVIOUS
<1>2. PICK m \in S : \A y \in S : m <= y
  <2>1. S \subseteq Nat
    OBVIOUS
  <2> HIDE DEF S
  <2> QED  BY <1>1, <2>1, NatLeast
<1>3. m \in Nat /\ m # 0 /\ m - 1 \in Nat
  OBVIOUS
<1>4. m - 1 \in T
  BY <1>2, <1>3
<1>5. (m - 1) + 1 \in T
  BY <1>3, <1>4
<1> QED  BY <1>3, <1>5

\* Induction on a finite set, one element at a time.
LEMMA SetInductive ==
    ASSUME NEW S, IsFiniteSet(S), NEW P, {} \in P,
           \A T \in SUBSET S : \A x \in S : T \in P /\ x \notin T => T \cup {x} \in P
    PROVE  S \in P
<1> DEFINE N == {n \in Nat : \A T \in SUBSET S : Cardinality(T) = n => T \in P}
<1>1. 0 \in N
  BY FS_EmptySet, FS_Subset
<1>2. ASSUME NEW n \in Nat, n \in N
      PROVE  n + 1 \in N
  <2> SUFFICES ASSUME NEW T \in SUBSET S, Cardinality(T) = n + 1
               PROVE  T \in P
    BY <1>2
  <2>1. IsFiniteSet(T)
    BY FS_Subset
  <2>2. PICK x \in T : TRUE
    BY <2>1, FS_EmptySet
  <2>3. Cardinality(T \ {x}) = n
    <3>1. Cardinality(T \ {x}) = Cardinality(T) - 1
      BY <2>1, <2>2, FS_RemoveElement
    <3> QED  BY <3>1
  <2>4. T \ {x} \in P
    BY <1>2, <2>3
  <2>5. (T \ {x}) \cup {x} \in P
    BY <2>2, <2>4
  <2>6. (T \ {x}) \cup {x} = T
    BY <2>2
  <2> QED  BY <2>5, <2>6
<1>3. \A n \in Nat : n \in N
  <2> HIDE DEF N
  <2> QED  BY <1>1, <1>2, NatInductive
<1>4. Cardinality(S) \in Nat
  BY FS_CardinalityType
<1> QED  BY <1>3, <1>4

----------------------------------------------------------------------------
(* The recursion of a sum is well defined.                                 *)

Pick(s) == CHOOSE x \in s : TRUE

LEMMA PickIn ==
    ASSUME NEW s, s # {}
    PROVE  Pick(s) \in s
BY DEF Pick

\* One unfolding of the sum of w, for the sets in D.
SumBody(w, D, it) ==
    [s \in D |-> IF s = {} THEN 0 ELSE w[Pick(s)] + it[s \ {Pick(s)}]]

\* it tells the sum of w over every subset of S.
Tells(it, w, S) == it = SumBody(w, SUBSET S, it)

Smaller(S, n) == {s \in SUBSET S : Cardinality(s) <= n}

LEMMA PickShrinks ==
    ASSUME NEW S, IsFiniteSet(S), NEW n \in Nat, NEW s \in Smaller(S, n + 1),
           s # {}
    PROVE  s \ {Pick(s)} \in Smaller(S, n)
<1>1. IsFiniteSet(s) /\ Pick(s) \in s
  BY FS_Subset, PickIn DEF Smaller
<1>2. Cardinality(s \ {Pick(s)}) = Cardinality(s) - 1 /\ Cardinality(s) \in Nat
  BY <1>1, FS_RemoveElement, FS_CardinalityType
<1> QED  BY <1>2 DEF Smaller

LEMMA SumExists ==
    ASSUME NEW S, IsFiniteSet(S), NEW w
    PROVE  \E it : Tells(it, w, S)
<1> DEFINE N == {n \in Nat : \E it : it = SumBody(w, Smaller(S, n), it)}
<1>1. 0 \in N
  <2> DEFINE it == [s \in Smaller(S, 0) |-> 0]
  <2>1. \A s \in Smaller(S, 0) : s = {}
    <3> SUFFICES ASSUME NEW s \in Smaller(S, 0) PROVE s = {}
      OBVIOUS
    <3>1. IsFiniteSet(s) /\ Cardinality(s) \in Nat /\ Cardinality(s) <= 0
      BY FS_Subset, FS_CardinalityType DEF Smaller
    <3> QED  BY <3>1, FS_EmptySet
  <2>2. it = SumBody(w, Smaller(S, 0), it)
    BY <2>1 DEF SumBody
  <2> QED  BY <2>2
<1>2. ASSUME NEW n \in Nat, n \in N
      PROVE  n + 1 \in N
  <2>1. PICK it : it = SumBody(w, Smaller(S, n), it)
    BY <1>2
  <2> DEFINE h == SumBody(w, Smaller(S, n + 1), it)
  <2>2. Smaller(S, n) \subseteq Smaller(S, n + 1)
    <3> SUFFICES ASSUME NEW s \in Smaller(S, n) PROVE s \in Smaller(S, n + 1)
      OBVIOUS
    <3>1. IsFiniteSet(s) /\ Cardinality(s) \in Nat /\ Cardinality(s) <= n
      BY FS_Subset, FS_CardinalityType DEF Smaller
    <3> QED  BY <3>1 DEF Smaller
  <2>3. \A t \in Smaller(S, n) : h[t] = it[t]
    BY <2>1, <2>2 DEF SumBody
  <2>4. \A s \in Smaller(S, n + 1) :
          s # {} => h[s \ {Pick(s)}] = it[s \ {Pick(s)}]
    BY <2>3, PickShrinks
  <2>5. h = SumBody(w, Smaller(S, n + 1), h)
    <3> HIDE DEF h
    <3>1. h = SumBody(w, Smaller(S, n + 1), it)
      BY DEF h
    <3> QED  BY <3>1, <2>4 DEF SumBody
  <2> HIDE DEF h
  <2> QED  BY <2>5
<1>3. \A n \in Nat : n \in N
  <2> HIDE DEF N
  <2> QED  BY <1>1, <1>2, NatInductive
<1>4. Cardinality(S) \in Nat /\ Smaller(S, Cardinality(S)) = SUBSET S
  BY FS_CardinalityType, FS_Subset DEF Smaller
<1> QED  BY <1>3, <1>4 DEF Tells

LEMMA SumUnique ==
    ASSUME NEW S, IsFiniteSet(S), NEW T \in SUBSET S, NEW w, NEW v,
           \A x \in T : w[x] = v[x],
           NEW a, Tells(a, w, S), NEW b, Tells(b, v, T)
    PROVE  a[T] = b[T]
<1> DEFINE N == {n \in Nat : \A s \in SUBSET T : Cardinality(s) = n => a[s] = b[s]}
<1>0. IsFiniteSet(T)
  BY FS_Subset
<1>1. 0 \in N
  <2> SUFFICES ASSUME NEW s \in SUBSET T, Cardinality(s) = 0
               PROVE  a[s] = b[s]
    OBVIOUS
  <2>1. s = {}
    BY <1>0, FS_EmptySet, FS_Subset
  <2> QED  BY <2>1 DEF Tells, SumBody
<1>2. ASSUME NEW n \in Nat, n \in N
      PROVE  n + 1 \in N
  <2> SUFFICES ASSUME NEW s \in SUBSET T, Cardinality(s) = n + 1
               PROVE  a[s] = b[s]
    BY <1>2
  <2>1. IsFiniteSet(s) /\ s # {}
    BY <1>0, FS_Subset, FS_EmptySet
  <2>2. Pick(s) \in s
    BY <2>1, PickIn
  <2>3. Cardinality(s \ {Pick(s)}) = n
    <3>1. Cardinality(s \ {Pick(s)}) = Cardinality(s) - 1
      BY <2>1, <2>2, FS_RemoveElement
    <3> QED  BY <3>1
  <2>4. a[s \ {Pick(s)}] = b[s \ {Pick(s)}]
    BY <1>2, <2>3
  <2>5. a[s] = w[Pick(s)] + a[s \ {Pick(s)}]
    BY <2>1 DEF Tells, SumBody
  <2>6. b[s] = v[Pick(s)] + b[s \ {Pick(s)}]
    BY <2>1 DEF Tells, SumBody
  <2> QED  BY <2>2, <2>4, <2>5, <2>6
<1>3. \A n \in Nat : n \in N
  <2> HIDE DEF N
  <2> QED  BY <1>1, <1>2, NatInductive
<1> QED  BY <1>0, <1>3, FS_CardinalityType

\* The sum is the value of that recursion.
LEMMA SumIsRecursion ==
    ASSUME NEW S, IsFiniteSet(S), NEW w
    PROVE  \E it : Tells(it, w, S) /\ SumFunctionOnSet(w, S) = it[S]
<1> DEFINE it == CHOOSE i : i = SumBody(w, SUBSET S, i)
<1>1. Tells(it, w, S)
  BY SumExists DEF Tells
<1>2. SumFunctionOnSet(w, S) = it[S]
  BY DEF SumFunctionOnSet, FoldFunctionOnSet, MapThenFoldSet, SumBody, Pick
<1> QED  BY <1>1, <1>2

----------------------------------------------------------------------------
(* Sums.                                                                   *)

LEMMA SumEmpty ==
    ASSUME NEW w
    PROVE  SumFunctionOnSet(w, {}) = 0
<1>1. PICK it : Tells(it, w, {}) /\ SumFunctionOnSet(w, {}) = it[{}]
  BY SumIsRecursion, FS_EmptySet
<1> QED  BY <1>1 DEF Tells, SumBody

\* Sums of what is alike are alike.
LEMMA SumSame ==
    ASSUME NEW S, IsFiniteSet(S), NEW w, NEW v, \A x \in S : w[x] = v[x]
    PROVE  SumFunctionOnSet(w, S) = SumFunctionOnSet(v, S)
<1>1. PICK a : Tells(a, w, S) /\ SumFunctionOnSet(w, S) = a[S]
  BY SumIsRecursion
<1>2. PICK b : Tells(b, v, S) /\ SumFunctionOnSet(v, S) = b[S]
  BY SumIsRecursion
<1>3. a[S] = b[S]
  <2>1. S \in SUBSET S
    OBVIOUS
  <2> QED  BY <1>1, <1>2, <2>1, SumUnique
<1> QED  BY <1>1, <1>2, <1>3

LEMMA SumPick ==
    ASSUME NEW S, IsFiniteSet(S), NEW w, S # {}
    PROVE  SumFunctionOnSet(w, S) =
             w[Pick(S)] + SumFunctionOnSet(w, S \ {Pick(S)})
<1> DEFINE T == S \ {Pick(S)}
<1>0. IsFiniteSet(T) /\ T \in SUBSET S
  BY FS_Subset
<1> HIDE DEF T
<1>1. PICK a : Tells(a, w, S) /\ SumFunctionOnSet(w, S) = a[S]
  BY SumIsRecursion
<1>2. PICK b : Tells(b, w, T) /\ SumFunctionOnSet(w, T) = b[T]
  BY SumIsRecursion, <1>0
<1>3. a[T] = b[T]
  <2>1. \A x \in T : w[x] = w[x]
    OBVIOUS
  <2> QED  BY <1>0, <1>1, <1>2, <2>1, SumUnique
<1>4. a[S] = w[Pick(S)] + a[S \ {Pick(S)}]
  BY <1>1 DEF Tells, SumBody
<1> QED  BY <1>1, <1>2, <1>3, <1>4 DEF T

LEMMA SumInt ==
    ASSUME NEW S, IsFiniteSet(S), NEW w, \A x \in S : w[x] \in Int
    PROVE  SumFunctionOnSet(w, S) \in Int
<1> DEFINE N == {n \in Nat : \A T \in SUBSET S :
                   Cardinality(T) = n => SumFunctionOnSet(w, T) \in Int}
<1>1. 0 \in N
  BY FS_EmptySet, FS_Subset, SumEmpty
<1>2. ASSUME NEW n \in Nat, n \in N
      PROVE  n + 1 \in N
  <2> SUFFICES ASSUME NEW T \in SUBSET S, Cardinality(T) = n + 1
               PROVE  SumFunctionOnSet(w, T) \in Int
    BY <1>2
  <2>1. IsFiniteSet(T) /\ T # {}
    BY FS_Subset, FS_EmptySet
  <2>2. Pick(T) \in T
    BY <2>1, PickIn
  <2>3. Cardinality(T \ {Pick(T)}) = n
    <3>1. Cardinality(T \ {Pick(T)}) = Cardinality(T) - 1
      BY <2>1, <2>2, FS_RemoveElement
    <3> QED  BY <3>1
  <2>4. SumFunctionOnSet(w, T \ {Pick(T)}) \in Int
    BY <1>2, <2>3
  <2>5. w[Pick(T)] \in Int
    BY <2>2
  <2> QED  BY <2>1, <2>4, <2>5, SumPick
<1>3. \A n \in Nat : n \in N
  <2> HIDE DEF N
  <2> QED  BY <1>1, <1>2, NatInductive
<1> QED  BY <1>3, FS_CardinalityType

\* Any element can be taken out first.
LEMMA SumRemove ==
    ASSUME NEW S, IsFiniteSet(S), NEW w, \A x \in S : w[x] \in Int, NEW e \in S
    PROVE  SumFunctionOnSet(w, S) = w[e] + SumFunctionOnSet(w, S \ {e})
<1> DEFINE N == {n \in Nat : \A T \in SUBSET S : \A x \in T :
                   Cardinality(T) = n =>
                     SumFunctionOnSet(w, T) = w[x] + SumFunctionOnSet(w, T \ {x})}
<1>1. 0 \in N
  <2> SUFFICES ASSUME NEW T \in SUBSET S, NEW x \in T, Cardinality(T) = 0
               PROVE  FALSE
    OBVIOUS
  <2> QED  BY FS_EmptySet, FS_Subset
<1>2. ASSUME NEW n \in Nat, n \in N
      PROVE  n + 1 \in N
  <2> SUFFICES ASSUME NEW T \in SUBSET S, NEW x \in T, Cardinality(T) = n + 1
               PROVE  SumFunctionOnSet(w, T) = w[x] + SumFunctionOnSet(w, T \ {x})
    BY <1>2
  <2> DEFINE y == Pick(T)
  <2>1. IsFiniteSet(T) /\ y \in T
    BY FS_Subset, PickIn
  <2>2. SumFunctionOnSet(w, T) = w[y] + SumFunctionOnSet(w, T \ {y})
    BY <2>1, SumPick
  <2> HIDE DEF y
  <2>3. CASE x = y
    BY <2>2, <2>3
  <2>4. CASE x # y
    <3>1. Cardinality(T \ {y}) = n
      <4>1. Cardinality(T \ {y}) = Cardinality(T) - 1
        BY <2>1, FS_RemoveElement
      <4> QED  BY <4>1
    <3>2. Cardinality(T \ {x}) = n
      <4>1. Cardinality(T \ {x}) = Cardinality(T) - 1
        BY <2>1, FS_RemoveElement
      <4> QED  BY <4>1
    <3>3. SumFunctionOnSet(w, T \ {y}) =
            w[x] + SumFunctionOnSet(w, (T \ {y}) \ {x})
      BY <1>2, <2>4, <3>1
    <3>4. SumFunctionOnSet(w, T \ {x}) =
            w[y] + SumFunctionOnSet(w, (T \ {x}) \ {y})
      BY <1>2, <2>1, <2>4, <3>2
    <3>5. (T \ {x}) \ {y} = (T \ {y}) \ {x}
      OBVIOUS
    <3>6. SumFunctionOnSet(w, (T \ {y}) \ {x}) \in Int
      BY <2>1, FS_Subset, SumInt
    <3>7. w[x] \in Int /\ w[y] \in Int
      BY <2>1
    <3> DEFINE rest == SumFunctionOnSet(w, (T \ {y}) \ {x})
    <3>8. /\ SumFunctionOnSet(w, T) = w[y] + (w[x] + rest)
          /\ SumFunctionOnSet(w, T \ {x}) = w[y] + rest
      BY <2>2, <3>3, <3>4, <3>5
    <3>9. rest \in Int
      BY <3>6
    <3> HIDE DEF rest
    <3> QED  BY <3>7, <3>8, <3>9
  <2> QED  BY <2>3, <2>4
<1>3. \A n \in Nat : n \in N
  <2> HIDE DEF N
  <2> QED  BY <1>1, <1>2, NatInductive
<1> QED  BY <1>3, FS_CardinalityType

LEMMA SumAdd ==
    ASSUME NEW S, IsFiniteSet(S), NEW w, NEW e, e \notin S,
           \A x \in S \cup {e} : w[x] \in Int
    PROVE  SumFunctionOnSet(w, S \cup {e}) = w[e] + SumFunctionOnSet(w, S)
<1>1. IsFiniteSet(S \cup {e}) /\ (S \cup {e}) \ {e} = S
  BY FS_AddElement
<1> QED  BY <1>1, SumRemove

\* What one element changes by, the sum changes by.
LEMMA SumChange ==
    ASSUME NEW S, IsFiniteSet(S), NEW w, NEW v, NEW e \in S,
           \A x \in S : w[x] \in Int /\ v[x] \in Int,
           \A x \in S \ {e} : v[x] = w[x]
    PROVE  SumFunctionOnSet(v, S) = SumFunctionOnSet(w, S) + (v[e] - w[e])
<1>1. SumFunctionOnSet(w, S) = w[e] + SumFunctionOnSet(w, S \ {e})
  BY SumRemove
<1>2. SumFunctionOnSet(v, S) = v[e] + SumFunctionOnSet(v, S \ {e})
  BY SumRemove
<1>3. IsFiniteSet(S \ {e})
  BY FS_Subset
<1>4. SumFunctionOnSet(v, S \ {e}) = SumFunctionOnSet(w, S \ {e})
  BY <1>3, SumSame
<1>5. SumFunctionOnSet(w, S \ {e}) \in Int
  BY <1>3, SumInt
<1> QED  BY <1>1, <1>2, <1>4, <1>5

\* Terms that are no larger, of a set that is no larger, make a sum that is
\* no larger.
LEMMA SumMonotone ==
    ASSUME NEW S, IsFiniteSet(S), NEW T \in SUBSET S, NEW w, NEW v,
           \A x \in S : w[x] \in Nat, \A x \in T : v[x] \in Nat /\ v[x] <= w[x]
    PROVE  /\ SumFunctionOnSet(w, S) \in Nat /\ SumFunctionOnSet(v, T) \in Nat
           /\ SumFunctionOnSet(v, T) <= SumFunctionOnSet(w, S)
<1> DEFINE P == {U \in SUBSET S :
                   /\ SumFunctionOnSet(w, U) \in Nat
                   /\ SumFunctionOnSet(v, U \cap T) \in Nat
                   /\ SumFunctionOnSet(v, U \cap T) <= SumFunctionOnSet(w, U)}
<1>1. {} \in P
  <2>1. {} \cap T = {}
    OBVIOUS
  <2> QED  BY <2>1, SumEmpty
<1>2. ASSUME NEW U \in SUBSET S, NEW x \in S, U \in P, x \notin U
      PROVE  U \cup {x} \in P
  <2>1. IsFiniteSet(U) /\ IsFiniteSet(U \cap T)
    BY FS_Subset
  <2>2. SumFunctionOnSet(w, U \cup {x}) = w[x] + SumFunctionOnSet(w, U)
    BY <1>2, <2>1, SumAdd
  <2>3. CASE x \in T
    <3>1. (U \cup {x}) \cap T = (U \cap T) \cup {x}
      BY <2>3
    <3>2. SumFunctionOnSet(v, (U \cap T) \cup {x}) =
            v[x] + SumFunctionOnSet(v, U \cap T)
      <4>1. \A y \in (U \cap T) \cup {x} : v[y] \in Int
        BY <2>3
      <4>2. x \notin U \cap T
        BY <1>2
      <4> QED  BY <2>1, <4>1, <4>2, SumAdd
    <3>3. w[x] \in Nat /\ v[x] \in Nat /\ v[x] <= w[x]
      BY <2>3
    <3> DEFINE big == SumFunctionOnSet(w, U)
               small == SumFunctionOnSet(v, U \cap T)
    <3>4. big \in Nat /\ small \in Nat /\ small <= big
      BY <1>2
    <3>5. /\ SumFunctionOnSet(w, U \cup {x}) = w[x] + big
          /\ SumFunctionOnSet(v, (U \cup {x}) \cap T) = v[x] + small
      BY <2>2, <3>1, <3>2
    <3> HIDE DEF big, small
    <3>6. w[x] + big \in Nat /\ v[x] + small \in Nat /\ v[x] + small <= w[x] + big
      BY <3>3, <3>4
    <3> QED  BY <3>5, <3>6
  <2>4. CASE x \notin T
    <3>1. (U \cup {x}) \cap T = U \cap T
      BY <2>4
    <3>2. w[x] \in Nat
      OBVIOUS
    <3> QED  BY <1>2, <2>2, <3>1, <3>2
  <2> QED  BY <2>3, <2>4
<1>3. S \in P
  <2> HIDE DEF P
  <2> QED  BY <1>1, <1>2, SetInductive
<1>4. S \cap T = T
  OBVIOUS
<1> QED  BY <1>3, <1>4

\* A sum of numbers up to K is up to K for each.
LEMMA SumAtMost ==
    ASSUME NEW S, IsFiniteSet(S), NEW K \in Nat, NEW w,
           \A x \in S : w[x] \in Nat /\ w[x] <= K
    PROVE  SumFunctionOnSet(w, S) <= K * Cardinality(S)
<1> DEFINE P == {U \in SUBSET S : /\ SumFunctionOnSet(w, U) \in Int
                                  /\ SumFunctionOnSet(w, U) <= K * Cardinality(U)}
<1>1. {} \in P
  <2>1. SumFunctionOnSet(w, {}) = 0 /\ Cardinality({}) = 0
    BY SumEmpty, FS_EmptySet
  <2> QED  BY <2>1
<1>2. ASSUME NEW U \in SUBSET S, NEW x \in S, U \in P, x \notin U
      PROVE  U \cup {x} \in P
  <2>1. IsFiniteSet(U) /\ \A y \in U \cup {x} : w[y] \in Int
    BY FS_Subset
  <2>2. SumFunctionOnSet(w, U \cup {x}) = w[x] + SumFunctionOnSet(w, U)
    BY <1>2, <2>1, SumAdd
  <2>3. Cardinality(U \cup {x}) = Cardinality(U) + 1 /\ Cardinality(U) \in Nat
    BY <1>2, <2>1, FS_AddElement, FS_CardinalityType
  <2>4. PICK n \in Nat : n = Cardinality(U)
    BY <2>3
  <2>5. PICK sum \in Int : sum = SumFunctionOnSet(w, U) /\ sum <= K * n
    BY <1>2, <2>4
  <2>6. w[x] \in Nat /\ w[x] <= K
    OBVIOUS
  <2>7. K * (n + 1) = K * n + K /\ K * n \in Int
    OBVIOUS
  <2>8. w[x] + sum \in Int /\ w[x] + sum <= K * (n + 1)
    BY <2>5, <2>6, <2>7
  <2> QED  BY <2>2, <2>3, <2>4, <2>5, <2>8
<1>3. S \in P
  <2> HIDE DEF P
  <2> QED  BY <1>1, <1>2, SetInductive
<1> QED  BY <1>3

LEMMA TimesMonotone ==
    ASSUME NEW k \in Nat, NEW m \in Nat, NEW n \in Nat, m <= n
    PROVE  k * m <= k * n
<1>1. PICK d \in Nat : n = m + d
  <2>1. n - m \in Nat
    OBVIOUS
  <2> QED  BY <2>1
<1>2. k * (m + d) = k * m + k * d /\ k * d \in Nat /\ k * m \in Nat
  OBVIOUS
<1> QED  BY <1>1, <1>2

LEMMA SumUnion ==
    ASSUME NEW S, IsFiniteSet(S), NEW w, \A x \in S : w[x] \in Int,
           NEW A \in SUBSET S, NEW B \in SUBSET S, A \cap B = {}
    PROVE  SumFunctionOnSet(w, A \cup B) =
             SumFunctionOnSet(w, A) + SumFunctionOnSet(w, B)
<1> DEFINE P == {U \in SUBSET B : SumFunctionOnSet(w, A \cup U) =
                   SumFunctionOnSet(w, A) + SumFunctionOnSet(w, U)}
<1>0. IsFiniteSet(A) /\ IsFiniteSet(B) /\ SumFunctionOnSet(w, A) \in Int
  BY FS_Subset, SumInt
<1>1. {} \in P
  <2>1. A \cup {} = A
    OBVIOUS
  <2> QED  BY <1>0, <2>1, SumEmpty
<1>2. ASSUME NEW U \in SUBSET B, NEW x \in B, U \in P, x \notin U
      PROVE  U \cup {x} \in P
  <2>1. IsFiniteSet(U) /\ IsFiniteSet(A \cup U) /\ w[x] \in Int
    BY <1>0, FS_Subset
  <2>2. SumFunctionOnSet(w, U \cup {x}) = w[x] + SumFunctionOnSet(w, U)
    BY <1>2, <2>1, SumAdd
  <2>3. SumFunctionOnSet(w, (A \cup U) \cup {x}) =
          w[x] + SumFunctionOnSet(w, A \cup U)
    <3>1. x \notin A \cup U /\ \A y \in (A \cup U) \cup {x} : w[y] \in Int
      BY <1>2
    <3> QED  BY <2>1, <3>1, SumAdd
  <2>4. A \cup (U \cup {x}) = (A \cup U) \cup {x}
    OBVIOUS
  <2>5. SumFunctionOnSet(w, U) \in Int
    BY <2>1, SumInt
  <2>6. SumFunctionOnSet(w, A \cup U) =
          SumFunctionOnSet(w, A) + SumFunctionOnSet(w, U)
    BY <1>2
  <2>7. SumFunctionOnSet(w, A \cup (U \cup {x})) =
          SumFunctionOnSet(w, A) + SumFunctionOnSet(w, U \cup {x})
    <3> DEFINE a == SumFunctionOnSet(w, A)
               u == SumFunctionOnSet(w, U)
    <3>1. SumFunctionOnSet(w, A \cup (U \cup {x})) = w[x] + (a + u)
      BY <2>3, <2>4, <2>6
    <3>2. a \in Int /\ u \in Int /\ w[x] \in Int
      BY <1>0, <2>1, <2>5
    <3>3. SumFunctionOnSet(w, U \cup {x}) = w[x] + u
      BY <2>2
    <3> HIDE DEF a, u
    <3>4. w[x] + (a + u) = a + (w[x] + u)
      BY <3>2
    <3> USE DEF a
    <3> QED  BY <3>1, <3>3, <3>4
  <2> QED  BY <2>7
<1>3. B \in P
  <2> HIDE DEF P
  <2> QED  BY <1>0, <1>1, <1>2, SetInductive
<1> QED  BY <1>3

\* A sum over disjoint groups is the sum of the groups' sums.
LEMMA SumOfGroups ==
    ASSUME NEW P, IsFiniteSet(P), NEW S, IsFiniteSet(S), NEW w,
           \A x \in S : w[x] \in Int,
           NEW group, \A p \in P : group[p] \subseteq S,
           \A p, q \in P : p # q => group[p] \cap group[q] = {}
    PROVE  SumFunctionOnSet([p \in P |-> SumFunctionOnSet(w, group[p])], P) =
             SumFunctionOnSet(w, UNION {group[p] : p \in P})
<1> DEFINE sums == [p \in P |-> SumFunctionOnSet(w, group[p])]
           together(Q) == UNION {group[p] : p \in Q}
           Good == {Q \in SUBSET P : SumFunctionOnSet(sums, Q) =
                                       SumFunctionOnSet(w, together(Q))}
<1>1. {} \in Good
  <2>1. together({}) = {}
    OBVIOUS
  <2> QED  BY <2>1, SumEmpty
<1>2. ASSUME NEW Q \in SUBSET P, NEW p \in P, Q \in Good, p \notin Q
      PROVE  Q \cup {p} \in Good
  <2>1. IsFiniteSet(Q)
    BY FS_Subset
  <2>2. \A q \in P : sums[q] \in Int
    <3> SUFFICES ASSUME NEW q \in P PROVE SumFunctionOnSet(w, group[q]) \in Int
      OBVIOUS
    <3>1. IsFiniteSet(group[q]) /\ \A x \in group[q] : w[x] \in Int
      BY FS_Subset
    <3> QED  BY <3>1, SumInt
  <2>3. SumFunctionOnSet(sums, Q \cup {p}) = sums[p] + SumFunctionOnSet(sums, Q)
    <3> HIDE DEF sums
    <3>1. \A q \in Q \cup {p} : sums[q] \in Int
      BY <2>2
    <3> QED  BY <1>2, <2>1, <3>1, SumAdd
  <2>4. together(Q \cup {p}) = together(Q) \cup group[p]
    OBVIOUS
  <2>5. together(Q) \subseteq S /\ group[p] \subseteq S
    OBVIOUS
  <2>6. together(Q) \cap group[p] = {}
    BY <1>2
  <2>7. SumFunctionOnSet(w, together(Q) \cup group[p]) =
          SumFunctionOnSet(w, together(Q)) + SumFunctionOnSet(w, group[p])
    <3> HIDE DEF together
    <3> QED  BY <2>5, <2>6, SumUnion
  <2>8. SumFunctionOnSet(w, together(Q)) \in Int /\ sums[p] \in Int
    <3>1. IsFiniteSet(together(Q)) /\ \A x \in together(Q) : w[x] \in Int
      <4> HIDE DEF together
      <4> QED  BY <2>5, FS_Subset
    <3> HIDE DEF together, sums
    <3> QED  BY <2>2, <3>1, SumInt
  <2>9. SumFunctionOnSet(sums, Q) = SumFunctionOnSet(w, together(Q))
    BY <1>2
  <2>10. sums[p] = SumFunctionOnSet(w, group[p])
    OBVIOUS
  <2> HIDE DEF together, sums
  <2>11. SumFunctionOnSet(sums, Q \cup {p}) = SumFunctionOnSet(w, together(Q \cup {p}))
    <3> DEFINE a == SumFunctionOnSet(w, together(Q))
    <3>1. /\ SumFunctionOnSet(sums, Q \cup {p}) = sums[p] + a
          /\ SumFunctionOnSet(w, together(Q \cup {p})) = a + sums[p]
      BY <2>3, <2>4, <2>7, <2>9, <2>10
    <3>2. a \in Int /\ sums[p] \in Int
      BY <2>8
    <3> HIDE DEF a
    <3> QED  BY <3>1, <3>2
  <2> QED  BY <2>11
<1>3. P \in Good
  <2> HIDE DEF Good
  <2> QED  BY <1>1, <1>2, SetInductive
<1> QED  BY <1>3

----------------------------------------------------------------------------
(* Remainders.                                                             *)

LEMMA DivMod ==
    ASSUME NEW m \in Nat \ {0}, NEW a \in Int
    PROVE  /\ a \div m \in Int /\ a % m \in 0 .. (m - 1)
           /\ a = m * (a \div m) + (a % m)
OBVIOUS

\* The remainder is the only one there is.
LEMMA RemainderIs ==
    ASSUME NEW m \in Nat \ {0}, NEW a \in Int, NEW q \in Int,
           NEW r \in 0 .. (m - 1), a = m * q + r
    PROVE  a % m = r
<1> DEFINE k == a \div m
           s == a % m
<1>1. k \in Int /\ s \in 0 .. (m - 1) /\ a = m * k + s
  BY DivMod
<1> HIDE DEF k, s
<1>2. k <= q
  <2>1. k >= q + 1 => m * k >= m * (q + 1)
    BY <1>1
  <2>2. m * (q + 1) = m * q + m
    OBVIOUS
  <2> QED  BY <1>1, <2>1, <2>2
<1>3. q <= k
  <2>1. q >= k + 1 => m * q >= m * (k + 1)
    BY <1>1
  <2>2. m * (k + 1) = m * k + m
    BY <1>1
  <2> QED  BY <1>1, <2>1, <2>2
<1>4. k = q
  BY <1>1, <1>2, <1>3
<1>5. s = r
  BY <1>1, <1>4
<1> QED  BY <1>5 DEF s

\* It does not matter when a sum is reduced.
LEMMA ModAdd ==
    ASSUME NEW m \in Nat \ {0}, NEW a \in Int, NEW d \in Int
    PROVE  ((a % m) + d) % m = (a + d) % m
<1> DEFINE r == a % m
           k == a \div m
           s == (r + d) % m
           j == (r + d) \div m
<1>1. k \in Int /\ r \in 0 .. (m - 1) /\ a = m * k + r
  BY DivMod
<1>2. r + d \in Int
  BY <1>1
<1>3. j \in Int /\ s \in 0 .. (m - 1) /\ r + d = m * j + s
  <2> HIDE DEF r
  <2> QED  BY <1>2, DivMod
<1> HIDE DEF r, k, s, j
<1>4. a + d = m * (k + j) + s
  <2>1. m * (k + j) = m * k + m * j
    BY <1>1, <1>3
  <2> QED  BY <1>1, <1>3, <2>1
<1>5. (a + d) % m = s
  <2>1. a + d \in Int /\ k + j \in Int
    BY <1>1, <1>3
  <2> QED  BY <1>3, <1>4, <2>1, RemainderIs
<1> QED  BY <1>5 DEF r, s

LEMMA ModLeast ==
    ASSUME NEW m \in Nat \ {0}, NEW a \in Nat
    PROVE  a % m \in Nat /\ a % m <= a /\ (a < m => a % m = a)
<1>1. a \div m \in Int /\ a % m \in 0 .. (m - 1) /\ a = m * (a \div m) + (a % m)
  BY DivMod
<1> DEFINE k == a \div m
           s == a % m
<1>2. k \in Int /\ s \in 0 .. (m - 1) /\ a = m * k + s
  BY <1>1
<1> HIDE DEF k, s
<1>3. k >= 0
  <2>1. k <= -1 => m * k <= m * (-1)
    BY <1>2
  <2> QED  BY <1>2, <2>1
<1>4. m * k >= 0
  BY <1>2, <1>3
<1>5. a < m => a % m = a
  BY RemainderIs
<1>6. s <= a /\ s \in Nat
  BY <1>2, <1>4
<1> QED  BY <1>5, <1>6 DEF s

----------------------------------------------------------------------------
(* Sequences that lose one element.                                        *)

\* q2 is q without its i-th element.
Drops(q, q2, i) ==
    /\ Len(q2) = Len(q) - 1
    /\ \A j \in 1 .. (Len(q) - 1) : q2[j] = IF j < i THEN q[j] ELSE q[j + 1]

\* RemoveAt of SequencesExt.
Cut(q, i) == SubSeq(q, 1, i - 1) \o SubSeq(q, i + 1, Len(q))

LEMMA CutDrops ==
    ASSUME NEW S, NEW q \in Seq(S), NEW i \in DOMAIN q
    PROVE  Cut(q, i) \in Seq(S) /\ Drops(q, Cut(q, i), i)
<1> DEFINE front == SubSeq(q, 1, i - 1)
           back == SubSeq(q, i + 1, Len(q))
<1>1. front \in Seq(S) /\ Len(front) = i - 1
        /\ \A j \in 1 .. (i - 1) : front[j] = q[j]
  OBVIOUS
<1>2. back \in Seq(S) /\ Len(back) = Len(q) - i
        /\ \A j \in 1 .. (Len(q) - i) : back[j] = q[i + j]
  OBVIOUS
<1>3. front \o back \in Seq(S) /\ Drops(q, front \o back, i)
  <2> HIDE DEF front, back
  <2> QED  BY <1>1, <1>2 DEF Drops
<1> QED  BY <1>3 DEF Cut

LEMMA TailDrops ==
    ASSUME NEW S, NEW q \in Seq(S), q # <<>>
    PROVE  Tail(q) \in Seq(S) /\ Drops(q, Tail(q), 1) /\ 1 \in DOMAIN q
BY DEF Drops

\* What a sequence keeps when it drops an element: every other element, at
\* one place each.
LEMMA DropsComesFrom ==
    ASSUME NEW q, NEW q2, NEW i \in 1 .. Len(q), Len(q) \in Nat,
           DOMAIN q2 = 1 .. Len(q2), Drops(q, q2, i), NEW j \in DOMAIN q2
    PROVE  \E m \in 1 .. Len(q) : /\ m # i /\ q2[j] = q[m]
                                  /\ m = IF j < i THEN j ELSE j + 1
<1>1. j \in 1 .. (Len(q) - 1)
  BY DEF Drops
<1>2. CASE j < i
  BY <1>1, <1>2 DEF Drops
<1>3. CASE ~(j < i)
  <2>1. j + 1 \in 1 .. Len(q) /\ j + 1 # i /\ q2[j] = q[j + 1]
    BY <1>1, <1>3 DEF Drops
  <2> QED  BY <2>1, <1>3
<1> QED  BY <1>2, <1>3

LEMMA DropsKeeps ==
    ASSUME NEW q, NEW q2, NEW i \in 1 .. Len(q), Len(q) \in Nat,
           DOMAIN q2 = 1 .. Len(q2), Drops(q, q2, i),
           NEW m \in 1 .. Len(q), m # i
    PROVE  \E j \in DOMAIN q2 : q2[j] = q[m]
<1>1. DOMAIN q2 = 1 .. (Len(q) - 1)
  BY DEF Drops
<1>2. CASE m < i
  BY <1>1, <1>2 DEF Drops
<1>3. CASE ~(m < i)
  <2>1. m - 1 \in 1 .. (Len(q) - 1) /\ ~(m - 1 < i) /\ (m - 1) + 1 = m
    BY <1>3
  <2>2. q2[m - 1] = q[m]
    BY <2>1 DEF Drops
  <2> QED  BY <1>1, <2>1, <2>2
<1> QED  BY <1>2, <1>3

LEMMA DropsOnce ==
    ASSUME NEW q, NEW q2, NEW i \in 1 .. Len(q), Len(q) \in Nat,
           DOMAIN q2 = 1 .. Len(q2), Drops(q, q2, i),
           \A a, b \in 1 .. Len(q) : q[a] = q[b] => a = b,
           NEW c \in DOMAIN q2, NEW d \in DOMAIN q2, q2[c] = q2[d]
    PROVE  c = d
<1>1. PICK m \in 1 .. Len(q) : q2[c] = q[m]
                                /\ m = IF c < i THEN c ELSE c + 1
  BY DropsComesFrom
<1>2. PICK n \in 1 .. Len(q) : q2[d] = q[n]
                                /\ n = IF d < i THEN d ELSE d + 1
  BY DropsComesFrom
<1>3. m = n
  BY <1>1, <1>2
<1>4. c \in Nat /\ d \in Nat
  OBVIOUS
<1> QED  BY <1>1, <1>2, <1>3, <1>4

LEMMA AppendAdds ==
    ASSUME NEW S, NEW q \in Seq(S), NEW e \in S
    PROVE  /\ Append(q, e) \in Seq(S)
           /\ DOMAIN Append(q, e) = 1 .. (Len(q) + 1)
           /\ Append(q, e)[Len(q) + 1] = e
           /\ \A j \in 1 .. Len(q) : Append(q, e)[j] = q[j]
           /\ Append(q, e) # <<>>
<1>1. Append(q, e) \in Seq(S) /\ Len(Append(q, e)) = Len(q) + 1
        /\ Len(q) \in Nat
  OBVIOUS
<1>2. \A j \in 1 .. Len(q) : Append(q, e)[j] = q[j]
  OBVIOUS
<1>3. Append(q, e)[Len(q) + 1] = e
  OBVIOUS
<1>4. DOMAIN Append(q, e) = 1 .. (Len(q) + 1)
  BY <1>1
<1>5. Append(q, e) # <<>>
  BY <1>1
<1> QED  BY <1>1, <1>2, <1>3, <1>4, <1>5

\* Two neighbouring pieces of a sequence, put together.
LEMMA PiecesJoin ==
    ASSUME NEW S, NEW t \in Seq(S), NEW a \in 1 .. (Len(t) + 1),
           NEW b \in 1 .. (Len(t) + 1), a <= b
    PROVE  SubSeq(t, a, b - 1) \o SubSeq(t, b, Len(t)) = SubSeq(t, a, Len(t))
<1> DEFINE x == SubSeq(t, a, b - 1)
           y == SubSeq(t, b, Len(t))
           z == SubSeq(t, a, Len(t))
<1>0. Len(t) \in Nat /\ a \in Nat /\ b \in Nat
  OBVIOUS
<1>1. /\ x \in Seq(S) /\ Len(x) = b - a
      /\ \A i \in 1 .. (b - a) : x[i] = t[a + i - 1]
  OBVIOUS
<1>2. /\ y \in Seq(S) /\ Len(y) = Len(t) + 1 - b
      /\ \A i \in 1 .. (Len(t) + 1 - b) : y[i] = t[b + i - 1]
  OBVIOUS
<1>3. /\ z \in Seq(S) /\ Len(z) = Len(t) + 1 - a
      /\ \A i \in 1 .. (Len(t) + 1 - a) : z[i] = t[a + i - 1]
  OBVIOUS
<1> HIDE DEF x, y, z
<1>4. /\ x \o y \in Seq(S) /\ Len(x \o y) = Len(x) + Len(y)
      /\ \A i \in 1 .. (Len(x) + Len(y)) :
            (x \o y)[i] = IF i <= Len(x) THEN x[i] ELSE y[i - Len(x)]
  BY <1>1, <1>2, ConcatProperties
<1>5. Len(x \o y) = Len(z)
  BY <1>0, <1>1, <1>2, <1>3, <1>4
<1>6. \A i \in 1 .. Len(z) : (x \o y)[i] = z[i]
  <2> SUFFICES ASSUME NEW i \in 1 .. Len(z) PROVE (x \o y)[i] = z[i]
    OBVIOUS
  <2>0. i \in 1 .. (Len(x) + Len(y)) /\ Len(x) \in Nat
    BY <1>0, <1>1, <1>2, <1>3
  <2>1. CASE i <= Len(x)
    <3>1. i \in 1 .. (b - a) /\ (x \o y)[i] = x[i]
      BY <1>1, <1>4, <2>0, <2>1
    <3> QED  BY <1>1, <1>3, <3>1
  <2>2. CASE i > Len(x)
    <3>1. PICK j : j = i - Len(x)
      OBVIOUS
    <3>2. (x \o y)[i] = y[j]
      BY <1>4, <2>0, <2>2, <3>1
    <3>3. Len(x) = b - a /\ Len(y) = Len(t) + 1 - b /\ i \in Nat
          /\ i <= Len(x) + Len(y)
      BY <1>1, <1>2, <2>0
    <3>4. /\ j \in 1 .. (Len(t) + 1 - b)
          /\ b + j - 1 = a + i - 1
      BY <1>0, <2>0, <2>2, <3>1, <3>3
    <3>5. y[j] = t[b + j - 1] /\ z[i] = t[a + i - 1]
      BY <1>2, <1>3, <3>4
    <3> QED  BY <3>2, <3>4, <3>5
  <2> QED  BY <2>0, <2>1, <2>2
<1>7. x \o y = z
  <2>1. x \o y \in Seq(S) /\ z \in Seq(S)
    BY <1>3, <1>4
  <2> QED  BY <2>1, <1>5, <1>6, SeqEqual
<1> QED  BY <1>7 DEF x, y, z

LEMMA OnePiece ==
    ASSUME NEW S, NEW t \in Seq(S), NEW k \in 1 .. Len(t)
    PROVE  SubSeq(t, k, k) = <<t[k]>>
<1> DEFINE r == SubSeq(t, k, k)
<1>1. r \in Seq(S) /\ Len(r) = k - k + 1
  OBVIOUS
<1>2. \A i \in 1 .. (k - k + 1) : r[i] = t[k + i - 1]
  OBVIOUS
<1>3. 1 \in 1 .. (k - k + 1) /\ k - k + 1 = 1 /\ k + 1 - 1 = k
  OBVIOUS
<1> HIDE DEF r
<1>4. r \in Seq(S) /\ Len(r) = 1 /\ r[1] = t[k]
  BY <1>1, <1>2, <1>3
<1>5. r = <<t[k]>>
  BY <1>4
<1> QED  BY <1>5 DEF r

----------------------------------------------------------------------------
(* Sequences that lose their first element, and that get one in between.   *)

LEMMA TailFacts ==
    ASSUME NEW S, NEW o \in Seq(S), o # <<>>
    PROVE  /\ Tail(o) \in Seq(S) /\ Len(Tail(o)) = Len(o) - 1
           /\ Len(o) \in Nat \ {0}
           /\ DOMAIN Tail(o) = 1 .. (Len(o) - 1)
           /\ \A i \in 1 .. (Len(o) - 1) : Tail(o)[i] = o[i + 1]
  OBVIOUS

\* Sequence M is L with e after the first c.
Inserted(L, M, c, e) ==
    /\ Len(M) = Len(L) + 1
    /\ \A j \in 1 .. (Len(L) + 1) :
          M[j] = IF j <= c THEN L[j] ELSE IF j = c + 1 THEN e ELSE L[j - 1]

LEMMA ConcatFacts ==
    ASSUME NEW S, NEW a \in Seq(S), NEW b \in Seq(S)
    PROVE  /\ a \o b \in Seq(S) /\ Len(a \o b) = Len(a) + Len(b)
           /\ \A j \in 1 .. Len(a) : (a \o b)[j] = a[j]
           /\ \A j \in 1 .. Len(b) : (a \o b)[Len(a) + j] = b[j]
OBVIOUS

LEMMA InsertAdds ==
    ASSUME NEW S, NEW q \in Seq(S), NEW c \in 0 .. Len(q), NEW e \in S
    PROVE  /\ (SubSeq(q, 1, c) \o <<e>>) \o SubSeq(q, c + 1, Len(q)) \in Seq(S)
           /\ Inserted(q, (SubSeq(q, 1, c) \o <<e>>) \o SubSeq(q, c + 1, Len(q)), c, e)
<1> DEFINE front == SubSeq(q, 1, c)
           back == SubSeq(q, c + 1, Len(q))
<1>1. front \in Seq(S) /\ Len(front) = c /\ \A j \in 1 .. c : front[j] = q[j]
  OBVIOUS
<1>2. back \in Seq(S) /\ Len(back) = Len(q) - c
        /\ \A j \in 1 .. (Len(q) - c) : back[j] = q[c + j]
  OBVIOUS
<1>3. (front \o <<e>>) \o back \in Seq(S)
        /\ Inserted(q, (front \o <<e>>) \o back, c, e)
  <2> HIDE DEF front, back
  <2>1. PICK f : f = front \o <<e>>
    OBVIOUS
  <2>2. /\ f \in Seq(S) /\ Len(f) = c + 1 /\ f[c + 1] = e
        /\ \A j \in 1 .. c : f[j] = q[j]
    <3>1. PICK x : x = <<e>>
      OBVIOUS
    <3>2. x \in Seq(S) /\ Len(x) = 1 /\ x[1] = e
      BY <3>1
    <3>3. /\ front \o x \in Seq(S) /\ Len(front \o x) = Len(front) + Len(x)
          /\ \A j \in 1 .. Len(front) : (front \o x)[j] = front[j]
          /\ \A j \in 1 .. Len(x) : (front \o x)[Len(front) + j] = x[j]
      BY <1>1, <3>2, ConcatFacts
    <3> QED  BY <1>1, <2>1, <3>1, <3>2, <3>3
  <2>3. PICK g : /\ g = f \o back
                 /\ g \in Seq(S) /\ Len(g) = Len(q) + 1
                 /\ \A j \in 1 .. (c + 1) : g[j] = f[j]
                 /\ \A j \in 1 .. (Len(q) - c) : g[(c + 1) + j] = back[j]
    <3>1. /\ f \o back \in Seq(S) /\ Len(f \o back) = Len(q) + 1
          /\ \A j \in 1 .. (c + 1) : (f \o back)[j] = f[j]
          /\ \A j \in 1 .. (Len(q) - c) : (f \o back)[(c + 1) + j] = back[j]
      <4>1. back \in Seq(S) /\ f \in Seq(S)
        BY <1>2, <2>2
      <4>2. /\ f \o back \in Seq(S) /\ Len(f \o back) = Len(f) + Len(back)
            /\ \A j \in 1 .. Len(f) : (f \o back)[j] = f[j]
            /\ \A j \in 1 .. Len(back) : (f \o back)[Len(f) + j] = back[j]
        BY <4>1, ConcatFacts
      <4>3. /\ Len(f) = c + 1 /\ Len(back) = Len(q) - c
            /\ (c + 1) + (Len(q) - c) = Len(q) + 1
        BY <1>2, <2>2
      <4> QED  BY <4>2, <4>3
    <3> QED  BY <3>1
  <2>4. ASSUME NEW j \in 1 .. (Len(q) + 1)
        PROVE  g[j] = IF j <= c THEN q[j] ELSE IF j = c + 1 THEN e ELSE q[j - 1]
    <3>1. CASE j <= c + 1
      BY <2>2, <2>3, <3>1
    <3>2. CASE j > c + 1
      <4>1. PICK m \in 1 .. (Len(q) - c) : j = (c + 1) + m /\ c + m = j - 1
        <5>1. j - (c + 1) \in 1 .. (Len(q) - c)
          BY <3>2
        <5>2. j = (c + 1) + (j - (c + 1)) /\ c + (j - (c + 1)) = j - 1
          OBVIOUS
        <5> QED  BY <5>1, <5>2
      <4>2. g[j] = back[m] /\ back[m] = q[j - 1]
        BY <1>2, <2>3, <4>1
      <4> QED  BY <3>2, <4>2
    <3>3. j \in Int /\ c + 1 \in Int
      OBVIOUS
    <3> QED  BY <3>1, <3>2, <3>3
  <2> QED  BY <2>1, <2>3, <2>4 DEF Inserted
<1> QED  BY <1>3

----------------------------------------------------------------------------
(* Sets of positions.                                                      *)

\* A set of positions that has, with a position, all before it.
LEMMA InitialSegment ==
    ASSUME NEW n \in Nat, NEW S \in SUBSET (1 .. n),
           \A i \in S : \A j \in 1 .. i : j \in S
    PROVE  Cardinality(S) \in 0 .. n /\ S = 1 .. Cardinality(S)
<1> DEFINE M == {m \in Nat : m + 1 \notin S}
<1>1. n \in M
  OBVIOUS
<1>2. PICK m \in M : \A k \in M : m <= k
  <2> HIDE DEF M
  <2>1. M \subseteq Nat
    BY DEF M
  <2> QED  BY <1>1, <2>1, NatLeast
<1>3. m <= n /\ m \in Nat
  BY <1>1, <1>2
<1>4. S = 1 .. m
  <2>1. ASSUME NEW i \in S
        PROVE  i \in 1 .. m
    <3>1. i \in 1 .. n /\ (m + 1 <= i => m + 1 \in S)
      BY <1>3
    <3> QED  BY <1>2, <1>3, <3>1
  <2>2. ASSUME NEW i \in 1 .. m
        PROVE  i \in S
    <3>1. i - 1 \in Nat /\ (i - 1) + 1 = i /\ ~(m <= i - 1)
      BY <1>3
    <3>2. i - 1 \notin M
      BY <1>2, <3>1
    <3> QED  BY <3>1, <3>2
  <2> QED  BY <2>1, <2>2
<1>5. Cardinality(1 .. m) = m
  BY <1>3, FS_Interval
<1> QED  BY <1>3, <1>4, <1>5

\* How many different elements there are of k.
LEMMA ImageCount ==
    ASSUME NEW k \in Nat, NEW f,
           \A i, j \in 1 .. k : f[i] = f[j] => i = j
    PROVE  Cardinality({f[i] : i \in 1 .. k}) = k
<1> DEFINE I == {f[i] : i \in 1 .. k}
           g == [i \in 1 .. k |-> f[i]]
<1>1. g \in Bijection(1 .. k, I)
  <2>1. g \in [1 .. k -> I]
    OBVIOUS
  <2>2. \A a, b \in 1 .. k : g[a] = g[b] => a = b
    OBVIOUS
  <2>3. \A u \in I : \E s \in 1 .. k : g[s] = u
    OBVIOUS
  <2> HIDE DEF I, g
  <2> QED  BY <2>1, <2>2, <2>3 DEF Bijection, Injection, IsInjective, Surjection
<1>2. IsFiniteSet(1 .. k) /\ Cardinality(1 .. k) = k
  BY FS_Interval
<1> HIDE DEF I, g
<1>3. Cardinality(I) = Cardinality(1 .. k)
  BY <1>1, <1>2, FS_Bijection DEF ExistsBijection
<1> QED  BY <1>2, <1>3 DEF I

----------------------------------------------------------------------------
(* Sequences one after the other.                                          *)

Glue(a, b) == a \o b

LEMMA GlueAssociative ==
    ASSUME NEW S, NEW a \in Seq(S), NEW b \in Seq(S), NEW c \in Seq(S)
    PROVE  Glue(Glue(a, b), c) = Glue(a, Glue(b, c))
BY ConcatAssociative DEF Glue

\* What is made, one after the other, of the sequences of sequences, n of them.
GlueBody(s, n, f) ==
    [i \in 1 .. n |-> IF i = 1 THEN s[i] ELSE Glue(f[i - 1], s[i])]

LEMMA GlueExists ==
    ASSUME NEW s
    PROVE  \A n \in Nat : \E f : f = GlueBody(s, n, f)
<1> DEFINE T == {n \in Nat : \E f : f = GlueBody(s, n, f)}
<1>1. 0 \in T
  <2> DEFINE f == [i \in 1 .. 0 |-> <<>>]
  <2>1. f = GlueBody(s, 0, f)
    BY DEF GlueBody
  <2> QED  BY <2>1
<1>2. ASSUME NEW n \in Nat, n \in T
      PROVE  n + 1 \in T
  <2>1. PICK f : f = GlueBody(s, n, f)
    BY <1>2
  <2> DEFINE g == [i \in 1 .. (n + 1) |->
                     IF i = n + 1
                     THEN IF i = 1 THEN s[i] ELSE Glue(f[n], s[i])
                     ELSE f[i]]
  <2>2. g = GlueBody(s, n + 1, g)
    <3>1. \A i \in 1 .. n : g[i] = f[i]
      OBVIOUS
    <3>2. \A i \in 1 .. n : f[i] = IF i = 1 THEN s[i] ELSE Glue(f[i - 1], s[i])
      BY <2>1 DEF GlueBody
    <3>3. ASSUME NEW i \in 1 .. (n + 1)
          PROVE  g[i] = IF i = 1 THEN s[i] ELSE Glue(g[i - 1], s[i])
      <4>1. CASE i = n + 1
        <5>1. g[i] = IF i = 1 THEN s[i] ELSE Glue(f[n], s[i])
          BY <4>1
        <5>2. i # 1 => g[n] = f[n] /\ i - 1 = n
          BY <3>1, <4>1
        <5> HIDE DEF g
        <5> QED  BY <5>1, <5>2
      <4>2. CASE i \in 1 .. n
        <5>1. i # 1 => g[i - 1] = f[i - 1]
          BY <3>1, <4>2
        <5>2. g[i] = f[i]
          BY <3>1, <4>2
        <5> HIDE DEF g
        <5> QED  BY <3>2, <4>2, <5>1, <5>2
      <4> QED  BY <4>1, <4>2
    <3>4. g = [i \in 1 .. (n + 1) |-> g[i]]
      OBVIOUS
    <3> HIDE DEF g
    <3> QED  BY <3>3, <3>4 DEF GlueBody
  <2> QED  BY <2>2
<1> HIDE DEF T
<1>3. \A n \in Nat : n \in T
  BY <1>1, <1>2, NatInductive
<1> QED  BY <1>3 DEF T

\* Sequences of sequences over S.
Rows(S) == Seq(Seq(S))

LEMMA RowsFacts ==
    ASSUME NEW S, NEW s \in Rows(S)
    PROVE  /\ Len(s) \in Nat
           /\ \A i \in 1 .. Len(s) : s[i] \in Seq(S)
           /\ Len(s) = 0 => s = <<>>
           /\ s # <<>> => /\ Len(s) \in Nat \ {0} /\ Tail(s) \in Rows(S)
                          /\ Len(Tail(s)) = Len(s) - 1
                          /\ \A i \in 1 .. (Len(s) - 1) : Tail(s)[i] = s[i + 1]
<1>1. s \in Seq(Seq(S))
  BY DEF Rows
<1>2. Len(s) \in Nat /\ \A i \in 1 .. Len(s) : s[i] \in Seq(S)
  BY <1>1
<1>3. Len(s) = 0 => s = <<>>
  BY <1>1
<1>4. ASSUME s # <<>>
      PROVE  /\ Len(s) \in Nat \ {0} /\ Tail(s) \in Seq(Seq(S))
             /\ Len(Tail(s)) = Len(s) - 1
             /\ \A i \in 1 .. (Len(s) - 1) : Tail(s)[i] = s[i + 1]
  BY <1>1, <1>4, TailFacts
<1> QED  BY <1>2, <1>3, <1>4 DEF Rows

LEMMA GlueSteps ==
    ASSUME NEW S, NEW s \in Rows(S), NEW f, f = GlueBody(s, Len(s), f)
    PROVE  /\ \A i \in 1 .. Len(s) : f[i] \in Seq(S)
           /\ Len(s) # 0 => f[1] = s[1]
           /\ \A i \in 1 .. (Len(s) - 1) : f[i + 1] = Glue(f[i], s[i + 1])
<1>0. PICK n \in Nat : n = Len(s)
  BY RowsFacts
<1>1. \A i \in 1 .. n : s[i] \in Seq(S)
  BY <1>0, RowsFacts
<1>2. \A i \in 1 .. n : f[i] = IF i = 1 THEN s[i] ELSE Glue(f[i - 1], s[i])
  BY <1>0 DEF GlueBody
<1>3. n # 0 => f[1] = s[1]
  BY <1>2
<1>4. ASSUME NEW i \in 1 .. (n - 1)
      PROVE  f[i + 1] = Glue(f[i], s[i + 1])
  <2>1. i + 1 \in 1 .. n /\ i + 1 # 1 /\ (i + 1) - 1 = i
    OBVIOUS
  <2> QED  BY <1>2, <2>1
<1> DEFINE Typed(i) == f[i] \in Seq(S)
           T == {k \in Nat : k + 1 <= n => Typed(k + 1)}
<1>5. 0 \in T
  BY <1>1, <1>3
<1>6. ASSUME NEW k \in Nat, k \in T
      PROVE  k + 1 \in T
  <2> SUFFICES ASSUME (k + 1) + 1 <= n
               PROVE  Typed((k + 1) + 1)
    OBVIOUS
  <2>1. PICK m \in 1 .. (n - 1) : m = k + 1
    OBVIOUS
  <2>2. Typed(m)
    <3> HIDE DEF Typed
    <3> QED  BY <1>6, <2>1
  <2>3. m + 1 \in 1 .. n
    OBVIOUS
  <2>4. f[m] \in Seq(S) /\ s[m + 1] \in Seq(S)
    BY <1>1, <2>2, <2>3
  <2>5. Glue(f[m], s[m + 1]) \in Seq(S)
    BY <2>4, ConcatProperties DEF Glue
  <2> QED  BY <1>4, <2>1, <2>5
<1>7. \A k \in Nat : k \in T
  <2> HIDE DEF T
  <2> QED  BY <1>5, <1>6, NatInductive
<1>8. ASSUME NEW i \in 1 .. n
      PROVE  Typed(i)
  <2> HIDE DEF Typed
  <2>1. PICK k \in Nat : k + 1 = i /\ k + 1 <= n
    <3>1. i - 1 \in Nat /\ (i - 1) + 1 = i
      OBVIOUS
    <3> QED  BY <3>1
  <2> QED  BY <1>7, <2>1
<1> QED  BY <1>0, <1>3, <1>4, <1>8
============================================================================

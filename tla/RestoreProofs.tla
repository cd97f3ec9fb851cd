--------------------------- MODULE RestoreProofs ---------------------------
(***************************************************************************)
(* A book that is listed, lost and restored is the book it was             *)
(* (RestoredBook), for every set of ids, locations, prices and quantities. *)
(*                                                                         *)
(* restore() puts the orders of the listing to rest one after the other,   *)
(* without a look at the opposite side.  The invariant says what is there  *)
(* after n of them: on each side the first ones of what the atomic book    *)
(* has, and on the list the others (HalfRestored).  That the next one goes *)
(* to the end of its side needs the listing to be sorted; that it does not *)
(* cross needs the listed book not to be crossed, and that its id is free  *)
(* needs the ids to differ: Restorable, which holds of every book at rest. *)
(***************************************************************************)
EXTENDS RestoredBook, RefinementProofs

----------------------------------------------------------------------------
(* The listing of a book: bids, then asks.                                 *)

AsEntry(s, r) == [id |-> r.id, side |-> s, price |-> r.price,
                  qty |-> r.qty, tif |-> r.tif]

CountOf(b, s) == Len(b[s])

SizeOf(b) == CountOf(b, "Bid") + CountOf(b, "Ask")

NthEntry(b, n) ==
    IF n <= CountOf(b, "Bid") THEN AsEntry("Bid", b["Bid"][n])
    ELSE AsEntry("Ask", b["Ask"][n - CountOf(b, "Bid")])

\* The n-th entry of the listing is the i-th order of side s.
Stands(b, n, s, i) ==
    /\ s \in Sides /\ i \in 1 .. CountOf(b, s) /\ n \in 1 .. SizeOf(b)
    /\ n = IF s = "Bid" THEN i ELSE CountOf(b, "Bid") + i
    /\ NthEntry(b, n) = AsEntry(s, b[s][i])

LEMMA BookFacts ==
    ASSUME NEW b \in Books
    PROVE  /\ SizeOf(b) = CountOf(b, "Bid") + CountOf(b, "Ask")
           /\ SizeOf(b) \in Nat
           /\ CountOf(b, "Bid") \in Nat /\ CountOf(b, "Ask") \in Nat
           /\ \A s \in Sides : /\ b[s] \in Seq(Listed) /\ CountOf(b, s) = Len(b[s])
                               /\ DOMAIN b[s] = 1 .. CountOf(b, s)
           /\ "Bid" \in Sides /\ "Ask" \in Sides
           /\ \A s \in Sides : s = "Bid" \/ s = "Ask"
<1>1. "Bid" \in Sides /\ "Ask" \in Sides /\ \A s \in Sides : s = "Bid" \/ s = "Ask"
  BY DEF Sides
<1>2. \A s \in Sides : b[s] \in Seq(Listed)
  BY DEF Books
<1>3. \A s \in Sides : /\ CountOf(b, s) = Len(b[s]) /\ CountOf(b, s) \in Nat
                       /\ DOMAIN b[s] = 1 .. CountOf(b, s)
  BY <1>2, ListedFacts DEF CountOf
<1>4. CountOf(b, "Bid") \in Nat /\ CountOf(b, "Ask") \in Nat
  BY <1>1, <1>3
<1>5. SizeOf(b) = CountOf(b, "Bid") + CountOf(b, "Ask")
  BY DEF SizeOf
<1>6. SizeOf(b) \in Nat
  BY <1>4, <1>5
<1> QED  BY <1>1, <1>2, <1>3, <1>4, <1>5, <1>6

LEMMA EntryStands ==
    ASSUME NEW b \in Books, NEW n \in 1 .. SizeOf(b)
    PROVE  \E s, i : Stands(b, n, s, i)
<1>1. CASE n <= CountOf(b, "Bid")
  <2>1. n \in 1 .. CountOf(b, "Bid") /\ "Bid" \in Sides
    BY <1>1, BookFacts
  <2>2. NthEntry(b, n) = AsEntry("Bid", b["Bid"][n])
    BY <1>1 DEF NthEntry
  <2> QED  BY <2>1, <2>2 DEF Stands
<1>2. CASE n > CountOf(b, "Bid")
  <2>1. PICK i : i = n - CountOf(b, "Bid")
    OBVIOUS
  <2>2. /\ i \in 1 .. CountOf(b, "Ask") /\ n = CountOf(b, "Bid") + i
        /\ ~(n <= CountOf(b, "Bid"))
    BY <1>2, <2>1, BookFacts
  <2>3. NthEntry(b, n) = AsEntry("Ask", b["Ask"][i])
    BY <2>1, <2>2 DEF NthEntry
  <2>4. Stands(b, n, "Ask", i)
    BY <2>2, <2>3, BookFacts DEF Stands
  <2> QED  BY <2>4
<1> QED  BY <1>1, <1>2, BookFacts

LEMMA OrderStands ==
    ASSUME NEW b \in Books, NEW s \in Sides, NEW i \in 1 .. CountOf(b, s)
    PROVE  \E n : Stands(b, n, s, i)
<1>1. PICK n : n = IF s = "Bid" THEN i ELSE CountOf(b, "Bid") + i
  OBVIOUS
<1>2. n \in 1 .. SizeOf(b)
  <2>1. CASE s = "Bid"
    BY <1>1, <2>1, BookFacts
  <2>2. CASE s = "Ask"
    BY <1>1, <2>2, BookFacts
  <2> QED  BY <2>1, <2>2, BookFacts
<1>3. NthEntry(b, n) = AsEntry(s, b[s][i])
  <2>1. CASE s = "Bid"
    <3>1. n = i /\ n <= CountOf(b, "Bid")
      BY <1>1, <2>1, BookFacts
    <3> QED  BY <2>1, <3>1 DEF NthEntry
  <2>2. CASE s = "Ask"
    <3>1. n - CountOf(b, "Bid") = i /\ ~(n <= CountOf(b, "Bid"))
      BY <1>1, <2>2, BookFacts
    <3> QED  BY <2>2, <3>1 DEF NthEntry
  <2> QED  BY <2>1, <2>2, BookFacts
<1> QED  BY <1>1, <1>2, <1>3 DEF Stands

LEMMA EntryType ==
    ASSUME NEW b \in Books, NEW n, NEW s, NEW i, Stands(b, n, s, i)
    PROVE  /\ b[s][i] \in Listed
           /\ NthEntry(b, n) \in Orders
           /\ NthEntry(b, n).id = b[s][i].id /\ NthEntry(b, n).side = s
           /\ NthEntry(b, n).price = b[s][i].price
           /\ b[s][i] = [id |-> NthEntry(b, n).id, price |-> NthEntry(b, n).price,
                         qty |-> NthEntry(b, n).qty, tif |-> NthEntry(b, n).tif]
           /\ b[s][i].price \in Int
<1>1. PICK r : r = b[s][i]
  OBVIOUS
<1>2. r \in Listed /\ r.price \in Int
        /\ r = [id |-> r.id, price |-> r.price, qty |-> r.qty, tif |-> r.tif]
  BY <1>1, BookFacts, ListedFacts DEF Stands
<1>3. NthEntry(b, n) = AsEntry(s, r) /\ s \in Sides
  BY <1>1 DEF Stands
<1>4. AsEntry(s, r) \in Orders
  BY <1>2, <1>3 DEF AsEntry, Orders, Listed
<1> QED  BY <1>1, <1>2, <1>3, <1>4 DEF AsEntry

LEMMA EntryFacts ==
    ASSUME NEW b \in Books, NEW n, NEW s, NEW i, Stands(b, n, s, i)
    PROVE  /\ NthEntry(b, n).id = b[s][i].id /\ NthEntry(b, n).side = s
           /\ s \in Sides /\ i \in 1 .. CountOf(b, s) /\ n \in 1 .. SizeOf(b)
           /\ n = IF s = "Bid" THEN i ELSE CountOf(b, "Bid") + i
           /\ NthEntry(b, n).price = b[s][i].price
<1>1. NthEntry(b, n) = AsEntry(s, b[s][i])
  BY DEF Stands
<1>2. NthEntry(b, n).id = b[s][i].id /\ NthEntry(b, n).side = s
        /\ NthEntry(b, n).price = b[s][i].price
  BY <1>1 DEF AsEntry
<1> QED  BY <1>2 DEF Stands

\* What is on the list after the first n entries.
ToDo(b, n, t) ==
    /\ t \in Seq(Orders) /\ Len(t) = SizeOf(b) - n
    /\ \A j \in 1 .. Len(t) : t[j] = NthEntry(b, n + j)

\* RestoredBook!Listing lists the resting orders in that order.
LEMMA ListingIs ==
    ASSUME Resting \in Books
    PROVE  ToDo(Resting, 0, Listing)
<1> DEFINE listed(s) == [i \in DOMAIN Resting[s] |-> AsEntry(s, Resting[s][i])]
<1>1. \A s \in Sides :
         /\ listed(s) \in Seq(Orders) /\ Len(listed(s)) = CountOf(Resting, s)
         /\ \A i \in 1 .. CountOf(Resting, s) : listed(s)[i] = AsEntry(s, Resting[s][i])
  <2> SUFFICES ASSUME NEW s \in Sides
               PROVE  /\ listed(s) \in Seq(Orders)
                      /\ Len(listed(s)) = CountOf(Resting, s)
                      /\ \A i \in 1 .. CountOf(Resting, s) :
                            listed(s)[i] = AsEntry(s, Resting[s][i])
    OBVIOUS
  <2>1. CountOf(Resting, s) \in Nat /\ DOMAIN Resting[s] = 1 .. CountOf(Resting, s)
          /\ Resting[s] \in Seq(Listed)
    BY BookFacts
  <2>2. \A i \in 1 .. CountOf(Resting, s) : AsEntry(s, Resting[s][i]) \in Orders
    <3> TAKE i \in 1 .. CountOf(Resting, s)
    <3>1. PICK n : Stands(Resting, n, s, i)
      BY OrderStands
    <3> QED  BY <3>1, EntryType DEF Stands
  <2> QED  BY <2>1, <2>2
<1>2. PICK x : x = listed("Bid")
  OBVIOUS
<1>3. PICK y : y = listed("Ask")
  OBVIOUS
<1>4. Listing = x \o y
  BY <1>2, <1>3 DEF Listing, AsEntry
<1>5. /\ x \in Seq(Orders) /\ Len(x) = CountOf(Resting, "Bid")
      /\ y \in Seq(Orders) /\ Len(y) = CountOf(Resting, "Ask")
      /\ \A i \in 1 .. CountOf(Resting, "Bid") : x[i] = AsEntry("Bid", Resting["Bid"][i])
      /\ \A i \in 1 .. CountOf(Resting, "Ask") : y[i] = AsEntry("Ask", Resting["Ask"][i])
  BY <1>1, <1>2, <1>3, BookFacts
<1> HIDE DEF listed
<1>6. /\ Listing \in Seq(Orders) /\ Len(Listing) = SizeOf(Resting)
      /\ \A j \in 1 .. Len(x) : Listing[j] = x[j]
      /\ \A j \in 1 .. Len(y) : Listing[Len(x) + j] = y[j]
  <2>1. /\ Listing \in Seq(Orders) /\ Len(Listing) = Len(x) + Len(y)
        /\ \A j \in 1 .. Len(x) : Listing[j] = x[j]
        /\ \A j \in 1 .. Len(y) : Listing[Len(x) + j] = y[j]
    <3>1. x \in Seq(Orders) /\ y \in Seq(Orders)
      BY <1>5
    <3>2. /\ x \o y \in Seq(Orders) /\ Len(x \o y) = Len(x) + Len(y)
          /\ \A j \in 1 .. Len(x) : (x \o y)[j] = x[j]
          /\ \A j \in 1 .. Len(y) : (x \o y)[Len(x) + j] = y[j]
      BY <3>1, ConcatFacts
    <3>3. PICK z : z = x \o y
      OBVIOUS
    <3>4. /\ z \in Seq(Orders) /\ Len(z) = Len(x) + Len(y)
          /\ \A j \in 1 .. Len(x) : z[j] = x[j]
          /\ \A j \in 1 .. Len(y) : z[Len(x) + j] = y[j]
      BY <3>2, <3>3, Zenon
    <3>5. Listing = z
      BY <1>4, <3>3
    <3> QED  BY <3>4, <3>5
  <2>2. Len(x) + Len(y) = SizeOf(Resting)
    BY <1>5, BookFacts
  <2> QED  BY <2>1, <2>2
<1>7. ASSUME NEW j \in 1 .. SizeOf(Resting)
      PROVE  Listing[j] = NthEntry(Resting, j)
  <2>1. PICK s, i : Stands(Resting, j, s, i)
    BY EntryStands
  <2>2. CASE s = "Bid"
    <3>1. j = i /\ i \in 1 .. CountOf(Resting, "Bid")
      BY <2>1, <2>2 DEF Stands
    <3> QED  BY <1>5, <1>6, <2>1, <2>2, <3>1 DEF Stands
  <2>3. CASE s = "Ask"
    <3>1. j = Len(x) + i /\ i \in 1 .. CountOf(Resting, "Ask")
      BY <1>5, <2>1, <2>3 DEF Stands
    <3> QED  BY <1>5, <1>6, <2>1, <2>3, <3>1 DEF Stands
  <2> QED  BY <2>1, <2>2, <2>3, BookFacts DEF Stands
<1>8. SizeOf(Resting) \in Nat
  BY BookFacts
<1> QED  BY <1>6, <1>7, <1>8 DEF ToDo

----------------------------------------------------------------------------
(* What a book at rest is, and restore() relies on.                        *)

Uncrossed(b) ==
    \A i \in DOMAIN b["Bid"], j \in DOMAIN b["Ask"] :
       b["Bid"][i].price < b["Ask"][j].price

UniqueIds(b) ==
    \A m, n \in 1 .. SizeOf(b) : NthEntry(b, m).id = NthEntry(b, n).id => m = n

Restorable(b) ==
    /\ b \in Books /\ \A s \in Sides : Sorted(s, b[s])
    /\ Uncrossed(b) /\ UniqueIds(b)
    /\ SizeOf(b) <= MaxOrders

LEMMA SideCount ==
    ASSUME NEW s, NEW L, NEW o, OnSide(s, L, o)
    PROVE  o = Resting[s] /\ CountOf(Resting, s) = Len(L) /\ Len(o) = Len(L)
<1>1. o = Resting[s]
  BY DEF OnSide
<1>2. Len(o) = Len(L)
  BY SideFacts
<1> QED  BY <1>1, <1>2 DEF CountOf

\* The n-th entry of the listing is the order at location l.
EntryAt(n, l) ==
    /\ l \in LiveLocs
    /\ NthEntry(Resting, n).id = slot[l].id
    /\ NthEntry(Resting, n).side = slot[l].side

LEMMA EntryHasPlace ==
    ASSUME BookInv, Lined, NEW n \in 1 .. SizeOf(Resting), Resting \in Books
    PROVE  \E l : EntryAt(n, l)
<1>1. PICK s, i : Stands(Resting, n, s, i)
  BY EntryStands
<1>2. PICK L, o : OnSide(s, L, o)
  BY <1>1, HasSide DEF BookInv, Stands
<1>3. o = Resting[s] /\ CountOf(Resting, s) = Len(L)
  BY <1>2, SideCount
<1>4. /\ NthEntry(Resting, n).id = Resting[s][i].id
      /\ NthEntry(Resting, n).side = s /\ i \in 1 .. CountOf(Resting, s)
  BY <1>1, EntryFacts
<1>5. L[i] \in Locs /\ slot[L[i]] # NIL /\ slot[L[i]].side = s
        /\ Resting[s][i].id = slot[L[i]].id
  BY <1>2, <1>3, <1>4, SideFacts
<1>6. EntryAt(n, L[i])
  BY <1>4, <1>5 DEF EntryAt, LiveLocs
<1> QED  BY <1>6

LEMMA PlaceHasEntry ==
    ASSUME BookInv, Lined, NEW l \in LiveLocs, Resting \in Books
    PROVE  \E n \in 1 .. SizeOf(Resting) : EntryAt(n, l)
<1>1. l \in Locs /\ slot[l] # NIL /\ slot[l].side \in Sides
  BY DEF LiveLocs, BookInv, StoreInv, StoreType, Orders
<1>2. PICK s : s = slot[l].side
  OBVIOUS
<1>3. PICK L, o : OnSide(s, L, o)
  BY <1>1, <1>2, HasSide DEF BookInv
<1>4. PICK i \in 1 .. Len(L) : L[i] = l
  BY <1>1, <1>2, <1>3, SideFacts
<1>5. o = Resting[s] /\ CountOf(Resting, s) = Len(L)
  BY <1>3, SideCount
<1>6. Len(o) = Len(L) /\ o[i].id = slot[l].id
  BY <1>3, <1>4, SideFacts
<1>7. PICK n : Stands(Resting, n, s, i)
  BY <1>1, <1>2, <1>4, <1>5, <1>6, OrderStands
<1>8. /\ NthEntry(Resting, n).id = Resting[s][i].id
      /\ NthEntry(Resting, n).side = s /\ n \in 1 .. SizeOf(Resting)
  BY <1>7, EntryFacts
<1>9. EntryAt(n, l)
  BY <1>2, <1>5, <1>6, <1>8 DEF EntryAt
<1> QED  BY <1>8, <1>9

\* Each live order is listed once.
LEMMA ListedOnce ==
    ASSUME BookInv, Lined, NEW l \in LiveLocs, Resting \in Books,
           NEW m \in 1 .. SizeOf(Resting), NEW n \in 1 .. SizeOf(Resting),
           EntryAt(m, l), EntryAt(n, l)
    PROVE  m = n
<1>1. PICK s, i : Stands(Resting, m, s, i)
  BY EntryStands
<1>2. PICK t, j : Stands(Resting, n, t, j)
  BY EntryStands
<1>3. /\ NthEntry(Resting, m).id = Resting[s][i].id
      /\ NthEntry(Resting, m).side = s
      /\ s \in Sides /\ i \in 1 .. CountOf(Resting, s)
      /\ m = IF s = "Bid" THEN i ELSE CountOf(Resting, "Bid") + i
  BY <1>1, EntryFacts
<1>4. /\ NthEntry(Resting, n).id = Resting[t][j].id
      /\ NthEntry(Resting, n).side = t
      /\ j \in 1 .. CountOf(Resting, t)
      /\ n = IF t = "Bid" THEN j ELSE CountOf(Resting, "Bid") + j
  BY <1>2, EntryFacts
<1>5. /\ t = s
      /\ Resting[s][i].id = slot[l].id /\ Resting[s][j].id = slot[l].id
  BY <1>3, <1>4 DEF EntryAt
<1>6. PICK L, o : OnSide(s, L, o)
  BY <1>3, HasSide DEF BookInv
<1>7. o = Resting[s] /\ CountOf(Resting, s) = Len(L)
  BY <1>6, SideCount
<1>8. i \in 1 .. Len(L) /\ j \in 1 .. Len(L)
  BY <1>3, <1>4, <1>5, <1>6, <1>7, SideFacts
<1>9. /\ L[i] \in Locs /\ L[j] \in Locs /\ slot[L[i]] # NIL /\ slot[L[j]] # NIL
      /\ slot[L[i]].id = slot[L[j]].id
  BY <1>5, <1>6, <1>7, <1>8, SideFacts
<1>10. L[i] = L[j]
  BY <1>9 DEF BookInv, MapInv, LiveAreMapped
<1>11. i = j
  BY <1>6, <1>8, <1>10, SideFacts
<1> QED  BY <1>3, <1>4, <1>5, <1>11

LEMMA SizeIsLive ==
    ASSUME BookInv, Lined, Resting \in Books
    PROVE  SizeOf(Resting) = live /\ UniqueIds(Resting)
<1>1. SizeOf(Resting) \in Nat
  BY BookFacts
<1>2. PICK f : f = [n \in 1 .. SizeOf(Resting) |-> CHOOSE l : EntryAt(n, l)]
  OBVIOUS
<1>3. \A n \in 1 .. SizeOf(Resting) : EntryAt(n, f[n])
  BY <1>2, EntryHasPlace
<1>4. \A k, l \in LiveLocs : slot[k].id = slot[l].id => k = l
  BY DEF LiveLocs, BookInv, MapInv, LiveAreMapped
<1>5. \A m, n \in 1 .. SizeOf(Resting) :
         NthEntry(Resting, m).id = NthEntry(Resting, n).id => m = n
  <2> SUFFICES ASSUME NEW m \in 1 .. SizeOf(Resting),
                      NEW n \in 1 .. SizeOf(Resting),
                      NthEntry(Resting, m).id = NthEntry(Resting, n).id
               PROVE  m = n
    OBVIOUS
  <2>1. f[m] \in LiveLocs /\ f[n] \in LiveLocs /\ slot[f[m]].id = slot[f[n]].id
    BY <1>3 DEF EntryAt
  <2>2. f[m] = f[n]
    BY <1>4, <2>1
  <2> QED  BY <1>3, <2>1, <2>2, ListedOnce
<1>6. \A m, n \in 1 .. SizeOf(Resting) : f[m] = f[n] => m = n
  BY <1>3, <1>5 DEF EntryAt
<1>7. {f[n] : n \in 1 .. SizeOf(Resting)} = LiveLocs
  <2>1. ASSUME NEW l \in LiveLocs
        PROVE  \E n \in 1 .. SizeOf(Resting) : f[n] = l
    <3>1. PICK n \in 1 .. SizeOf(Resting) : EntryAt(n, l)
      BY PlaceHasEntry
    <3>2. f[n] \in LiveLocs /\ slot[f[n]].id = slot[l].id
      BY <1>3, <3>1 DEF EntryAt
    <3> QED  BY <1>4, <3>2
  <2>2. \A n \in 1 .. SizeOf(Resting) : f[n] \in LiveLocs
    BY <1>3 DEF EntryAt
  <2> QED  BY <2>1, <2>2
<1>8. Cardinality(LiveLocs) = SizeOf(Resting)
  <2>1. PICK k \in Nat : k = SizeOf(Resting)
    BY <1>1
  <2>2. \A i, j \in 1 .. k : f[i] = f[j] => i = j
    BY <1>6, <2>1
  <2>3. Cardinality({f[i] : i \in 1 .. k}) = k
    BY <2>2, ImageCount
  <2> QED  BY <1>7, <2>1, <2>3
<1> QED  BY <1>5, <1>8 DEF UniqueIds, BookInv, StoreInv, LiveCounted

LEMMA RestingIsRestorable ==
    ASSUME BookInv, Lined
    PROVE  Restorable(Resting)
<1>1. PICK LL : LinesAre(LL)
  BY DEF Lined
<1>2. Resting \in Books /\ \A s \in Sides : Sorted(s, Resting[s])
  BY <1>1, RestingType DEF BookInv
<1>3. SizeOf(Resting) <= MaxOrders /\ UniqueIds(Resting)
  BY <1>2, SizeIsLive DEF BookInv, MapInv, RoomLeft
<1>4. Uncrossed(Resting)
  <2> SUFFICES ASSUME NEW i \in DOMAIN Resting["Bid"],
                      NEW j \in DOMAIN Resting["Ask"]
               PROVE  Resting["Bid"][i].price < Resting["Ask"][j].price
    BY DEF Uncrossed
  <2>1. \A s \in Sides : \A k \in DOMAIN Resting[s] : Resting[s][k].price \in index[s]
    <3> TAKE s \in Sides
    <3> TAKE k \in DOMAIN Resting[s]
    <3>1. PICK L, o : OnSide(s, L, o)
      BY HasSide DEF BookInv
    <3>2. o = Resting[s] /\ k \in 1 .. Len(L)
      BY <1>2, <3>1, SideCount, BookFacts
    <3>3. PICK l : l = L[k]
      OBVIOUS
    <3>4. l \in Locs /\ slot[l] # NIL /\ slot[l] \in Orders /\ slot[l].side = s
            /\ Resting[s][k].price = slot[l].price
      BY <3>1, <3>2, <3>3, SideFacts
    <3>5. slot[l].price \in Prices /\ queue[s][slot[l].price] # <<>>
      BY <3>4 DEF Orders, BookInv, StoreInv, LiveAreQueued
    <3> QED  BY <3>4, <3>5 DEF BookInv, StoreInv, IndexExact
  <2> QED  BY <2>1, <1>2, BookFacts DEF BookInv, NotCrossed
<1> QED  BY <1>2, <1>3, <1>4 DEF Restorable

----------------------------------------------------------------------------
(* After n turns of the loop.                                              *)

\* How many orders of side s are among the first n of the listing.
RestedOf(b, s, n) ==
    IF s = "Bid" THEN IF n <= CountOf(b, "Bid") THEN n ELSE CountOf(b, "Bid")
    ELSE IF n <= CountOf(b, "Bid") THEN 0 ELSE n - CountOf(b, "Bid")

LEMMA RestedRange ==
    ASSUME NEW b \in Books, NEW n \in 0 .. SizeOf(b), NEW s \in Sides
    PROVE  /\ RestedOf(b, s, n) \in 0 .. CountOf(b, s)
           /\ n = 0 => RestedOf(b, s, n) = 0
           /\ n = SizeOf(b) => RestedOf(b, s, n) = CountOf(b, s)
<1>1. CASE s = "Bid"
  BY <1>1, BookFacts DEF RestedOf
<1>2. CASE s = "Ask"
  BY <1>2, BookFacts DEF RestedOf
<1> QED  BY <1>1, <1>2, BookFacts

\* Entry m, the i-th order of side s, comes after the first n.
ComesNext(b, n, m, s, i) ==
    b \in Books /\ n \in 0 .. SizeOf(b) /\ m = n + 1 /\ Stands(b, m, s, i)

LEMMA RestedNext ==
    ASSUME NEW b, NEW n, NEW m, NEW s, NEW i, ComesNext(b, n, m, s, i)
    PROVE  /\ RestedOf(b, s, n) = i - 1 /\ RestedOf(b, s, m) = i
           /\ \A t \in Sides : t # s => RestedOf(b, t, m) = RestedOf(b, t, n)
<1>1. /\ s \in Sides /\ i \in 1 .. CountOf(b, s)
      /\ m = IF s = "Bid" THEN i ELSE CountOf(b, "Bid") + i
      /\ b \in Books /\ n \in 0 .. SizeOf(b) /\ m = n + 1
  BY DEF ComesNext, Stands
<1>2. CASE s = "Bid"
  <2>1. m = i /\ m <= CountOf(b, "Bid") /\ n <= CountOf(b, "Bid")
    BY <1>1, <1>2, BookFacts
  <2>2. \A t \in Sides : t # s => t # "Bid"
    BY <1>2
  <2> QED  BY <1>1, <1>2, <2>1, <2>2 DEF RestedOf
<1>3. CASE s = "Ask"
  <2>1. /\ m = CountOf(b, "Bid") + i /\ i \in Nat \ {0}
        /\ CountOf(b, "Bid") \in Nat /\ ~(m <= CountOf(b, "Bid"))
        /\ n <= CountOf(b, "Bid") => n = CountOf(b, "Bid") /\ i = 1
    BY <1>1, <1>3, BookFacts
  <2>2. \A t \in Sides : t # s => t = "Bid"
    BY <1>1, <1>3, BookFacts
  <2> QED  BY <1>1, <1>3, <2>1, <2>2 DEF RestedOf
<1> QED  BY <1>1, <1>2, <1>3, BookFacts

LEMMA RestedStands ==
    ASSUME NEW b \in Books, NEW n \in 0 .. SizeOf(b), NEW m, NEW s, NEW i,
           Stands(b, m, s, i), i <= RestedOf(b, s, n)
    PROVE  m <= n
<1>1. /\ s \in Sides /\ i \in 1 .. CountOf(b, s)
      /\ m = IF s = "Bid" THEN i ELSE CountOf(b, "Bid") + i
  BY DEF Stands
<1>2. CASE s = "Bid"
  BY <1>1, <1>2, BookFacts DEF RestedOf
<1>3. CASE s = "Ask"
  BY <1>1, <1>3, BookFacts DEF RestedOf
<1> QED  BY <1>1, <1>2, <1>3, BookFacts

\* p is the first k orders of o.
FirstOf(p, o, k) ==
    p \in Seq(Listed) /\ Len(p) = k /\ \A i \in 1 .. k : p[i] = o[i]

HalfRestored(b, n) ==
    /\ n \in 0 .. SizeOf(b) /\ live = n
    /\ ToDo(b, n, todo)
    /\ \A s \in Sides : FirstOf(Resting[s], b[s], RestedOf(b, s, n))

\* A restore that is under way, of book b.
RestoringFrom(b) ==
    /\ BookInv /\ TotalsExact /\ Lined /\ taker = NIL
    /\ Restorable(b) /\ Resting \in Books
    /\ \E n : HalfRestored(b, n)

\* An order at rest is one of those restored so far.
RestsAlready(b, n, s, i, r) ==
    /\ i \in 1 .. CountOf(b, s) /\ i <= RestedOf(b, s, n)
    /\ b[s][i] = r

LEMMA RestingIsOld ==
    ASSUME NEW b, RestoringFrom(b), NEW n, HalfRestored(b, n), NEW s \in Sides,
           NEW j \in DOMAIN Resting[s]
    PROVE  RestsAlready(b, n, s, j, Resting[s][j])
<1>1. b \in Books /\ n \in 0 .. SizeOf(b)
  BY DEF RestoringFrom, Restorable, HalfRestored
<1>2. RestedOf(b, s, n) \in 0 .. CountOf(b, s)
        /\ CountOf(b, s) \in Nat
  BY <1>1, RestedRange, BookFacts
<1>3. /\ Resting[s] \in Seq(Listed) /\ Len(Resting[s]) = RestedOf(b, s, n)
      /\ \A i \in 1 .. RestedOf(b, s, n) : Resting[s][i] = b[s][i]
  BY DEF HalfRestored, FirstOf
<1>4. j \in 1 .. RestedOf(b, s, n)
  BY <1>3
<1> QED  BY <1>2, <1>3, <1>4 DEF RestsAlready

\* What is still to be restored has an id of its own and is out of reach of
\* what rests on the opposite side.
FreeToRest(e) ==
    /\ map[e.id] = NIL
    /\ \A bp \in index[Opposite(e.side)] : ~Within(e.side, e.price, bp)

LEMMA RestOfListIsFree ==
    ASSUME NEW b, RestoringFrom(b), NEW n, HalfRestored(b, n), NEW m \in 1 .. SizeOf(b),
           n < m, NEW e, e = NthEntry(b, m)
    PROVE  FreeToRest(e)
<1>1. /\ b \in Books /\ n \in 0 .. SizeOf(b)
      /\ BookInv /\ Lined /\ taker = NIL /\ Resting \in Books
      /\ Uncrossed(b) /\ UniqueIds(b) /\ StoreInv
  BY DEF RestoringFrom, Restorable, HalfRestored, BookInv
<1>2. PICK s, i : Stands(b, m, s, i)
  BY <1>1, EntryStands
<1>3. /\ e.id = b[s][i].id /\ e.side = s /\ e.price = b[s][i].price
      /\ s \in Sides /\ i \in 1 .. CountOf(b, s)
  BY <1>1, <1>2, EntryFacts
<1>4. e.id \in Ids /\ e.price \in Int
  <2>1. NthEntry(b, m) \in Orders /\ b[s][i].price \in Int
    BY <1>1, <1>2, EntryType
  <2>2. e \in Orders
    BY <2>1
  <2> QED  BY <1>3, <2>1, <2>2 DEF Orders
<1>5. map[e.id] = NIL
  <2> SUFFICES ASSUME map[e.id] # NIL PROVE FALSE
    OBVIOUS
  <2>1. PICK l : l = map[e.id]
    OBVIOUS
  <2>2. l \in LiveLocs /\ slot[l].id = e.id
    BY <1>1, <1>4, <2>1, EntryIsLive DEF BookInv, LiveLocs
  <2>3. PICK k \in 1 .. SizeOf(Resting) : EntryAt(k, l)
    BY <1>1, <2>2, PlaceHasEntry
  <2>4. PICK t, j : Stands(Resting, k, t, j)
    BY <1>1, EntryStands
  <2>5. /\ NthEntry(Resting, k).id = Resting[t][j].id
        /\ t \in Sides /\ j \in 1 .. CountOf(Resting, t)
    BY <1>1, <2>4, EntryFacts
  <2>6. Resting[t][j].id = e.id /\ j \in DOMAIN Resting[t]
    BY <1>1, <2>2, <2>3, <2>5, BookFacts DEF EntryAt
  <2>7. /\ j \in 1 .. CountOf(b, t) /\ j <= RestedOf(b, t, n)
        /\ b[t][j] = Resting[t][j]
    BY <2>5, <2>6, RestingIsOld DEF RestsAlready
  <2>8. PICK q : Stands(b, q, t, j)
    BY <1>1, <2>5, <2>7, OrderStands
  <2>9. q <= n
    BY <1>1, <2>7, <2>8, RestedStands
  <2>10. NthEntry(b, q).id = e.id /\ q \in 1 .. SizeOf(b)
    BY <1>1, <2>6, <2>7, <2>8, EntryFacts
  <2>11. q = m
    BY <1>1, <2>10 DEF UniqueIds
  <2> QED  BY <1>1, <2>9, <2>11, BookFacts
<1>6. ASSUME NEW bp \in index[Opposite(e.side)], Within(e.side, e.price, bp)
      PROVE  FALSE
  <2>1. PICK t \in Sides : t = Opposite(s)
    BY <1>3, OtherSide
  <2>2. PICK l : l = Head(queue[t][bp])
    OBVIOUS
  <2>3. l \in Locs /\ slot[l] \in Orders /\ slot[l].side = t /\ slot[l].price = bp
    BY <1>1, <1>3, <1>6, <2>1, <2>2, HeadIsLive
  <2>4. slot[l] # NIL
    BY <2>3, NilIsNoRecord
  <2>5. PICK L, o : OnSide(t, L, o)
    BY <1>1, HasSide
  <2>6. o = Resting[t] /\ CountOf(Resting, t) = Len(L)
    BY <2>5, SideCount
  <2>7. PICK j \in 1 .. Len(L) : L[j] = l
    BY <2>3, <2>4, <2>5, SideFacts
  <2>8. o[j].price = bp
    BY <2>3, <2>5, <2>7, SideFacts
  <2>9. j \in DOMAIN Resting[t]
    BY <1>1, <2>6, <2>7, BookFacts
  <2>10. j \in 1 .. CountOf(b, t) /\ b[t][j].price = bp
    BY <2>6, <2>8, <2>9, RestingIsOld DEF RestsAlready
  <2>11. i \in DOMAIN b[s] /\ j \in DOMAIN b[t]
    BY <1>1, <1>3, <2>10, BookFacts
  <2>12. bp \in Int
    BY <2>3, PricesAreTicks DEF Orders, Prices
  <2>13. e.price # NIL
    BY <1>4, NilIsNoValue
  <2>14. CASE s = "Bid"
    <3>1. e.price < bp
      BY <1>1, <1>3, <2>1, <2>10, <2>11, <2>14 DEF Uncrossed, Opposite
    <3>2. bp <= e.price
      BY <1>3, <1>6, <2>13, <2>14 DEF Within
    <3> QED  BY <1>4, <2>12, <3>1, <3>2
  <2>15. CASE s = "Ask"
    <3>1. bp < e.price
      BY <1>1, <1>3, <2>1, <2>10, <2>11, <2>15 DEF Uncrossed, Opposite
    <3>2. bp >= e.price
      BY <1>3, <1>6, <2>13, <2>15 DEF Within
    <3> QED  BY <1>4, <2>12, <3>1, <3>2
  <2> QED  BY <1>3, <2>14, <2>15 DEF Sides
<1> QED  BY <1>5, <1>6 DEF FreeToRest

----------------------------------------------------------------------------
(* One turn of the loop.                                                   *)

LEMMA JoinsLast ==
    ASSUME NEW s \in Sides, NEW o \in Seq(Listed), Sorted(s, o),
           NEW i \in 1 .. Len(o), NEW own, FirstOf(own, o, i - 1),
           NEW a, a = o[i]
    PROVE  FirstOf(Atomic!Joined(s, own, a), o, i)
<1>1. /\ own \in Seq(Listed) /\ Len(own) = i - 1 /\ DOMAIN own = 1 .. (i - 1)
      /\ \A j \in 1 .. (i - 1) : own[j] = o[j]
  BY DEF FirstOf
<1>2. /\ Len(o) \in Nat /\ DOMAIN o = 1 .. Len(o)
      /\ a \in Listed /\ a.price \in Int
  BY ListedFacts
<1>3. \A j, k \in 1 .. Len(o) :
         j <= k => Atomic!AtLeastAsGood(s, o[j].price, o[k].price)
  BY <1>2 DEF Sorted
<1>4. Sorted(s, own)
  <2> SUFFICES ASSUME NEW j \in 1 .. (i - 1), NEW k \in 1 .. (i - 1), j <= k
               PROVE  Atomic!AtLeastAsGood(s, own[j].price, own[k].price)
    BY <1>1 DEF Sorted
  <2>1. j \in 1 .. Len(o) /\ k \in 1 .. Len(o)
    BY <1>2
  <2>2. own[j] = o[j] /\ own[k] = o[k]
    BY <1>1
  <2> QED  BY <1>3, <2>1, <2>2
<1>5. PICK c \in 0 .. Len(own) :
         /\ \A j \in 1 .. Len(own) :
               j <= c <=> Atomic!AtLeastAsGood(s, own[j].price, a.price)
         /\ Atomic!Joined(s, own, a) = Atomic!InsertAt(own, c + 1, a)
  BY <1>1, <1>2, <1>4, JoinedIs
<1>6. c = i - 1
  <2>1. CASE i = 1
    BY <1>1, <1>5, <2>1
  <2>2. CASE i > 1
    <3>1. PICK j : j = i - 1
      OBVIOUS
    <3>2. j \in 1 .. Len(own) /\ j \in 1 .. Len(o) /\ j <= i /\ i \in 1 .. Len(o)
      BY <1>1, <1>2, <2>2, <3>1
    <3>3. own[j] = o[j]
      BY <1>1, <3>2
    <3>4. Atomic!AtLeastAsGood(s, own[j].price, a.price)
      BY <1>3, <3>2, <3>3
    <3>5. j <= c
      BY <1>5, <3>2, <3>4
    <3> QED  BY <1>1, <1>5, <3>1, <3>5
  <2> QED  BY <1>2, <2>1, <2>2
<1>7. PICK M : M = Atomic!InsertAt(own, c + 1, a)
  OBVIOUS
<1>8. M \in Seq(Listed) /\ Inserted(own, M, c, a)
  BY <1>1, <1>2, <1>5, <1>7, InsertAtAdds
<1>9. /\ Len(M) = i
      /\ \A j \in 1 .. i : M[j] = IF j <= i - 1 THEN own[j] ELSE a
  BY <1>1, <1>2, <1>6, <1>8 DEF Inserted
<1>10. \A j \in 1 .. i : M[j] = o[j]
  <2> TAKE j \in 1 .. i
  <2>1. CASE j <= i - 1
    BY <1>1, <1>9, <2>1
  <2>2. CASE j = i
    BY <1>2, <1>9, <2>2
  <2> QED  BY <1>2, <2>1, <2>2
<1> QED  BY <1>5, <1>7, <1>8, <1>9, <1>10 DEF FirstOf

\* The order e is the next of the listing and comes to rest at l.
TurnRests(b, n, e, l) ==
    /\ HalfRestored(b, n) /\ n + 1 \in 1 .. SizeOf(b) /\ n \in Nat
    /\ e = NthEntry(b, n + 1) /\ e \in Orders
    /\ l \in Locs /\ Rest(l, e) /\ todo' = Tail(todo) /\ todo # <<>>
    /\ e = Head(todo)

LEMMA TurnIs ==
    ASSUME NEW b, RestoringFrom(b), RestoreOne
    PROVE  \E n, e, l : TurnRests(b, n, e, l)
<1>1. PICK n : HalfRestored(b, n)
  BY DEF RestoringFrom
<1>2. /\ b \in Books /\ n \in 0 .. SizeOf(b) /\ live = n
      /\ todo \in Seq(Orders) /\ Len(todo) = SizeOf(b) - n
      /\ \A j \in 1 .. Len(todo) : todo[j] = NthEntry(b, n + j)
      /\ SizeOf(b) <= MaxOrders
  BY <1>1 DEF RestoringFrom, Restorable, HalfRestored, ToDo
<1>3. todo # <<>>
  BY DEF RestoreOne
<1>4. SizeOf(b) \in Nat
  BY <1>2, BookFacts
<1>5. 1 \in 1 .. Len(todo) /\ n + 1 \in 1 .. SizeOf(b) /\ n \in Nat
        /\ n < SizeOf(b)
  BY <1>2, <1>3, <1>4
<1>6. PICK e : e = Head(todo)
  OBVIOUS
<1>7. e = NthEntry(b, n + 1) /\ e \in Orders
  BY <1>2, <1>3, <1>5, <1>6
<1>8. ~(live >= MaxOrders)
  BY <1>2, <1>4, <1>5, StoreIsBigEnough
<1>9. PICK l \in FreeLocs : Rest(l, e)
  BY <1>6, <1>8 DEF RestoreOne
<1>10. todo' = Tail(todo)
  BY <1>8 DEF RestoreOne
<1>11. l \in Locs
  BY DEF FreeLocs
<1>12. TurnRests(b, n, e, l)
  BY <1>1, <1>3, <1>5, <1>6, <1>7, <1>9, <1>10, <1>11 DEF TurnRests
<1> QED  BY <1>12

LEMMA TurnKeepsBook ==
    ASSUME NEW b, RestoringFrom(b), UNCHANGED <<taker, evs, seq>>,
           NEW n, NEW e, NEW l, TurnRests(b, n, e, l)
    PROVE  BookInv' /\ TotalsExact' /\ live' = n + 1
<1>1. /\ BookInv /\ StoreInv /\ TotalsExact /\ taker = NIL /\ live = n
      /\ e \in Orders /\ l \in Locs /\ Rest(l, e) /\ n \in Nat
      /\ n + 1 \in 1 .. SizeOf(b) /\ e = NthEntry(b, n + 1)
  BY DEF RestoringFrom, TurnRests, HalfRestored, BookInv
<1>2. b \in Books /\ SizeOf(b) <= MaxOrders /\ HalfRestored(b, n)
  BY DEF RestoringFrom, Restorable, TurnRests
<1>3. FreeToRest(e)
  <2>1. n < n + 1
    BY <1>1
  <2> QED  BY <1>1, <1>2, <2>1, RestOfListIsFree
<1>4. live < MaxOrders
  BY <1>1, <1>2, BookFacts, StoreIsBigEnough
<1>5. map[e.id] = NIL
        /\ \A bp \in index[Opposite(e.side)] : ~Within(e.side, e.price, bp)
  BY <1>3 DEF FreeToRest
<1>6. \A k \in Locs : slot[k] # NIL => slot[k].id # e.id
  BY <1>1, <1>5, StoreIsBigEnough DEF BookInv, MapInv, LiveAreMapped
<1>7. \A x \in Ids : map[x] # NIL /\ x # e.id
         => slot[map[x]] # NIL /\ slot[map[x]].id = x
  BY <1>1 DEF BookInv, MapInv, MappedAreLive, Replacing
<1>8. taker' = NIL /\ OutInv'
  BY <1>1 DEF BookInv, OutInv
<1>9. BookInv'
  BY <1>1, <1>4, <1>5, <1>6, <1>7, <1>8, JoinKeeps
<1>10. StoreInv'
  BY <1>9 DEF BookInv
<1>11. /\ live' = live + 1
       /\ \A k \in Locs : slot'[k] = IF k = l THEN e ELSE slot[k]
  BY <1>1, RestStore
<1>12. TotalsExact'
  BY <1>1, <1>10, <1>11, RestTotals
<1> QED  BY <1>1, <1>9, <1>11, <1>12

LEMMA TurnGoesOn ==
    ASSUME NEW b, RestoringFrom(b), BookInv', live' = live + 1,
           NEW n, NEW e, NEW l, TurnRests(b, n, e, l)
    PROVE  Lined' /\ HalfRestored(b, n + 1)' /\ Resting' \in Books
<1>1. /\ StoreInv /\ StoreInv' /\ Lined /\ Resting \in Books
      /\ b \in Books /\ \A s \in Sides : Sorted(s, b[s])
  BY DEF RestoringFrom, Restorable, BookInv
<1>2. /\ HalfRestored(b, n) /\ n + 1 \in 1 .. SizeOf(b) /\ n \in Nat
      /\ e = NthEntry(b, n + 1) /\ e \in Orders
      /\ l \in Locs /\ Rest(l, e) /\ todo' = Tail(todo) /\ todo # <<>>
  BY DEF TurnRests
<1>3. /\ n \in 0 .. SizeOf(b) /\ live = n
      /\ todo \in Seq(Orders) /\ Len(todo) = SizeOf(b) - n
      /\ \A j \in 1 .. Len(todo) : todo[j] = NthEntry(b, n + j)
      /\ \A s \in Sides : FirstOf(Resting[s], b[s], RestedOf(b, s, n))
  BY <1>2 DEF HalfRestored, ToDo
<1>4. PICK s, i : Stands(b, n + 1, s, i)
  BY <1>1, <1>2, EntryStands
<1>5. s \in Sides /\ i \in 1 .. CountOf(b, s) /\ e.side = s
  BY <1>1, <1>2, <1>4, EntryFacts
<1>6. PICK a : a = b[s][i]
  OBVIOUS
<1>7. a = [id |-> e.id, price |-> e.price, qty |-> e.qty, tif |-> e.tif]
        /\ a \in Listed
  BY <1>1, <1>2, <1>4, <1>6, EntryType
<1>8. Lined' /\ Resting' = [Resting EXCEPT ![s] = Atomic!Joined(s, @, a)]
  BY <1>1, <1>2, <1>5, <1>7, RestBook
<1>9. /\ RestedOf(b, s, n) = i - 1 /\ RestedOf(b, s, n + 1) = i
      /\ \A t \in Sides : t # s => RestedOf(b, t, n + 1) = RestedOf(b, t, n)
  <2>1. PICK m : m = n + 1
    OBVIOUS
  <2>2. ComesNext(b, n, m, s, i)
    BY <1>1, <1>3, <1>4, <2>1 DEF ComesNext
  <2>3. /\ RestedOf(b, s, n) = i - 1 /\ RestedOf(b, s, m) = i
        /\ \A t \in Sides : t # s => RestedOf(b, t, m) = RestedOf(b, t, n)
    BY <2>2, RestedNext
  <2> QED  BY <2>1, <2>3
<1>10. PICK p : p = Atomic!Joined(s, Resting[s], a)
  OBVIOUS
<1>11. FirstOf(p, b[s], i)
  <2>1. b[s] \in Seq(Listed) /\ i \in 1 .. Len(b[s])
    BY <1>1, <1>5, BookFacts
  <2>2. FirstOf(Resting[s], b[s], i - 1)
    BY <1>3, <1>5, <1>9
  <2> QED  BY <1>1, <1>5, <1>6, <1>10, <2>1, <2>2, JoinsLast
<1>12. Resting' = [Resting EXCEPT ![s] = p]
  BY <1>8, <1>10
<1>13. Resting \in [Sides -> Seq(Listed)] /\ p \in Seq(Listed)
  BY <1>1, <1>11 DEF Books, FirstOf
<1>14. Resting' \in [Sides -> Seq(Listed)]
         /\ \A t \in Sides : Resting'[t] = IF t = s THEN p ELSE Resting[t]
  BY <1>5, <1>12, <1>13
<1>15. \A t \in Sides :
          FirstOf(Resting'[t], b[t], RestedOf(b, t, n + 1))
  <2> TAKE t \in Sides
  <2>1. CASE t = s
    <3>1. Resting'[t] = p
      BY <1>14, <2>1
    <3> QED  BY <1>9, <1>11, <2>1, <3>1
  <2>2. CASE t # s
    <3>1. Resting'[t] = Resting[t]
      BY <1>14, <2>2
    <3> QED  BY <1>3, <1>9, <2>2, <3>1
  <2> QED  BY <2>1, <2>2
<1>16. ToDo(b, n + 1, todo')
  <2>1. SizeOf(b) \in Nat
    BY <1>1, BookFacts
  <2>2. /\ todo' \in Seq(Orders) /\ Len(todo') = Len(todo) - 1
        /\ Len(todo) \in Nat \ {0}
        /\ \A j \in 1 .. (Len(todo) - 1) : todo'[j] = todo[j + 1]
    BY <1>2, <1>3, TailFacts
  <2>3. ASSUME NEW j \in 1 .. Len(todo')
        PROVE  todo'[j] = NthEntry(b, (n + 1) + j)
    <3>1. j + 1 \in 1 .. Len(todo) /\ j \in 1 .. (Len(todo) - 1)
            /\ n + (j + 1) = (n + 1) + j
      BY <1>2, <2>2
    <3> QED  BY <1>3, <2>2, <3>1
  <2>4. Len(todo') = SizeOf(b) - (n + 1)
    BY <1>2, <1>3, <2>1, <2>2
  <2> QED  BY <2>2, <2>3, <2>4 DEF ToDo
<1>17. HalfRestored(b, n + 1)'
  <2>1. live' = n + 1 /\ n + 1 \in 0 .. SizeOf(b)
    BY <1>1, <1>2, <1>3, BookFacts
  <2> QED  BY <1>1, <1>15, <1>16, <2>1 DEF HalfRestored
<1> QED  BY <1>8, <1>14, <1>17 DEF Books

LEMMA RestoreOneKeeps ==
    ASSUME NEW b, RestoringFrom(b), RestoreOne
    PROVE  RestoringFrom(b)'
<1>1. PICK n, e, l : TurnRests(b, n, e, l)
  BY TurnIs
<1>2. UNCHANGED <<taker, evs, seq>>
  BY DEF RestoreOne
<1>3. BookInv' /\ TotalsExact' /\ live' = live + 1
  BY <1>1, <1>2, TurnKeepsBook DEF TurnRests, HalfRestored
<1>4. Lined' /\ HalfRestored(b, n + 1)' /\ Resting' \in Books
  BY <1>1, <1>2, <1>3, TurnGoesOn
<1>5. (\E k : HalfRestored(b, k))'
  BY <1>4
<1>6. taker' = NIL /\ Restorable(b)
  BY <1>2 DEF RestoringFrom
<1> QED  BY <1>3, <1>4, <1>5, <1>6 DEF RestoringFrom

----------------------------------------------------------------------------
(* The book is listed and lost.                                            *)

\* A book as it should be.
Whole == BookInv /\ TotalsExact /\ Lined

NoBook == Whole /\ Resting = [s \in Sides |-> <<>>]

LEMMA EmptyIsBook == EmptyBook /\ taker = NIL /\ OutInv => NoBook
<1> SUFFICES ASSUME EmptyBook, taker = NIL, OutInv
             PROVE  NoBook
  OBVIOUS
<1>1. BookInv
  BY EmptyHolds
<1> QED  BY <1>1, EmptyTotals, EmptyLines DEF NoBook, Whole

LEMMA EmptyIsBookAfter == (EmptyBook /\ taker = NIL /\ OutInv => NoBook)'
BY EmptyIsBook, PTL

LEMMA SaveKeeps ==
    ASSUME Whole, SaveAndRestart, NEW b, b = Resting
    PROVE  RestoringFrom(b)'
<1>1. BookInv /\ Lined /\ taker = NIL
  BY DEF Whole, SaveAndRestart
<1>2. /\ UNCHANGED <<taker, evs, seq>> /\ todo' = Listing /\ EmptyBook'
  BY DEF SaveAndRestart, EmptyBook
<1>3. taker' = NIL
  BY <1>1, <1>2
<1>4. OutInv'
  BY <1>1, <1>2 DEF BookInv, OutInv
<1>5. NoBook'
  BY <1>2, <1>3, <1>4, EmptyIsBookAfter
<1>6. Restorable(b)
  BY <1>1, RestingIsRestorable
<1>7. b \in Books /\ SizeOf(b) \in Nat
  BY <1>6, BookFacts DEF Restorable
<1>8. \A s \in Sides : FirstOf(Resting'[s], b[s], RestedOf(b, s, 0))
  <2> TAKE s \in Sides
  <2>1. Resting'[s] = <<>>
    BY <1>5 DEF NoBook
  <2>2. RestedOf(b, s, 0) = 0
    BY <1>7, RestedRange
  <2>3. <<>> \in Seq(Listed) /\ Len(<<>>) = 0
    OBVIOUS
  <2> QED  BY <2>1, <2>2, <2>3 DEF FirstOf
<1>9. ToDo(b, 0, todo')
  BY <1>2, <1>7, ListingIs
<1>10. live' = 0
  BY <1>2 DEF EmptyBook
<1>11. HalfRestored(b, 0)'
  BY <1>7, <1>8, <1>9, <1>10 DEF HalfRestored
<1>12. (\E n : HalfRestored(b, n))'
  BY <1>11
<1>13. Resting' \in Books
  <2>1. <<>> \in Seq(Listed)
    OBVIOUS
  <2> QED  BY <1>5, <2>1 DEF NoBook, Books
<1> QED  BY <1>3, <1>5, <1>6, <1>12, <1>13 DEF RestoringFrom, NoBook, Whole

----------------------------------------------------------------------------
(* The list is done.                                                       *)

LEMMA RestoredIs ==
    \A b : RestoringFrom(b) /\ todo = <<>> => Whole /\ taker = NIL /\ Resting = b
<1> SUFFICES ASSUME NEW b, RestoringFrom(b), todo = <<>>
             PROVE  Whole /\ taker = NIL /\ Resting = b
  OBVIOUS
<1>1. PICK n : HalfRestored(b, n)
  BY DEF RestoringFrom
<1>2. Whole /\ taker = NIL /\ b \in Books /\ Resting \in Books
  BY DEF RestoringFrom, Restorable, Whole
<1>3. n = SizeOf(b) /\ n \in 0 .. SizeOf(b)
  <2>1. Len(todo) = SizeOf(b) - n /\ n \in 0 .. SizeOf(b)
    BY <1>1 DEF HalfRestored, ToDo
  <2>2. Len(todo) = 0
    OBVIOUS
  <2> QED  BY <1>2, <2>1, <2>2, BookFacts
<1>4. \A s \in Sides : Resting[s] = b[s]
  <2> TAKE s \in Sides
  <2>1. RestedOf(b, s, n) = CountOf(b, s)
    BY <1>2, <1>3, RestedRange
  <2>2. FirstOf(Resting[s], b[s], CountOf(b, s))
    BY <1>1, <2>1 DEF HalfRestored
  <2>3. PICK p : p = Resting[s]
    OBVIOUS
  <2>4. PICK q : q = b[s]
    OBVIOUS
  <2>5. /\ p \in Seq(Listed) /\ q \in Seq(Listed) /\ Len(p) = Len(q)
        /\ \A i \in 1 .. Len(q) : p[i] = q[i]
    BY <1>2, <2>2, <2>3, <2>4, BookFacts DEF FirstOf
  <2>6. p = q
    BY <2>5
  <2> QED  BY <2>3, <2>4, <2>6
<1>5. Resting = b
  BY <1>2, <1>4 DEF Books
<1> QED  BY <1>2, <1>5

LEMMA RestoredIsAfter ==
    (\A b : RestoringFrom(b) /\ todo = <<>> => Whole /\ taker = NIL /\ Resting = b)'
BY RestoredIs, PTL

----------------------------------------------------------------------------
(* Nothing happens.                                                        *)

LEMMA WholeUnchanged ==
    ASSUME Whole, UNCHANGED vars
    PROVE  Whole' /\ Resting' = Resting
<1>1. [Next]_vars /\ BookInv /\ TotalsExact /\ Lined
  BY DEF Whole
<1>2. BookInv' /\ TotalsExact'
  BY <1>1, NextKeeps, NextTotals
<1>3. UNCHANGED <<queue, slot>>
  BY DEF vars
<1>4. StoreInv /\ StoreInv'
  BY <1>1, <1>2 DEF BookInv
<1>5. Lined' /\ Resting' = Resting
  BY <1>1, <1>3, <1>4, SameBook
<1> QED  BY <1>2, <1>5 DEF Whole

LEMMA RestoringUnchanged ==
    ASSUME NEW b, RestoringFrom(b), UNCHANGED vars, todo' = todo
    PROVE  RestoringFrom(b)'
<1>1. Whole /\ taker = NIL /\ Restorable(b) /\ Resting \in Books
  BY DEF RestoringFrom, Whole
<1>2. Whole' /\ Resting' = Resting
  BY <1>1, WholeUnchanged
<1>3. PICK n : HalfRestored(b, n)
  BY DEF RestoringFrom
<1>4. live' = live /\ taker' = taker
  BY DEF vars
<1>5. HalfRestored(b, n)'
  BY <1>2, <1>3, <1>4 DEF HalfRestored, ToDo
<1>6. (\E k : HalfRestored(b, k))'
  BY <1>5
<1> QED  BY <1>1, <1>2, <1>4, <1>6 DEF RestoringFrom, Whole

----------------------------------------------------------------------------
(* The book between and during restores.                                   *)

WholeInv == IF todo = <<>> THEN Whole ELSE \E b : RestoringFrom(b)

LEMMA WholeStepKeeps ==
    ASSUME WholeInv, RestoredNext
    PROVE  WholeInv'
<1>1. CASE todo = <<>> /\ JointNext /\ UNCHANGED todo
  <2>1. BookInv /\ TotalsExact /\ Lined /\ Next
    BY <1>1, JointIsNext DEF WholeInv, Whole
  <2>2. BookInv' /\ TotalsExact' /\ Lined'
    BY <2>1, NextKeeps, NextTotals, NextLined
  <2> QED  BY <1>1, <2>2 DEF WholeInv, Whole
<1>2. CASE SaveAndRestart
  <2>1. Whole
    BY <1>2 DEF WholeInv, SaveAndRestart
  <2>2. PICK b : b = Resting
    OBVIOUS
  <2>3. RestoringFrom(b)'
    BY <1>2, <2>1, <2>2, SaveKeeps
  <2> QED  BY <2>3, RestoredIsAfter DEF WholeInv
<1>3. CASE RestoreOne
  <2>1. PICK b : RestoringFrom(b)
    BY <1>3 DEF WholeInv, RestoreOne
  <2>2. RestoringFrom(b)'
    BY <1>3, <2>1, RestoreOneKeeps
  <2> QED  BY <2>2, RestoredIsAfter DEF WholeInv
<1> QED  BY <1>1, <1>2, <1>3 DEF RestoredNext

LEMMA WholeStutterKeeps ==
    ASSUME WholeInv, UNCHANGED <<vars, promise, todo>>
    PROVE  WholeInv'
<1>1. UNCHANGED vars /\ todo' = todo
  OBVIOUS
<1>2. CASE todo = <<>>
  BY <1>1, <1>2, WholeUnchanged DEF WholeInv
<1>3. CASE todo # <<>>
  <2>1. PICK b : RestoringFrom(b)
    BY <1>3 DEF WholeInv
  <2>2. RestoringFrom(b)'
    BY <1>1, <2>1, RestoringUnchanged
  <2> QED  BY <1>1, <1>3, <2>2 DEF WholeInv
<1> QED  BY <1>2, <1>3

LEMMA StaysWhole == RestoredSpec => []WholeInv
<1>1. RestoredInit => WholeInv
  BY JointInitHolds DEF RestoredInit, WholeInv, PromiseInv, Whole
<1>2. WholeInv /\ [RestoredNext]_<<vars, promise, todo>> => WholeInv'
  BY WholeStepKeeps, WholeStutterKeeps
<1> QED  BY <1>1, <1>2, PTL DEF RestoredSpec

----------------------------------------------------------------------------
(* The promise between and during restores.                                *)

SameAsPromised(b) == RestoringFrom(b) /\ b = orders /\ evs = out /\ seq = number

PromisedInv == IF todo = <<>> THEN PromiseInv ELSE \E b : SameAsPromised(b)

LEMMA PromisedAgain ==
    \A b : SameAsPromised(b) /\ todo = <<>> => PromiseInv
BY RestoredIs DEF SameAsPromised, PromiseInv, PromiseKept, Whole

LEMMA PromisedAgainAfter ==
    (\A b : SameAsPromised(b) /\ todo = <<>> => PromiseInv)'
BY PromisedAgain, PTL

LEMMA PromisedStepKeeps ==
    ASSUME PromisedInv, NothingWraps, PricesInRange, RestoredNext
    PROVE  PromisedInv'
<1>1. CASE todo = <<>> /\ JointNext /\ UNCHANGED todo
  <2>1. PromiseInv
    BY <1>1 DEF PromisedInv
  <2>2. PromiseInv'
    BY <1>1, <2>1, JointStepKeeps
  <2> QED  BY <1>1, <2>2 DEF PromisedInv
<1>2. CASE SaveAndRestart
  <2>1. PromiseInv /\ taker = NIL /\ UNCHANGED <<evs, seq, promise>>
    BY <1>2 DEF PromisedInv, SaveAndRestart
  <2>2. Whole /\ Resting = orders /\ evs = out /\ seq = number
    BY <2>1 DEF PromiseInv, PromiseKept, Whole
  <2>3. PICK b : b = Resting
    OBVIOUS
  <2>4. RestoringFrom(b)'
    BY <1>2, <2>2, <2>3, SaveKeeps
  <2>5. SameAsPromised(b)'
    BY <2>1, <2>2, <2>3, <2>4 DEF SameAsPromised, promise
  <2> QED  BY <2>5, PromisedAgainAfter DEF PromisedInv
<1>3. CASE RestoreOne
  <2>1. PICK b : SameAsPromised(b)
    BY <1>3 DEF PromisedInv, RestoreOne
  <2>2. RestoringFrom(b)'
    BY <1>3, <2>1, RestoreOneKeeps DEF SameAsPromised
  <2>3. UNCHANGED <<evs, seq, promise>>
    BY <1>3 DEF RestoreOne
  <2>4. SameAsPromised(b)'
    BY <2>1, <2>2, <2>3 DEF SameAsPromised, promise
  <2> QED  BY <2>4, PromisedAgainAfter DEF PromisedInv
<1> QED  BY <1>1, <1>2, <1>3 DEF RestoredNext

LEMMA PromisedStutterKeeps ==
    ASSUME PromisedInv, UNCHANGED <<vars, promise, todo>>
    PROVE  PromisedInv'
<1>1. UNCHANGED <<vars, promise>> /\ todo' = todo
  OBVIOUS
<1>2. CASE todo = <<>>
  <2>1. PromiseInv'
    BY <1>1, <1>2, JointStutterKeeps DEF PromisedInv
  <2> QED  BY <1>1, <1>2, <2>1 DEF PromisedInv
<1>3. CASE todo # <<>>
  <2>1. PICK b : SameAsPromised(b)
    BY <1>3 DEF PromisedInv
  <2>2. RestoringFrom(b)'
    BY <1>1, <2>1, RestoringUnchanged DEF SameAsPromised
  <2>3. SameAsPromised(b)'
    BY <1>1, <2>1, <2>2 DEF SameAsPromised, vars, promise
  <2> QED  BY <1>1, <1>3, <2>3 DEF PromisedInv
<1> QED  BY <1>2, <1>3

LEMMA PromisedInitHolds ==
    ASSUME RestoredInit
    PROVE  PromisedInv
BY JointInitHolds DEF RestoredInit, PromisedInv

LEMMA ListIsFree ==
    ASSUME WholeInv
    PROVE  RestoresWithoutMatching
<1> SUFFICES ASSUME NEW i \in DOMAIN todo
             PROVE  map[todo[i].id] = NIL /\ ~WouldCross(todo[i].side, todo[i].price)
  BY DEF RestoresWithoutMatching
<1>1. todo # <<>>
  OBVIOUS
<1>2. PICK b : RestoringFrom(b)
  BY <1>1 DEF WholeInv
<1>3. PICK n : HalfRestored(b, n)
  BY <1>2 DEF RestoringFrom
<1>4. /\ b \in Books /\ n \in 0 .. SizeOf(b)
      /\ todo \in Seq(Orders) /\ Len(todo) = SizeOf(b) - n
      /\ \A j \in 1 .. Len(todo) : todo[j] = NthEntry(b, n + j)
  BY <1>2, <1>3 DEF RestoringFrom, Restorable, HalfRestored, ToDo
<1>5. SizeOf(b) \in Nat
  BY <1>4, BookFacts
<1>6. PICK m : m = n + i
  OBVIOUS
<1>7. m \in 1 .. SizeOf(b) /\ n < m /\ todo[i] = NthEntry(b, m)
  BY <1>4, <1>5, <1>6
<1>8. FreeToRest(todo[i])
  BY <1>2, <1>3, <1>7, RestOfListIsFree
<1> QED  BY <1>8 DEF FreeToRest, WouldCross

\* restore() need not look: what is still on the list has an id that no order
\* at rest has, and could not trade with one, wherever the restoring stands.
THEOREM RestoreNeedsNoMatching == RestoredSpec => []RestoresWithoutMatching
<1>1. WholeInv => RestoresWithoutMatching
  BY ListIsFree
<1> QED  BY <1>1, StaysWhole, PTL

\* At every step, of a restore as of a command, the store, the queues, the
\* index, the map and the level totals agree, and no bid reaches an ask.
THEOREM RestoredStaysConsistent ==
    RestoredSpec => [](NotCrossed /\ LocsAgree /\ IndexExact /\ TotalsMatch)
<1>1. WholeInv => Whole
  BY DEF WholeInv, RestoringFrom, Whole
<1>2. Whole => NotCrossed /\ LocsAgree /\ IndexExact
  BY DEF Whole, BookInv, StoreInv, MapInv, LocsAgree
<1>3. Whole => TotalsMatch
  BY StoreHasLevels, LevelsAddUp DEF Whole, BookInv
<1> QED  BY <1>1, <1>2, <1>3, StaysWhole, PTL

\* A book that is listed, lost and restored, any number of times and at any
\* moment between two commands, answers every later command as if nothing had
\* happened: the same orders in the same priority, the same events, the same
\* numbers.  The conditions are those of BookKeepsPromise.
THEOREM RestoredBookKeepsPromise ==
    ASSUME Prices \subseteq LowEnd .. HighEnd
    PROVE  RestoredSpec /\ []NothingWraps => []RestoredKeepsPromise
<1>1. RestoredInit => PromisedInv
  BY PromisedInitHolds
<1>2. PricesInRange
  BY DEF PricesInRange
<1>3. PromisedInv /\ NothingWraps /\ [RestoredNext]_<<vars, promise, todo>>
        => PromisedInv'
  BY <1>2, PromisedStepKeeps, PromisedStutterKeeps
<1>4. PromisedInv => RestoredKeepsPromise
  BY DEF PromisedInv, RestoredKeepsPromise, PromiseInv
<1> QED  BY <1>1, <1>3, <1>4, PTL DEF RestoredSpec

----------------------------------------------------------------------------
(* A book whose quantities fit, restored.                                  *)

ListUpTo(K) == \A i \in DOMAIN todo : todo[i].qty <= K

LEMMA ListingUpTo ==
    ASSUME Whole, NEW K, UpTo(K)
    PROVE  \A i \in DOMAIN Listing : Listing[i].qty <= K
<1>1. BookInv /\ Lined /\ StoreInv
  BY DEF Whole, BookInv
<1>2. PICK b : b = Resting
  OBVIOUS
<1>3. b \in Books
  BY <1>1, <1>2, RestingType DEF Lined
<1>4. /\ Listing \in Seq(Orders) /\ Len(Listing) = SizeOf(b)
      /\ \A j \in 1 .. Len(Listing) : Listing[j] = NthEntry(b, j)
  <2>1. SizeOf(b) \in Nat
    BY <1>3, BookFacts
  <2>2. PICK n : n = 0 /\ ToDo(b, n, Listing)
    BY <1>2, <1>3, ListingIs
  <2> QED  BY <2>1, <2>2 DEF ToDo
<1> SUFFICES ASSUME NEW i \in DOMAIN Listing
             PROVE  Listing[i].qty <= K
  OBVIOUS
<1>6. i \in 1 .. SizeOf(b) /\ Listing[i] = NthEntry(b, i)
  BY <1>4
<1>7. PICK s, j : Stands(b, i, s, j)
  BY <1>3, <1>6, EntryStands
<1>8. s \in Sides /\ j \in 1 .. CountOf(b, s) /\ NthEntry(b, i) = AsEntry(s, b[s][j])
  BY <1>7 DEF Stands
<1>9. PICK L, o : OnSide(s, L, o)
  BY <1>1, <1>8, HasSide
<1>10. o = b[s] /\ CountOf(b, s) = Len(L)
  BY <1>2, <1>9, SideCount
<1>11. L[j] \in Locs /\ slot[L[j]] # NIL /\ o[j].qty = slot[L[j]].qty
  BY <1>8, <1>9, <1>10, SideFacts
<1>12. Listing[i].qty = o[j].qty
  BY <1>6, <1>8, <1>10 DEF AsEntry
<1> QED  BY <1>11, <1>12 DEF UpTo

LEMMA RestoreOneUpTo ==
    ASSUME NEW b, RestoringFrom(b), RestoreOne, NEW K, UpTo(K), ListUpTo(K)
    PROVE  UpTo(K)' /\ ListUpTo(K)'
<1>1. PICK n, e, l : TurnRests(b, n, e, l)
  BY TurnIs
<1>2. /\ HalfRestored(b, n) /\ e = Head(todo) /\ e \in Orders /\ l \in Locs
      /\ Rest(l, e) /\ todo' = Tail(todo) /\ todo # <<>>
  BY <1>1 DEF TurnRests
<1>3. todo \in Seq(Orders)
  BY <1>2 DEF HalfRestored, ToDo
<1>4. 1 \in DOMAIN todo /\ e = todo[1]
  BY <1>2, <1>3
<1>5. e.qty <= K
  BY <1>4 DEF ListUpTo
<1>6. BookInv /\ taker = NIL /\ taker' = taker
  BY DEF RestoringFrom, RestoreOne
<1>7. \A k \in Locs : slot'[k] # NIL => slot'[k].qty <= K
  BY <1>2, <1>5, <1>6, RestUpTo
<1>8. UpTo(K)'
  BY <1>6, <1>7 DEF UpTo
<1>9. \A i \in DOMAIN todo' : todo'[i].qty <= K
  <2> TAKE i \in DOMAIN todo'
  <2>1. i + 1 \in DOMAIN todo /\ todo'[i] = todo[i + 1]
    BY <1>2, <1>3
  <2> QED  BY <2>1 DEF ListUpTo
<1> QED  BY <1>8, <1>9 DEF ListUpTo

RestoredUpTo(K) == WholeInv /\ UpTo(K) /\ ListUpTo(K)

LEMMA RestoredKeepsUpTo ==
    ASSUME NEW K, QtysFit(K), RestoredUpTo(K), [RestoredNext]_<<vars, promise, todo>>
    PROVE  RestoredUpTo(K)'
<1>1. WholeInv /\ UpTo(K) /\ ListUpTo(K) /\ WholeInv'
  BY WholeStepKeeps, WholeStutterKeeps DEF RestoredUpTo
<1>2. BookInv
  BY <1>1 DEF WholeInv, RestoringFrom, Whole
<1>3. CASE [Next]_vars /\ UNCHANGED todo
  BY <1>1, <1>2, <1>3, NextUpTo DEF RestoredUpTo, ListUpTo
<1>4. CASE todo = <<>> /\ JointNext /\ UNCHANGED todo
  BY <1>3, <1>4, JointIsNext
<1>5. CASE SaveAndRestart
  <2>1. Whole
    BY <1>1, <1>5 DEF WholeInv, SaveAndRestart
  <2>2. /\ taker' = NIL /\ todo' = Listing
        /\ \A l \in Locs : slot'[l] = NIL
    BY <1>5 DEF SaveAndRestart
  <2>3. ListUpTo(K)'
    BY <1>1, <2>1, <2>2, ListingUpTo DEF ListUpTo
  <2>4. UpTo(K)'
    BY <2>2 DEF UpTo
  <2> QED  BY <1>1, <2>3, <2>4 DEF RestoredUpTo
<1>6. CASE RestoreOne
  <2>1. PICK b : RestoringFrom(b)
    BY <1>1, <1>6 DEF WholeInv, RestoreOne
  <2> QED  BY <1>1, <1>6, <2>1, RestoreOneUpTo DEF RestoredUpTo
<1>7. CASE UNCHANGED <<vars, promise, todo>>
  BY <1>3, <1>7
<1> QED  BY <1>4, <1>5, <1>6, <1>7 DEF RestoredNext

\* The same from numbers an operator knows.
THEOREM SmallRestoredBookKeepsPromise ==
    ASSUME Prices \subseteq LowEnd .. HighEnd, NEW K, QtysFit(K)
    PROVE  RestoredSpec => []RestoredKeepsPromise
<1>1. RestoredInit => RestoredUpTo(K)
  <2> SUFFICES ASSUME RestoredInit
               PROVE  RestoredUpTo(K)
    OBVIOUS
  <2>1. WholeInv
    BY JointInitHolds DEF RestoredInit, WholeInv, PromiseInv, Whole
  <2> QED  BY <2>1 DEF RestoredInit, JointInit, Init, UpTo, ListUpTo, RestoredUpTo
<1>2. RestoredUpTo(K) /\ [RestoredNext]_<<vars, promise, todo>> => RestoredUpTo(K)'
  BY RestoredKeepsUpTo
<1>3. RestoredUpTo(K) => NothingWraps
  BY UpToFits DEF RestoredUpTo, WholeInv, RestoringFrom, Whole
<1>4. RestoredSpec /\ []NothingWraps => []RestoredKeepsPromise
  BY RestoredBookKeepsPromise
<1> QED  BY <1>1, <1>2, <1>3, <1>4, PTL DEF RestoredSpec
============================================================================

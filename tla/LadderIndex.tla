----------------------------- MODULE LadderIndex -----------------------------
(***************************************************************************)
(* The price index of one side in ladder mode (LadderIndex,                *)
(* include/matcher/detail/internals.hpp): a level per tick, a bitmap of    *)
(* the occupied ticks, a summary bitmap of the words of that bitmap that   *)
(* are not zero, and a cursor on the best tick.                            *)
(*                                                                         *)
(* A word has Word bits, 64 in the build; it is kept as the set of its     *)
(* bits.  The cursor only moves by rescan(), which trusts the summary to   *)
(* find the next occupied word, so the two bitmaps have to stay exact.     *)
(* The masks and the loops over words are kept; a loop is a recursive      *)
(* function of where its next turn begins.                                 *)
(***************************************************************************)
EXTENDS Integers, FiniteSets, FiniteSetsExt, Functions

CONSTANTS
    Base,     \* BookConfig::price_min
    Span,     \* the number of ticks: price_max - price_min + 1
    Word,     \* the bits of a word
    QtyMod,   \* one more than the largest Qty
    NIL       \* no tick

ASSUME LadderShape ==
    Base \in Int /\ Span \in Nat \ {0} /\ Word \in Nat \ {0}
ASSUME QtyWidth == QtyMod \in Nat \ {0, 1}
ASSUME NilIsNoTick == NIL \notin Nat

VARIABLES
    side,      \* "Bid" or "Ask": fixed when the book is made
    occupied,  \* SUBSET Ticks: the levels that hold orders
    total,     \* [Ticks -> Qty]: Level::total, which may wrap to 0
    bits,      \* [Words -> SUBSET Bits]
    summary,   \* [SummaryWords -> SUBSET Bits]
    count,     \* the number of occupied levels
    best       \* the best tick, or NIL

vars == <<side, occupied, total, bits, summary, count, best>>

WordsFor(n) == 0 .. ((n + Word - 1) \div Word - 1)
Ticks == 0 .. (Span - 1)
Words == WordsFor(Span)
SummaryWords == WordsFor(Cardinality(Words))
Bits == 0 .. (Word - 1)
Qtys == 0 .. (QtyMod - 1)

\* The ticks whose bit is set.
Marked == {i \in Ticks : (i % Word) \in bits[i \div Word]}

----------------------------------------------------------------------------
(* Words.                                                                  *)

\* The masks ~0ull << n and ~0ull >> (63 - n): the bits from n up, up to n.
BitsFrom(n) == n .. (Word - 1)
BitsUpTo(n) == 0 .. n

\* Where the word after that of place i begins.
NextStart(i) == (i \div Word) * Word + Word

----------------------------------------------------------------------------
(* rescan()                                                                *)

\* The words the summary says are not zero.
Flagged == {w \in Words : (w % Word) \in summary[w \div Word]}

\* Mutant of WordUp: it looks no further than the summary word of s.
WordUpOnce(sm, s) ==
    LET flags == sm[s \div Word] \cap BitsFrom(s % Word)
    IN  IF s \in Words /\ flags # {} THEN (s \div Word) * Word + Min(flags)
        ELSE NIL

\* The first flagged word from word s up in the summary sm: the loop over its
\* words, the first of them masked below s.
WordUp(sm, s) ==
    LET find[t \in Nat] ==
          LET flags == sm[t \div Word] \cap BitsFrom(t % Word)
          IN  IF t \notin Words THEN NIL
              ELSE IF flags # {} THEN (t \div Word) * Word + Min(flags)
              ELSE find[NextStart(t)]
    IN  find[s]

\* The first flagged word from word s down, or -1 down: none.
WordDown(sm, s) ==
    LET find[t \in Words \cup {-1}] ==
          LET flags == sm[t \div Word] \cap BitsUpTo(t % Word)
          IN  IF t < 0 THEN NIL
              ELSE IF flags # {} THEN (t \div Word) * Word + Max(flags)
              ELSE find[(t \div Word) * Word - 1]
    IN  find[s]

\* The lowest and the highest bit of word w, as ticks.
Lowest(w) == w * Word + Min(bits[w])
Highest(w) == w * Word + Max(bits[w])

\* The next occupied tick inward from i, for an ask: in the word of i, else
\* at the bottom of the next word that is flagged.
RescanAsk(i) ==
    LET w == i \div Word
        here == bits[w] \cap BitsFrom(i % Word)
        next == WordUp(summary, w + 1)
    IN  IF here # {} THEN w * Word + Min(here)
        ELSE IF next # NIL THEN Lowest(next)
        ELSE NIL

\* For a bid: in the word of i, else at the top of the next flagged word down.
RescanBid(i) ==
    LET w == i \div Word
        here == bits[w] \cap BitsUpTo(i % Word)
        next == WordDown(summary, w - 1)
    IN  IF here # {} THEN w * Word + Max(here)
        ELSE IF next # NIL THEN Highest(next)
        ELSE NIL

Rescan(i) == IF side = "Ask" THEN RescanAsk(i) ELSE RescanBid(i)

----------------------------------------------------------------------------
(* sum_range()                                                             *)

\* Mutant of Clipped: every word is masked above the last tick's bit.
ClippedAlike(i, last) ==
    bits[i \div Word] \cap BitsFrom(i % Word) \cap BitsUpTo(last % Word)

\* What the masks leave of the word of i: nothing below i, and nothing above
\* the last tick, which may be in a later word.
Clipped(i, last) ==
    LET hiBit == Min({NextStart(i) - 1, last})
    IN  bits[i \div Word] \cap BitsFrom(i % Word) \cap BitsUpTo(hiBit % Word)

\* The totals from price lo to price hi, word by word, in a Qty.
SumRange(lo, hi) ==
    LET first == Max({lo - Base, 0})
        last == Min({hi - Base, Span - 1})
        sum[i \in Nat] ==
          LET ticks == {(i \div Word) * Word + b : b \in Clipped(i, last)}
          IN  IF i > last THEN 0
              ELSE (SumFunctionOnSet(total, ticks) + sum[NextStart(i)]) % QtyMod
    IN  sum[first]

----------------------------------------------------------------------------

\* Tick i is better than the cursor.  The first form is a mutant.
BetterIsHigher(i) == best = NIL \/ i > best

Better(i) ==
    \/ best = NIL
    \/ side = "Bid" /\ i > best
    \/ side = "Ask" /\ i < best

\* The level of tick i was empty.  The first form is a mutant.
AlwaysFirst(i) == TRUE
IsFirst(i) == i \notin occupied

\* level_insert(), then push of an order of quantity q: the first order of a
\* level marks its tick.
Insert(i, q) ==
    /\ total' = [total EXCEPT ![i] = (@ + q) % QtyMod]
    /\ occupied' = occupied \cup {i}
    /\ IF IsFirst(i)
       THEN /\ bits' = [bits EXCEPT ![i \div Word] = @ \cup {i % Word}]
            /\ summary' = [summary EXCEPT ![(i \div Word) \div Word] =
                             @ \cup {(i \div Word) % Word}]
            /\ count' = count + 1
            /\ best' = IF Better(i) THEN i ELSE best
       ELSE UNCHANGED <<bits, summary, count, best>>
    /\ UNCHANGED side

\* The summary after tick i is cleared and leaves its word as `word`.  The
\* first form is a mutant: the flag outlives the word.
SummaryKept(i, word) == summary

SummaryAfter(i, word) ==
    IF word # {} THEN summary
    ELSE [summary EXCEPT ![(i \div Word) \div Word] = @ \ {(i \div Word) % Word}]

\* Some of level i's quantity goes, by a fill, and its orders remain.
Shrink(i, q) ==
    /\ i \in occupied
    /\ total' = [total EXCEPT ![i] = (@ - q) % QtyMod]
    /\ UNCHANGED <<side, occupied, bits, summary, count, best>>

\* The last order of level i goes, and unlink_level() clears its tick.  The
\* cursor moves only if it was there.
Empty(i) ==
    LET word == bits[i \div Word] \ {i % Word}
    IN  /\ i \in occupied
        /\ UNCHANGED side
        /\ occupied' = occupied \ {i}
        /\ total' = [total EXCEPT ![i] = 0]
        /\ bits' = [bits EXCEPT ![i \div Word] = word]
        /\ summary' = SummaryAfter(i, word)
        /\ count' = count - 1
        /\ best' = IF count' = 0 THEN NIL
                   ELSE IF i = best THEN Rescan(i)' ELSE best

Init ==
    /\ side \in {"Bid", "Ask"}
    /\ occupied = {}
    /\ total = [i \in Ticks |-> 0]
    /\ bits = [w \in Words |-> {}]
    /\ summary = [w \in SummaryWords |-> {}]
    /\ count = 0
    /\ best = NIL

Next ==
    \E i \in Ticks :
        \/ \E q \in Qtys \ {0} : Insert(i, q) \/ Shrink(i, q)
        \/ Empty(i)

Spec == Init /\ [][Next]_vars

----------------------------------------------------------------------------

TypeOK ==
    /\ side \in {"Bid", "Ask"}
    /\ occupied \subseteq Ticks
    /\ total \in [Ticks -> Qtys]
    /\ bits \in [Words -> SUBSET Bits]
    /\ summary \in [SummaryWords -> SUBSET Bits]
    /\ count \in 0 .. Span
    /\ best \in Ticks \cup {NIL}

\* The bitmap marks the levels that hold orders, no others, and the summary
\* flags the words that are not zero, no others: a flag left behind would make
\* rescan() take the lowest bit of a zero word, which is undefined.
BitmapsExact ==
    /\ Marked = occupied
    /\ Flagged = {w \in Words : bits[w] # {}}
    /\ count = Cardinality(occupied)

\* best_price() is the highest occupied bid or the lowest occupied ask,
\* however far the cursor had to go to find it and whatever it skipped.
BestIsBest ==
    best = IF occupied = {} THEN NIL
           ELSE IF side = "Bid" THEN Max(occupied) ELSE Min(occupied)

\* Ranges of prices, also such as begin or end beyond either end of the ladder.
Ranges == (Base - 1 .. Base + Span) \X (Base - 1 .. Base + Span)

\* sum_range() returns the sum of the totals of the occupied levels within the
\* range, wherever it begins and ends: in the middle of a word, in the same word
\* or words apart, with zero words between, or beyond the ladder.
SumsWhatIsInReach ==
    \A r \in Ranges :
       SumRange(r[1], r[2]) =
         SumFunctionOnSet(total, {i \in occupied : /\ r[1] <= Base + i
                                                   /\ Base + i <= r[2]}) % QtyMod
============================================================================

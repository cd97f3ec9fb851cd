------------------------------- MODULE Lines -------------------------------
(***************************************************************************)
(* Flat JSON lines: how they are read (include/matcher/jsonflat.hpp), and  *)
(* what a crash in the middle of a write leaves of one.                    *)
(*                                                                         *)
(* A line is the sequence of its fields, in the order they are written.  A *)
(* field that is cut off keeps a number's leading digits, since a number   *)
(* ends wherever the text does, and nothing of a string, whose closing     *)
(* quote is missing.  Absent, and cut short to no digit, both read as NIL. *)
(***************************************************************************)
EXTENDS BookTypes

Field(key, val) == [key |-> key, val |-> val]

\* get_str(): the value of the first field with that key.
Get(line, key) ==
    IF \E i \in DOMAIN line : line[i].key = key
    THEN LET i == CHOOSE i \in DOMAIN line :
                    /\ line[i].key = key
                    /\ \A j \in DOMAIN line : line[j].key = key => i <= j
         IN  line[i].val
    ELSE NIL

Or(val, default) == IF val = NIL THEN default ELSE val

\* get_u64(), get_i64(): a number that is not there is 0 to most callers.
Num(line, key) == Or(Get(line, key), 0)

NumberKeys == {"symbol", "order_id", "price", "qty", "seq", "pmin", "pmax",
               "max_orders"}

\* The numbers that the leading digits of n >= 0 make, all digits excepted.
Cuts[n \in Nat] ==
    IF n < 10 THEN {} ELSE {n \div 10} \cup Cuts[n \div 10]

\* The same of any n.  The sign alone reads as 0.
CutsOf(n) == IF n < 0 THEN {0} \cup {-m : m \in Cuts[-n]} ELSE Cuts[n]

\* What can be left of a line that was not written to its end.  <<>> stands
\* for text without one whole field; it is not an empty line.
Torn(line) ==
    {SubSeq(line, 1, i) : i \in 0 .. Len(line) - 1}
      \cup UNION {{Append(SubSeq(line, 1, i - 1), Field(line[i].key, n)) :
                     n \in IF line[i].key \in NumberKeys THEN CutsOf(line[i].val)
                           ELSE {}} :
                    i \in DOMAIN line}
============================================================================

----------------------------- MODULE MCOrderMap -----------------------------
(***************************************************************************)
(* Instances of OrderMap for TLC.  Ids and locations are interchangeable,  *)
(* and Init chooses every hash function, so both may be permuted.          *)
(***************************************************************************)
EXTENDS OrderMap, TLC

KeysAndVals == Permutations(Keys) \cup Permutations(Vals)
============================================================================

----------------------------- MODULE MCOrderDesk -----------------------------
(* OrderDesk for TLC: the requests in flight are interchangeable, as are the *)
(* payment rows, in every property that is an invariant.                     *)
EXTENDS OrderDesk, TLC

Interchangeable == Permutations(Calls) \cup Permutations(Payments)
=============================================================================

----------------------------- MODULE MCRewards -----------------------------
(* Rewards with orders, and the slots that place them, interchangeable.    *)
EXTENDS Rewards, TLC

Interchangeable == Permutations(Orders) \cup Permutations(Guests)
=============================================================================

---------------------------- MODULE MCSpendProxy ----------------------------
(* Small instances of SpendProxy for TLC. *)
EXTENDS SpendProxy

MCSymmetry == Permutations(Requests) \cup Permutations(Keys)
=============================================================================

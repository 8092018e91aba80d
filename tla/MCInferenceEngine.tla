-------------------------- MODULE MCInferenceEngine --------------------------
(* A small instance of InferenceEngine for TLC. *)
EXTENDS InferenceEngine, TLC

MCSymmetry ==
    Permutations(Requests) \cup Permutations(Keys)
=============================================================================

-------------------------- MODULE MCPolicyReconciler --------------------------
(* Small instances of PolicyReconciler for TLC. *)
EXTENDS PolicyReconciler
=============================================================================

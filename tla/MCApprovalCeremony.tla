------------------------- MODULE MCApprovalCeremony -------------------------
(* Small instances of ApprovalCeremony for TLC. *)
EXTENDS ApprovalCeremony, TLC

CONSTANTS k1, k2, k3

\* k3 is a second key of the principal that holds k1.
MCPrincipalOf == [k \in {k1, k2, k3} |-> IF k = k2 THEN 2 ELSE 1]
MCAssertionSets == {{k1, k2}, {k1, k3}}

MCSymmetry == Permutations(Requests) \cup Permutations(Subjects)
              \cup Permutations(Attempts) \cup Permutations(Specs)
=============================================================================

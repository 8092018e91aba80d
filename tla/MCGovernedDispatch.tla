------------------------- MODULE MCGovernedDispatch -------------------------
(* Small instances of GovernedDispatch for TLC. *)
EXTENDS GovernedDispatch, TLC

CONSTANTS c1, c2, c3, p1, p2, a1

MCWindows == {<<1, 4>>}
MCExecs == 1..MaxTime
MCReasons == {"PRE_DISPATCH", "RESOLUTION_FAILED", "REJECTED", "START_DENIED",
              "START_AMBIGUOUS", "EVIDENCE_MISSING", "OUTCOME_UNCERTAIN",
              "LIFECYCLE_MISSING", "ERROR_AFTER_START", "SEAL_FAILED"}

\* Calls c1 and c2 share a process; c3 runs in another.
MCProcessOf == [c \in Calls |-> IF c = c3 THEN p2 ELSE p1]
MCEffectOf == [c \in Calls |-> a1]

\* The calls of one process are interchangeable.
MCSymmetry == Permutations(Calls \ {c3})
=============================================================================

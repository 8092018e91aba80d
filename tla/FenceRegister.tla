--------------------------- MODULE FenceRegister ---------------------------
(***************************************************************************)
(* What the emergency stop promises: the fence epoch of a scope only       *)
(* grows, and an acknowledged epoch is in force from then on.              *)
(***************************************************************************)
EXTENDS Integers

CONSTANT Scope

VARIABLES
    epoch,      \* epoch[s]: fence epoch of s, 0 while s is not fenced
    promised    \* <<s, e>>: epoch e of s was acknowledged to a caller

vars == <<epoch, promised>>

Init == epoch = [s \in Scope |-> 0] /\ promised = {}

Raise(s) ==
    /\ epoch'[s] > epoch[s]
    /\ epoch' = [epoch EXCEPT ![s] = epoch'[s]]

\* An epoch is acknowledged in the step that raises it or later.
Promise(s, e) ==
    /\ 0 < e /\ e <= epoch'[s]
    /\ promised' = promised \cup {<<s, e>>}

Next ==
    \E s \in Scope :
        /\ Raise(s) \/ UNCHANGED epoch
        /\ (\E e \in {p[2] : p \in promised'} : Promise(s, e)) \/ UNCHANGED promised

Spec == Init /\ [][Next]_vars
=============================================================================

--------------------------- MODULE GovernedEffect ---------------------------
(***************************************************************************)
(* What the durable boundary promises about an approved external write:    *)
(* before it reaches the network it is committed to, or ruled out, and not *)
(* both; it is sent at most once and only after the commitment; and a stop *)
(* of the scope admits no further commitment.                              *)
(***************************************************************************)
CONSTANT Effect

VARIABLES
    stopped,     \* the scope is fenced
    committed,   \* effects with a durable start
    voided,      \* effects durably resolved without a start
    sent         \* effects whose request was issued

vars == <<stopped, committed, voided, sent>>

Init == stopped = FALSE /\ committed = {} /\ voided = {} /\ sent = {}

Stop == stopped' = TRUE /\ UNCHANGED <<committed, voided, sent>>

Commit(e) ==
    /\ ~stopped
    /\ e \notin committed \cup voided
    /\ committed' = committed \cup {e}
    /\ UNCHANGED <<stopped, voided, sent>>

Void(e) ==
    /\ e \notin committed \cup voided
    /\ voided' = voided \cup {e}
    /\ UNCHANGED <<stopped, committed, sent>>

Send(e) ==
    /\ e \in committed \ sent
    /\ sent' = sent \cup {e}
    /\ UNCHANGED <<stopped, committed, voided>>

Next == Stop \/ \E e \in Effect : Commit(e) \/ Void(e) \/ Send(e)

Spec == Init /\ [][Next]_vars
=============================================================================

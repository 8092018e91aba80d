--------------------------- MODULE InferenceEngine ---------------------------
(***************************************************************************)
(* Concurrent governed requests over one BalanceLedger:                    *)
(* core/pkg/inferencegateway/engine.go (Quote, Settle),                    *)
(* engine_lifecycle.go (ReserveForDispatch, ReleaseReservation) and        *)
(* reconciliation.go (RecordPaymentFailure).                               *)
(*                                                                         *)
(* The ledger's mutex is held per method, so Settle is three steps (Lookup,*)
(* consumption of the reservation, commit) and RecordPaymentFailure is     *)
(* three.  The spend envelope, the price books and the provider are        *)
(* outside: a quote is any amount, allowed or not, its usage any cost, and *)
(* it may have expired when its usage is settled.                          *)
(***************************************************************************)
EXTENDS BalanceLedger

CONSTANTS
    Requests        \* invocations of the gateway

VARIABLES
    run,            \* run[r]: progress and answer of a request
    payment         \* RecordPaymentFailure: progress, balance read, answer

engine == <<run, payment>>
vars == <<ledger, engine>>

PCs == {"idle", "quoted", "ready", "dispatched", "settling", "consumed",
        "settled", "done"}
\* "ended" stands for every answer without a settlement that comes before the
\* commit: rejected, unreserved, expired, escalated, released.
Answers == {"none", "ended", "refused", "replayed", "settled"}

Idle == [pc |-> "idle", key |-> None, quoted |-> 0, cost |-> 0,
         answer |-> "none", receipt |-> None]

Advance(r, pc) == run' = [run EXCEPT ![r].pc = pc]

\* The request ends with an answer, and the receipt it returns or None.
Finish(r, pc, answer, receipt) ==
    run' = [run EXCEPT ![r] = [Idle EXCEPT
        !.pc = pc, !.key = run[r].key, !.answer = answer, !.receipt = receipt]]

\* The request ends before its commit.
End(r) == run' = [run EXCEPT ![r] = [Idle EXCEPT !.pc = "done", !.answer = "ended"]]

\* Route selection and the verdict of the envelope, neither of which reads the
\* ledger: a quote of q, which is also the ceiling MaxAmountCents of the debit, or
\* a rejection.
Quote(r, k, q) ==
    /\ run[r].pc = "idle"
    /\ run' = [run EXCEPT ![r] = [@ EXCEPT !.pc = "quoted", !.key = k, !.quoted = q]]
    /\ UNCHANGED <<ledger, payment>>

QuoteRejected(r) ==
    /\ run[r].pc = "idle"
    /\ End(r)
    /\ UNCHANGED <<ledger, payment>>

ReserveForDispatch(r) ==
    /\ run[r].pc = "quoted"
    /\ \/ Reserve(run[r].key, run[r].quoted) /\ Advance(r, "ready")
       \/ /\ ReserveRefused(run[r].key, run[r].quoted)
          /\ End(r)
          /\ UNCHANGED ledger
    /\ UNCHANGED payment

\* The provider call, of a handler that reserved and of one that did not.
Dispatch(r) ==
    /\ run[r].pc \in {"quoted", "ready"}
    /\ Advance(r, "dispatched")
    /\ UNCHANGED <<ledger, payment>>

\* The handler answers 502 and leaves the reservation to its caller.
DispatchFails(r) ==
    /\ run[r].pc \in {"quoted", "ready"}
    /\ End(r)
    /\ UNCHANGED <<ledger, payment>>

\* A caller frees the hold of a run that failed or that it abandons.
ReleaseReservation(r) ==
    /\ run[r].pc \in {"ready", "dispatched"}
    /\ \/ Release(run[r].key)
       \/ ReleaseRefused(run[r].key) /\ UNCHANGED ledger
    /\ End(r)
    /\ UNCHANGED payment

\* Mutant: the reservation is consumed before expiry and ceiling are checked.
LookupConsuming(r, c) ==
    LET k == run[r].key IN
    /\ run[r].pc = "dispatched"
    /\ \/ settled[k] # None /\ Finish(r, "done", "replayed", settled[k])
          /\ UNCHANGED ledger
       \/ /\ settled[k] = None
          /\ consumeReservationForDebit(k)
          /\ \/ End(r)
             \/ run' = [run EXCEPT ![r] =
                  [@ EXCEPT !.pc = "settling", !.cost = c]]
    /\ UNCHANGED payment

\* Settle of a provider cost of c, fee included, up to the receipts: the replay
\* short-circuit, then expiry (End), then the quote's ceiling: CostCapClamp debits
\* at most the ceiling, CostCapEscalate ends the request.
Lookup(r, c) ==
    LET k == run[r].key
        Usage(a) == run' = [run EXCEPT ![r] =
                        [@ EXCEPT !.pc = "settling", !.cost = a]]
    IN
    /\ run[r].pc = "dispatched"
    /\ \/ settled[k] # None /\ Finish(r, "done", "replayed", settled[k])
       \/ /\ settled[k] = None
          /\ \/ End(r)
             \/ c <= run[r].quoted /\ Usage(c)
             \/ c > run[r].quoted /\ Usage(run[r].quoted)
    /\ UNCHANGED <<ledger, payment>>

Consume(r) ==
    /\ run[r].pc = "settling"
    /\ consumeReservationForDebit(run[r].key)
    /\ Advance(r, "consumed")
    /\ UNCHANGED payment

\* Mutant: the caller's own receipts are returned, not the committed ones.
CommitOwnReceipt(r) ==
    LET k == run[r].key IN
    /\ run[r].pc = "consumed"
    /\ \/ /\ commit(k, run[r].quoted, run[r].cost)
          /\ Finish(r, "settled", "settled",
                    [quoted |-> run[r].quoted, debit |-> run[r].cost])
       \/ /\ commitRefused(k, run[r].cost)
          /\ Finish(r, "done", "refused", None)
          /\ UNCHANGED ledger
    /\ UNCHANGED payment

\* The debit.  The loser of two commits of one key is answered with the
\* winner's receipts, and not as a replay.
Commit(r) ==
    LET k == run[r].key IN
    /\ run[r].pc = "consumed"
    /\ \/ /\ commit(k, run[r].quoted, run[r].cost)
          /\ Finish(r, "settled", "settled", settled'[k])
       \/ /\ commitRefused(k, run[r].cost)
          /\ Finish(r, "done", "refused", None)
          /\ UNCHANGED ledger
    /\ UNCHANGED payment

PaymentRead ==
    /\ payment.pc = "idle"
    /\ payment' = [payment EXCEPT !.pc = "read", !.before = account.balance]
    /\ UNCHANGED <<ledger, run>>

PaymentFreeze ==
    /\ payment.pc = "read"
    /\ ApplyFreeze
    /\ payment' = [payment EXCEPT !.pc = "frozen"]
    /\ UNCHANGED run

\* Mutant: the balance is not compared with the one read before the freeze.
PaymentDone ==
    /\ payment.pc = "frozen"
    /\ payment' = [payment EXCEPT !.pc = "done"]
    /\ UNCHANGED <<ledger, run>>

\* A debit or credit between the first read and the freeze is an error.
PaymentCheck ==
    /\ payment.pc = "frozen"
    /\ payment' = IF account.balance = payment.before
                  THEN [payment EXCEPT !.pc = "done"]
                  ELSE [pc |-> "error", before |-> 0]
    /\ UNCHANGED <<ledger, run>>

EngineInit ==
    /\ run = [r \in Requests |-> Idle]
    /\ payment = [pc |-> "idle", before |-> 0]

Init == LedgerInit /\ EngineInit

Gateway(r) ==
    \/ \E k \in Keys, q \in Amounts : Quote(r, k, q)
    \/ QuoteRejected(r)
    \/ ReserveForDispatch(r)
    \/ Dispatch(r)
    \/ DispatchFails(r)
    \/ ReleaseReservation(r)
    \/ \E c \in Amounts \cup {0} : Lookup(r, c)
    \/ Consume(r) \/ Commit(r)

Operator ==
    /\ \/ EnableEnterpriseInvoicing
       \/ \E mk \in MovementKeys, a \in Credits :
            creditMovement(mk, a) \/ Accrue(mk, a)
       \/ account.status = "ACTIVE" /\ ApplyFreeze
    /\ UNCHANGED engine

Payment == PaymentRead \/ PaymentFreeze \/ PaymentCheck

Next == (\E r \in Requests : Gateway(r)) \/ Operator \/ Payment

Spec == Init /\ [][Next]_vars

-----------------------------------------------------------------------------
(* Properties *)

\* The ledger, the requests and the payment handler have their types.  The balance
\* is a natural number with invoicing too: commit compares every debit with the
\* available funds and does not read allowNegativeBalance, although comments of
\* store.go say that invoicing permits a negative balance.
TypeOK ==
    /\ LedgerTypeOK
    /\ run \in [Requests ->
         [pc : PCs, key : Keys \cup {None}, quoted : Amounts \cup {0},
          cost : Amounts \cup {0}, answer : Answers,
          receipt : Receipt \cup {None}]]
    /\ payment \in [pc : {"idle", "read", "frozen", "done", "error"}, before : Nat]

\* Whoever is told that a key was settled, as a winner, as the loser of a race
\* or as a replay, is given the receipts that were debited for that key.
OneOutcomePerKey ==
    \A r \in Requests :
        run[r].answer \in {"settled", "replayed"} =>
            run[r].receipt = settled[run[r].key] /\ run[r].receipt # None

\* A reservation is consumed only for a debit: its key is settled, or a request
\* is about to commit it, or was told that its commit was refused.  An expired
\* or escalated settlement leaves the hold open.
ConsumedForDebit ==
    \A k \in Keys : reservations[k].state = "consumed" =>
        \/ settled[k] # None
        \/ \E r \in Requests : run[r].key = k
             /\ (run[r].pc = "consumed" \/ run[r].answer = "refused")

\* A frozen account stays frozen, its balance does not move and nothing more is
\* held, whatever was quoted, reserved or dispatched before the freeze.
FrozenAccountRests ==
    [][account.status = "FROZEN" =>
         /\ account'.status = "FROZEN"
         /\ account'.balance = account.balance
         /\ account'.hold <= account.hold]_vars

\* When RecordPaymentFailure returns its directive, the account is frozen at
\* the balance it had when the failure was recorded.
PaymentFailureFreezes ==
    payment.pc = "done" =>
        account.status = "FROZEN" /\ account.balance = payment.before
=============================================================================

---------------------------- MODULE BalanceLedger ----------------------------
(***************************************************************************)
(* The in-memory balance of the inference gateway,                         *)
(* core/pkg/inferencegateway: BalanceLedger (store.go), its balance        *)
(* lifecycle (lifecycle.go) and the freezes of reconciliation.go.          *)
(*                                                                         *)
(* Every method runs under the ledger's mutex: one action each, enabled    *)
(* when the method returns no error.  A method that returns an error       *)
(* leaves the ledger as it was, which its callers model.  The posted       *)
(* entries are kept as the totals FinanceExport groups them into.          *)
(***************************************************************************)
EXTENDS Integers, FiniteSets, Functions

CONSTANTS
    Keys,           \* idempotency keys of governed requests
    MovementKeys,   \* idempotency keys of credits and accruals
    Amounts,        \* positive amounts in cents that are quoted and debited
    Credits,        \* positive amounts in cents that are credited or accrued
    Opening,        \* the balance an account is created with
    None

ASSUME LedgerAssumption ==
    /\ Amounts \subseteq Nat \ {0} /\ Credits \subseteq Nat \ {0}
    /\ Opening \in Nat
    /\ IsFiniteSet(Keys)

VARIABLES
    account,        \* BalanceCents, HoldCents and Status of the account
    invoicing,      \* allowNegativeBalance
    settled,        \* settled[k]: the committed settlement of k, or None
    reservations,   \* reservations[k]: the hold of k's quote
    movements,      \* movement keys already posted
    lines           \* totals of the posted entries by what they move

ledger == <<account, invoicing, settled, reservations, movements, lines>>

\* What the receipts of a settlement are hashed over: the quoted and the
\* debited amount (the key is the index under which it is kept).
Receipt == [quoted : Amounts, debit : Amounts]
Reservation == [state : {"none", "open", "released", "consumed"},
                amount : Amounts \cup {0}]

\* None, the key that is not in the idempotency index, is no receipt.
ASSUME NoneAssumption == None \notin Receipt

Available ==
    IF account.status = "ACTIVE" /\ account.balance > account.hold
    THEN account.balance - account.hold ELSE 0

NewBalanceLedger(balance) ==
    [balance |-> balance, hold |-> 0, status |-> "ACTIVE"]

LedgerInit ==
    /\ account = NewBalanceLedger(Opening)
    /\ invoicing \in BOOLEAN
    /\ settled = [k \in Keys |-> None]
    /\ reservations = [k \in Keys |-> [state |-> "none", amount |-> 0]]
    /\ movements = {}
    /\ lines = [credit |-> 0, debit |-> 0, accrual |-> 0]

EnableEnterpriseInvoicing ==
    /\ ~invoicing
    /\ invoicing' = TRUE
    /\ UNCHANGED <<account, settled, reservations, movements, lines>>

\* Mutant: credits are accepted by an account that is not active.
CreditAnyStatus(mk, a) ==
    /\ mk \notin movements
    /\ account' = [account EXCEPT !.balance = @ + a]
    /\ movements' = movements \cup {mk}
    /\ lines' = [lines EXCEPT !.credit = @ + a]
    /\ UNCHANGED <<invoicing, settled, reservations>>

\* TopUp, Promo and Refund.  A posted key, of a credit or of an accrual, is
\* answered as a replay.
creditMovement(mk, a) ==
    /\ mk \notin movements
    /\ account.status = "ACTIVE"
    /\ account' = [account EXCEPT !.balance = @ + a]
    /\ movements' = movements \cup {mk}
    /\ lines' = [lines EXCEPT !.credit = @ + a]
    /\ UNCHANGED <<invoicing, settled, reservations>>

\* An accrual never moves the balance and is posted in any status.
Accrue(mk, a) ==
    /\ mk \notin movements
    /\ movements' = movements \cup {mk}
    /\ lines' = [lines EXCEPT !.accrual = @ + a]
    /\ UNCHANGED <<account, invoicing, settled, reservations>>

\* Mutant: funds already held for another dispatch are promised again.
AdmitsHoldOverBalance(a) ==
    account.status = "ACTIVE" /\ (invoicing \/ a <= account.balance)

AdmitsHold(a) == account.status = "ACTIVE" /\ (invoicing \/ a <= Available)

\* Idempotent on the key: whatever became of an earlier hold, and whatever
\* amount it had, it is the reservation that is returned.
Reserve(k, a) ==
    \/ reservations[k].state # "none" /\ UNCHANGED ledger
    \/ /\ reservations[k].state = "none"
       /\ AdmitsHold(a)
       /\ account' = [account EXCEPT !.hold = @ + a]
       /\ reservations' =
            [reservations EXCEPT ![k] = [state |-> "open", amount |-> a]]
       /\ UNCHANGED <<invoicing, settled, movements, lines>>

ReserveRefused(k, a) == reservations[k].state = "none" /\ ~AdmitsHold(a)

\* The account with a hold dropped, never below zero.
releaseHold(a) ==
    [account EXCEPT !.hold = IF @ >= a THEN @ - a ELSE 0]

\* Release of an open hold; a released one is only found again.
Release(k) ==
    \/ reservations[k].state = "released" /\ UNCHANGED ledger
    \/ /\ reservations[k].state = "open"
       /\ account' = releaseHold(reservations[k].amount)
       /\ reservations' = [reservations EXCEPT ![k].state = "released"]
       /\ UNCHANGED <<invoicing, settled, movements, lines>>

ReleaseRefused(k) == reservations[k].state \in {"none", "consumed"}

\* Mutant: a reservation that was released is consumed as well.
ConsumeReleased(k) ==
    IF reservations[k].state \in {"open", "released"}
    THEN /\ account' = releaseHold(reservations[k].amount)
         /\ reservations' = [reservations EXCEPT ![k].state = "consumed"]
         /\ UNCHANGED <<invoicing, settled, movements, lines>>
    ELSE UNCHANGED ledger

consumeReservationForDebit(k) ==
    IF reservations[k].state = "open"
    THEN /\ account' = releaseHold(reservations[k].amount)
         /\ reservations' = [reservations EXCEPT ![k].state = "consumed"]
         /\ UNCHANGED <<invoicing, settled, movements, lines>>
    ELSE UNCHANGED ledger

\* The receipts of a debit are posted; d may be 0, which is refused.
Post(k, q, d) ==
    /\ account' = [account EXCEPT !.balance = @ - d]
    /\ settled' = [settled EXCEPT ![k] = [quoted |-> q, debit |-> d]]
    /\ lines' = [lines EXCEPT !.debit = @ + d]
    /\ UNCHANGED <<invoicing, reservations, movements>>

\* Mutant: no second look at the idempotency index.
CommitTwice(k, q, d) ==
    d > 0 /\ account.status = "ACTIVE" /\ d <= Available /\ Post(k, q, d)

\* Mutant: the debit is not compared with the available funds.
CommitUnfunded(k, q, d) ==
    \/ settled[k] # None /\ UNCHANGED ledger
    \/ settled[k] = None /\ d > 0 /\ account.status = "ACTIVE" /\ Post(k, q, d)

\* commit of a key another caller has committed meanwhile posts nothing.
commit(k, q, d) ==
    \/ settled[k] # None /\ UNCHANGED ledger
    \/ /\ settled[k] = None
       /\ d > 0 /\ account.status = "ACTIVE" /\ d <= Available
       /\ Post(k, q, d)

commitRefused(k, d) ==
    settled[k] = None /\ (d = 0 \/ account.status # "ACTIVE" \/ d > Available)

\* ApplyFreeze, also as called by FreezeOnReconciliation.
ApplyFreeze ==
    /\ account' = [account EXCEPT !.status = "FROZEN"]
    /\ UNCHANGED <<invoicing, settled, reservations, movements, lines>>

-----------------------------------------------------------------------------
LedgerTypeOK ==
    /\ account \in [balance : Nat, hold : Nat, status : {"ACTIVE", "FROZEN"}]
    /\ invoicing \in BOOLEAN
    /\ settled \in [Keys -> Receipt \cup {None}]
    /\ reservations \in [Keys -> Reservation]
    /\ movements \subseteq MovementKeys
    /\ lines \in [credit : Nat, debit : Nat, accrual : Nat]

SettledDebits ==
    SumFunction([k \in Keys |-> IF settled[k] = None THEN 0 ELSE settled[k].debit])

OpenHolds ==
    SumFunction([k \in Keys |-> IF reservations[k].state = "open"
                                THEN reservations[k].amount ELSE 0])

\* The balance is the opening balance plus the posted credits minus exactly one
\* debit per settled key, which is what FinanceExport reports: concurrent and
\* repeated settlements of a key debit once, accruals never move the balance.
Conserved ==
    /\ account.balance = Opening + lines.credit - SettledDebits
    /\ lines.debit = SettledDebits

\* HoldCents is the sum of the reservations that are still open, however
\* releases, consumptions and repeats of a key are ordered: the clamp of
\* releaseHoldLocked at zero never hides a hold dropped twice.
HoldBacksOpenReservations == account.hold = OpenHolds

\* Without enterprise invoicing no two dispatches hold the same funds.
Solvent == invoicing \/ account.hold <= account.balance
=============================================================================

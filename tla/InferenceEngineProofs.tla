------------------------ MODULE InferenceEngineProofs ------------------------
(***************************************************************************)
(* Proofs about InferenceEngine and the BalanceLedger under it: the        *)
(* balance is conserved and holds are backed, each key has one outcome,    *)
(* a frozen account rests.                                                 *)
(***************************************************************************)
EXTENDS InferenceEngine, SumTheorems

-----------------------------------------------------------------------------
(* The totals *)

\* What every settled key was debited, and what every open reservation holds.
Debits(s) == [k \in Keys |-> IF s[k] = None THEN 0 ELSE s[k].debit]
Holds(v) == [k \in Keys |-> IF v[k].state = "open" THEN v[k].amount ELSE 0]

\* Both totals are of naturals.
LEMMA TotalsType ==
    /\ \A s \in [Keys -> Receipt \cup {None}] : Debits(s) \in [Keys -> Nat]
    /\ \A v \in [Keys -> Reservation] : Holds(v) \in [Keys -> Nat]
<1>1. ASSUME NEW s \in [Keys -> Receipt \cup {None}], NEW k \in Keys
      PROVE  (IF s[k] = None THEN 0 ELSE s[k].debit) \in Nat
  BY LedgerAssumption DEF Receipt
<1>2. ASSUME NEW v \in [Keys -> Reservation], NEW k \in Keys
      PROVE  (IF v[k].state = "open" THEN v[k].amount ELSE 0) \in Nat
  <2>1. v[k].amount \in Amounts \cup {0}
    BY DEF Reservation
  <2>2. Amounts \cup {0} \subseteq Nat
    BY LedgerAssumption
  <2>3. v[k].amount \in Nat
    BY <2>1, <2>2, Zenon
  <2>4. QED
    BY <2>3
<1>3. QED
  BY <1>1, <1>2 DEF Debits, Holds

\* Settling one key adds its debit to the debits.
LEMMA DebitsAfterPost ==
    ASSUME NEW s \in [Keys -> Receipt \cup {None}], NEW k \in Keys, s[k] = None,
           NEW n \in Receipt
    PROVE  /\ [s EXCEPT ![k] = n] \in [Keys -> Receipt \cup {None}]
           /\ SumFunction(Debits([s EXCEPT ![k] = n])) =
                SumFunction(Debits(s)) + n.debit
<1> DEFINE t == [s EXCEPT ![k] = n]
<1>1. t \in [Keys -> Receipt \cup {None}]
  OBVIOUS
<1>2. Debits(s) \in [Keys -> Nat] /\ Debits(t) \in [Keys -> Nat]
  BY <1>1, TotalsType
<1>3. Debits(s)[k] = 0 /\ Debits(t)[k] = n.debit
  BY NoneAssumption DEF Debits
<1>4. \A j \in Keys \ {k} : Debits(t)[j] = Debits(s)[j]
  BY DEF Debits
<1> HIDE DEF t
<1>5. SumFunction(Debits(t)) = SumFunction(Debits(s)) - Debits(s)[k] + Debits(t)[k]
  BY <1>2, <1>4, SumUpdate, LedgerAssumption
<1>6. SumFunction(Debits(s)) \in Nat /\ Debits(t)[k] \in Nat
  BY <1>2, SumNat, LedgerAssumption
<1>7. SumFunction(Debits(t)) = SumFunction(Debits(s)) + n.debit
  BY <1>3, <1>5, <1>6
<1>8. QED
  BY <1>1, <1>7 DEF t

\* Changing one reservation changes the holds by what it holds.
LEMMA HoldsAfterUpdate ==
    ASSUME NEW v \in [Keys -> Reservation], NEW k \in Keys, NEW n \in Reservation
    PROVE  /\ [v EXCEPT ![k] = n] \in [Keys -> Reservation]
           /\ SumFunction(Holds([v EXCEPT ![k] = n])) =
                SumFunction(Holds(v))
                  - (IF v[k].state = "open" THEN v[k].amount ELSE 0)
                  + (IF n.state = "open" THEN n.amount ELSE 0)
<1> DEFINE w == [v EXCEPT ![k] = n]
<1>1. w \in [Keys -> Reservation] /\ w[k] = n
  OBVIOUS
<1>2. Holds(v) \in [Keys -> Nat] /\ Holds(w) \in [Keys -> Nat]
  BY <1>1, TotalsType
<1>3. \A j \in Keys \ {k} : Holds(w)[j] = Holds(v)[j]
  BY DEF Holds
<1>4. /\ Holds(v)[k] = IF v[k].state = "open" THEN v[k].amount ELSE 0
      /\ Holds(w)[k] = IF n.state = "open" THEN n.amount ELSE 0
  BY DEF Holds
<1> HIDE DEF w
<1>5. SumFunction(Holds(w)) = SumFunction(Holds(v)) - Holds(v)[k] + Holds(w)[k]
  BY <1>2, <1>3, SumUpdate, LedgerAssumption
<1>6. QED
  BY <1>1, <1>4, <1>5 DEF w

\* An open reservation is part of the holds.
LEMMA HoldsAtLeast ==
    ASSUME NEW v \in [Keys -> Reservation], NEW k \in Keys, v[k].state = "open"
    PROVE  v[k].amount \in Nat /\ v[k].amount <= SumFunction(Holds(v))
<1>1. Holds(v) \in [Keys -> Nat] /\ Holds(v)[k] = v[k].amount
  BY TotalsType DEF Holds
<1>2. QED
  BY <1>1, SumAtLeast, LedgerAssumption

-----------------------------------------------------------------------------
(* The ledger: each method preserves its invariant *)

\* The inductive invariant of the ledger.
LedgerInv ==
    LedgerTypeOK /\ Conserved /\ HoldBacksOpenReservations /\ Solvent

\* What a step may do to a frozen account, and to the outcome of a key.
Rests ==
    account.status = "FROZEN" =>
        /\ account'.status = "FROZEN"
        /\ account'.balance = account.balance
        /\ account'.hold <= account.hold
OutcomesStay == \A k \in Keys : settled[k] # None => settled'[k] = settled[k]

\* The reservations a step consumes.
ConsumesOnly(K) ==
    \A k \in Keys \ K : reservations'[k].state = "consumed"
                          => reservations[k].state = "consumed"

\* The new ledger satisfies the invariant.
LEMMA LedgerInvInit == LedgerInit => LedgerInv
<1> SUFFICES ASSUME LedgerInit PROVE LedgerInv
  OBVIOUS
<1>1. LedgerTypeOK
  BY LedgerAssumption DEF LedgerInit, LedgerTypeOK, NewBalanceLedger, Reservation
<1>2. SettledDebits = 0
  <2>1. [k \in Keys |-> IF settled[k] = None THEN 0 ELSE settled[k].debit]
          = [k \in Keys |-> 0]
    BY DEF LedgerInit
  <2>2. QED
    BY <2>1, SumZero, LedgerAssumption DEF SettledDebits
<1>3. OpenHolds = 0
  <2>1. [k \in Keys |-> IF reservations[k].state = "open"
                        THEN reservations[k].amount ELSE 0]
          = [k \in Keys |-> 0]
    BY DEF LedgerInit
  <2>2. QED
    BY <2>1, SumZero, LedgerAssumption DEF OpenHolds
<1>4. QED
  BY <1>1, <1>2, <1>3, LedgerAssumption
     DEF LedgerInv, LedgerInit, NewBalanceLedger, Conserved,
         HoldBacksOpenReservations, Solvent

\* A method that returns an error or finds its work done changes nothing.
LEMMA LedgerStutters ==
    ASSUME LedgerInv, UNCHANGED ledger
    PROVE  LedgerInv' /\ Rests /\ OutcomesStay /\ ConsumesOnly({})
<1>1. LedgerInv'
  BY DEF LedgerInv, LedgerTypeOK, Conserved, HoldBacksOpenReservations, Solvent,
         SettledDebits, OpenHolds, ledger
<1>2. account' = account /\ settled' = settled /\ reservations' = reservations
  BY DEF ledger
<1>3. Rests
  BY <1>2 DEF Rests, LedgerInv, LedgerTypeOK
<1>4. QED
  BY <1>1, <1>2, <1>3 DEF OutcomesStay, ConsumesOnly

\* The parts of the invariant that a step leaves alone when it leaves alone
\* what they are totals of.
LEMMA TotalsStay ==
    /\ settled' = settled => SettledDebits' = SettledDebits
    /\ reservations' = reservations => OpenHolds' = OpenHolds
BY DEF SettledDebits, OpenHolds

\* The totals of a well-typed ledger.
LEMMA TotalsAre ==
    ASSUME LedgerTypeOK
    PROVE  /\ SettledDebits = SumFunction(Debits(settled)) /\ SettledDebits \in Nat
           /\ OpenHolds = SumFunction(Holds(reservations)) /\ OpenHolds \in Nat
<1>1. Debits(settled) \in [Keys -> Nat] /\ Holds(reservations) \in [Keys -> Nat]
  BY TotalsType DEF LedgerTypeOK
<1>2. SumFunction(Debits(settled)) \in Nat /\ SumFunction(Holds(reservations)) \in Nat
  BY <1>1, SumNat, LedgerAssumption
<1>3. QED
  BY <1>2 DEF SettledDebits, OpenHolds, Debits, Holds

\* The operator's methods: invoicing, credits, accruals and freezes.
LEMMA OperatorKeeps ==
    ASSUME LedgerInv,
           \/ EnableEnterpriseInvoicing
           \/ \E mk \in MovementKeys, a \in Credits :
                creditMovement(mk, a) \/ Accrue(mk, a)
           \/ ApplyFreeze
    PROVE  LedgerInv' /\ Rests /\ OutcomesStay /\ ConsumesOnly({})
<1> USE DEF LedgerInv, LedgerTypeOK, Conserved, HoldBacksOpenReservations, Solvent,
            Rests
<1>1. settled' = settled /\ reservations' = reservations
  BY DEF EnableEnterpriseInvoicing, creditMovement, Accrue, ApplyFreeze
<1>2. OutcomesStay /\ ConsumesOnly({})
  BY <1>1 DEF OutcomesStay, ConsumesOnly
<1>3. SettledDebits' = SettledDebits /\ OpenHolds' = OpenHolds /\ SettledDebits \in Nat
  BY <1>1, TotalsStay, TotalsAre
<1>4. CASE EnableEnterpriseInvoicing
  BY <1>2, <1>3, <1>4 DEF EnableEnterpriseInvoicing
<1>5. CASE ApplyFreeze
  BY <1>2, <1>3, <1>5 DEF ApplyFreeze
<1>6. ASSUME NEW mk \in MovementKeys, NEW a \in Credits, Accrue(mk, a)
      PROVE  LedgerInv' /\ Rests /\ OutcomesStay /\ ConsumesOnly({})
  <2>1. a \in Nat
    BY LedgerAssumption
  <2>2. lines' = [lines EXCEPT !.accrual = lines.accrual + a]
    BY <1>6 DEF Accrue
  <2>3. /\ lines' \in [credit : Nat, debit : Nat, accrual : Nat]
        /\ lines'.credit = lines.credit /\ lines'.debit = lines.debit
    BY <2>1, <2>2
  <2>4. QED
    BY <1>2, <1>3, <1>6, <2>3 DEF Accrue
<1>7. ASSUME NEW mk \in MovementKeys, NEW a \in Credits, creditMovement(mk, a)
      PROVE  LedgerInv' /\ Rests /\ OutcomesStay /\ ConsumesOnly({})
  <2>1. a \in Nat
    BY LedgerAssumption
  <2>2. /\ lines' = [lines EXCEPT !.credit = lines.credit + a]
        /\ account' = [account EXCEPT !.balance = account.balance + a]
    BY <1>7 DEF creditMovement
  <2>3. /\ lines' \in [credit : Nat, debit : Nat, accrual : Nat]
        /\ lines'.credit = lines.credit + a /\ lines'.debit = lines.debit
    BY <2>1, <2>2
  <2>4. /\ account' \in [balance : Nat, hold : Nat, status : {"ACTIVE", "FROZEN"}]
        /\ account'.balance = account.balance + a /\ account'.hold = account.hold
    BY <2>1, <2>2
  <2>5. account.balance + a = Opening + (lines.credit + a) - SettledDebits
    BY <1>3, <2>1, LedgerAssumption
  <2>6. QED
    BY <1>2, <1>3, <1>7, <2>1, <2>3, <2>4, <2>5 DEF creditMovement
<1>8. QED
  BY <1>4, <1>5, <1>6, <1>7

\* A hold, or the reservation of an earlier one.
LEMMA ReserveKeeps ==
    ASSUME LedgerInv, NEW k \in Keys, NEW a \in Amounts, Reserve(k, a)
    PROVE  LedgerInv' /\ Rests /\ OutcomesStay /\ ConsumesOnly({})
<1>1. CASE UNCHANGED ledger
  BY <1>1, LedgerStutters
<1>2. CASE /\ reservations[k].state = "none"
           /\ AdmitsHold(a)
           /\ account' = [account EXCEPT !.hold = @ + a]
           /\ reservations' =
                [reservations EXCEPT ![k] = [state |-> "open", amount |-> a]]
           /\ UNCHANGED <<invoicing, settled, movements, lines>>
  <2>1. a \in Nat /\ a > 0
    BY LedgerAssumption
  <2>2. /\ account' \in [balance : Nat, hold : Nat, status : {"ACTIVE", "FROZEN"}]
        /\ account'.balance = account.balance /\ account'.hold = account.hold + a
    BY <1>2, <2>1 DEF LedgerInv, LedgerTypeOK
  <2> DEFINE n == [state |-> "open", amount |-> a]
  <2>3. n \in Reservation /\ n.state = "open" /\ n.amount = a
    BY DEF Reservation
  <2> HIDE DEF n
  <2>4. /\ reservations' \in [Keys -> Reservation]
        /\ SumFunction(Holds(reservations')) = SumFunction(Holds(reservations)) + a
    <3>1. reservations \in [Keys -> Reservation]
      BY DEF LedgerInv, LedgerTypeOK
    <3>2. reservations' = [reservations EXCEPT ![k] = n]
      BY <1>2 DEF n
    <3>3. SumFunction(Holds(reservations)) \in Nat
      BY TotalsAre DEF LedgerInv
    <3>4. /\ reservations' \in [Keys -> Reservation]
          /\ SumFunction(Holds(reservations')) =
               SumFunction(Holds(reservations)) - 0 + a
      <4>1. /\ [reservations EXCEPT ![k] = n] \in [Keys -> Reservation]
            /\ SumFunction(Holds([reservations EXCEPT ![k] = n])) =
                 SumFunction(Holds(reservations))
                   - (IF reservations[k].state = "open" THEN reservations[k].amount ELSE 0)
                   + (IF n.state = "open" THEN n.amount ELSE 0)
        BY <2>3, <3>1, HoldsAfterUpdate
      <4>2. reservations[k].state # "open"
        BY <1>2
      <4>3. QED
        BY <2>3, <3>2, <4>1, <4>2
    <3>5. QED
      BY <2>1, <3>3, <3>4
  <2>5. LedgerTypeOK'
    BY <1>2, <2>2, <2>4 DEF LedgerInv, LedgerTypeOK
  <2>6. OpenHolds' = OpenHolds + a
    BY <2>4, <2>5, TotalsAre DEF LedgerInv, Holds, OpenHolds
  <2>7. SettledDebits' = SettledDebits
    BY <1>2, TotalsStay
  <2>8. Solvent'
    <3>1. invoicing \/ a <= Available
      BY <1>2 DEF AdmitsHold
    <3>2. a <= Available => account.hold + a <= account.balance
      BY <2>1 DEF LedgerInv, LedgerTypeOK, Available
    <3>3. QED
      BY <1>2, <2>2, <3>1, <3>2 DEF Solvent
  <2>9. LedgerInv'
    BY <1>2, <2>2, <2>5, <2>6, <2>7, <2>8
       DEF LedgerInv, Conserved, HoldBacksOpenReservations
  <2>10. Rests
    BY <1>2 DEF AdmitsHold, Rests
  <2>11. OutcomesStay /\ ConsumesOnly({})
    <3>1. reservations \in [Keys -> Reservation]
      BY DEF LedgerInv, LedgerTypeOK
    <3>2. QED
      BY <1>2, <3>1 DEF OutcomesStay, ConsumesOnly
  <2>12. QED
    BY <2>9, <2>10, <2>11
<1>3. QED
  BY <1>1, <1>2 DEF Reserve

\* An open hold is dropped, whatever then becomes of the reservation.
LEMMA DropKeeps ==
    ASSUME LedgerInv, NEW k \in Keys, NEW st \in {"released", "consumed"},
           reservations[k].state = "open",
           account' = releaseHold(reservations[k].amount),
           reservations' = [reservations EXCEPT ![k].state = st],
           UNCHANGED <<invoicing, settled, movements, lines>>
    PROVE  /\ LedgerInv' /\ Rests /\ OutcomesStay
           /\ ConsumesOnly(IF st = "consumed" THEN {k} ELSE {})
<1> DEFINE a == reservations[k].amount
<1>1. reservations \in [Keys -> Reservation]
  BY DEF LedgerInv, LedgerTypeOK
<1>2. a \in Nat /\ a <= account.hold
  <2>1. a <= SumFunction(Holds(reservations)) /\ a \in Nat
    BY <1>1, HoldsAtLeast
  <2>2. QED
    BY <2>1, TotalsAre DEF LedgerInv, HoldBacksOpenReservations
<1> DEFINE n == [reservations[k] EXCEPT !.state = st]
<1>3. n \in Reservation /\ n.state # "open" /\ reservations' = [reservations EXCEPT ![k] = n]
  BY <1>1 DEF Reservation
<1> HIDE DEF a, n
<1>4. /\ account' \in [balance : Nat, hold : Nat, status : {"ACTIVE", "FROZEN"}]
      /\ account'.balance = account.balance /\ account'.hold = account.hold - a
      /\ account'.status = account.status
  <2>1. account \in [balance : Nat, hold : Nat, status : {"ACTIVE", "FROZEN"}]
    BY DEF LedgerInv, LedgerTypeOK
  <2>2. account' = [account EXCEPT !.hold = IF account.hold >= a THEN account.hold - a ELSE 0]
    BY DEF releaseHold, a
  <2>3. account.hold >= a /\ account.hold - a \in Nat
    BY <1>2, <2>1
  <2>4. account' = [account EXCEPT !.hold = account.hold - a]
    BY <2>2, <2>3
  <2>5. QED
    BY <2>1, <2>3, <2>4
<1>5. /\ reservations' \in [Keys -> Reservation]
      /\ SumFunction(Holds(reservations')) = SumFunction(Holds(reservations)) - a
  <2>1. SumFunction(Holds(reservations)) \in Nat
    BY TotalsAre DEF LedgerInv
  <2>2. /\ reservations' \in [Keys -> Reservation]
        /\ SumFunction(Holds(reservations')) = SumFunction(Holds(reservations)) - a + 0
    <3>1. /\ [reservations EXCEPT ![k] = n] \in [Keys -> Reservation]
          /\ SumFunction(Holds([reservations EXCEPT ![k] = n])) =
               SumFunction(Holds(reservations))
                 - (IF reservations[k].state = "open" THEN reservations[k].amount ELSE 0)
                 + (IF n.state = "open" THEN n.amount ELSE 0)
      BY <1>1, <1>3, HoldsAfterUpdate
    <3>2. QED
      BY <1>3, <3>1 DEF a
  <2>3. QED
    BY <1>2, <2>1, <2>2
<1>6. LedgerTypeOK'
  BY <1>4, <1>5 DEF LedgerInv, LedgerTypeOK
<1>7. OpenHolds' = OpenHolds - a
  BY <1>5, TotalsAre DEF LedgerInv, Holds, OpenHolds
<1>8. SettledDebits' = SettledDebits
  BY TotalsStay
<1>9. LedgerInv'
  <2>1. account.balance \in Nat /\ account.hold \in Nat
    BY DEF LedgerInv, LedgerTypeOK
  <2>2. Solvent'
    BY <1>2, <1>4, <2>1 DEF LedgerInv, Solvent
  <2>3. QED
    BY <1>4, <1>6, <1>7, <1>8, <2>2
       DEF LedgerInv, Conserved, HoldBacksOpenReservations
<1>10. Rests
  <2>1. account.hold \in Nat
    BY DEF LedgerInv, LedgerTypeOK
  <2>2. QED
    BY <1>2, <1>4, <2>1 DEF Rests
<1>11. OutcomesStay
  BY DEF OutcomesStay
<1>12. ConsumesOnly(IF st = "consumed" THEN {k} ELSE {})
  <2>1. n.state = st
    BY <1>1 DEF n, Reservation
  <2>2. QED
    BY <1>1, <1>3, <2>1 DEF ConsumesOnly
<1>13. QED
  BY <1>9, <1>10, <1>11, <1>12

\* Release, and the consumption of a reservation for a debit.
LEMMA ReleaseKeeps ==
    ASSUME LedgerInv, NEW k \in Keys, Release(k)
    PROVE  LedgerInv' /\ Rests /\ OutcomesStay /\ ConsumesOnly({})
<1>1. CASE UNCHANGED ledger
  BY <1>1, LedgerStutters
<1>2. CASE ~UNCHANGED ledger
  <2>1. /\ reservations[k].state = "open"
        /\ account' = releaseHold(reservations[k].amount)
        /\ reservations' = [reservations EXCEPT ![k].state = "released"]
        /\ UNCHANGED <<invoicing, settled, movements, lines>>
    BY <1>2 DEF Release
  <2>2. LedgerInv' /\ Rests /\ OutcomesStay
        /\ ConsumesOnly(IF "released" = "consumed" THEN {k} ELSE {})
    BY <2>1, DropKeeps
  <2>3. QED
    BY <2>2
<1>3. QED
  BY <1>1, <1>2

\* Only the reservation of the key that is settled is consumed.
LEMMA ConsumeKeeps ==
    ASSUME LedgerInv, NEW k \in Keys, consumeReservationForDebit(k)
    PROVE  LedgerInv' /\ Rests /\ OutcomesStay /\ ConsumesOnly({k})
<1>1. CASE UNCHANGED ledger
  BY <1>1, LedgerStutters DEF ConsumesOnly
<1>2. CASE ~UNCHANGED ledger
  <2>1. /\ reservations[k].state = "open"
        /\ account' = releaseHold(reservations[k].amount)
        /\ reservations' = [reservations EXCEPT ![k].state = "consumed"]
        /\ UNCHANGED <<invoicing, settled, movements, lines>>
    BY <1>2 DEF consumeReservationForDebit
  <2>2. LedgerInv' /\ Rests /\ OutcomesStay
        /\ ConsumesOnly(IF "consumed" = "consumed" THEN {k} ELSE {})
    BY <2>1, DropKeeps
  <2>3. QED
    BY <2>2
<1>3. QED
  BY <1>1, <1>2

\* The debit: funded, posted once, and the key has an outcome afterwards.
LEMMA CommitKeeps ==
    ASSUME LedgerInv, NEW k \in Keys, NEW q \in Amounts, NEW d \in Amounts \cup {0},
           commit(k, q, d)
    PROVE  /\ LedgerInv' /\ Rests /\ OutcomesStay /\ ConsumesOnly({})
           /\ settled'[k] # None /\ settled'[k] \in Receipt
<1>0. settled \in [Keys -> Receipt \cup {None}]
  BY DEF LedgerInv, LedgerTypeOK
<1>1. CASE settled[k] # None /\ UNCHANGED ledger
  BY <1>0, <1>1, LedgerStutters DEF ledger
<1>2. CASE /\ settled[k] = None
           /\ d > 0 /\ account.status = "ACTIVE" /\ d <= Available
           /\ Post(k, q, d)
  <2>1. d \in Amounts /\ d \in Nat
    BY <1>2, LedgerAssumption
  <2>2. d <= account.balance /\ d + account.hold <= account.balance
    BY <1>2, <2>1 DEF LedgerInv, LedgerTypeOK, Available
  <2>3. /\ account' \in [balance : Nat, hold : Nat, status : {"ACTIVE", "FROZEN"}]
        /\ account'.balance = account.balance - d /\ account'.hold = account.hold
    <3>1. account \in [balance : Nat, hold : Nat, status : {"ACTIVE", "FROZEN"}]
      BY DEF LedgerInv, LedgerTypeOK
    <3>2. account' = [account EXCEPT !.balance = account.balance - d]
      BY <1>2 DEF Post
    <3>3. account.balance - d \in Nat
      BY <2>1, <2>2, <3>1
    <3>4. QED
      BY <3>1, <3>2, <3>3
  <2>4. /\ lines' \in [credit : Nat, debit : Nat, accrual : Nat]
        /\ lines'.credit = lines.credit /\ lines'.debit = lines.debit + d
    <3>1. lines \in [credit : Nat, debit : Nat, accrual : Nat]
      BY DEF LedgerInv, LedgerTypeOK
    <3>2. lines' = [lines EXCEPT !.debit = lines.debit + d]
      BY <1>2 DEF Post
    <3>3. lines.debit + d \in Nat
      BY <2>1, <3>1
    <3>4. QED
      BY <3>1, <3>2, <3>3
  <2> DEFINE n == [quoted |-> q, debit |-> d]
  <2>5. n \in Receipt /\ n # None /\ n.debit = d
    BY <2>1, NoneAssumption DEF Receipt
  <2>6. settled' = [settled EXCEPT ![k] = n]
    BY <1>2 DEF Post
  <2>7. /\ settled' \in [Keys -> Receipt \cup {None}]
        /\ SumFunction(Debits(settled')) = SumFunction(Debits(settled)) + d
    <3>1. settled[k] = None
      BY <1>2
    <3> HIDE DEF n
    <3>2. /\ [settled EXCEPT ![k] = n] \in [Keys -> Receipt \cup {None}]
          /\ SumFunction(Debits([settled EXCEPT ![k] = n]))
               = SumFunction(Debits(settled)) + n.debit
      BY <1>0, <2>5, <3>1, DebitsAfterPost
    <3>3. QED
      BY <2>5, <2>6, <3>2
  <2> HIDE DEF n
  <2>8. LedgerTypeOK'
    BY <1>2, <2>3, <2>4, <2>7 DEF LedgerInv, LedgerTypeOK, Post
  <2>9. SettledDebits' = SettledDebits + d /\ SettledDebits \in Nat
    BY <2>7, TotalsAre DEF LedgerInv, Debits, SettledDebits
  <2>10. OpenHolds' = OpenHolds
    BY <1>2, TotalsStay DEF Post
  <2>11. Conserved'
    <3>1. /\ account.balance = Opening + lines.credit - SettledDebits
          /\ lines.debit = SettledDebits
      BY DEF LedgerInv, Conserved
    <3>2. lines.credit \in Nat /\ Opening \in Nat
      BY LedgerAssumption DEF LedgerInv, LedgerTypeOK
    <3>3. account.balance - d = Opening + lines.credit - (SettledDebits + d)
      BY <2>1, <2>9, <3>1, <3>2
    <3>4. QED
      BY <2>3, <2>4, <2>9, <3>1, <3>3 DEF Conserved
  <2>12. Solvent'
    <3>1. account.balance \in Nat /\ account.hold \in Nat
      BY DEF LedgerInv, LedgerTypeOK
    <3>2. account.hold <= account.balance - d
      BY <2>1, <2>2, <3>1
    <3>3. QED
      BY <2>3, <3>2 DEF Solvent
  <2>13. LedgerInv'
    BY <2>3, <2>8, <2>10, <2>11, <2>12 DEF LedgerInv, HoldBacksOpenReservations
  <2>14. Rests
    BY <1>2 DEF Rests
  <2>15. OutcomesStay /\ settled'[k] = n
    BY <1>0, <1>2, <2>6 DEF OutcomesStay
  <2>16. ConsumesOnly({})
    BY <1>2 DEF Post, ConsumesOnly
  <2>17. QED
    BY <2>5, <2>13, <2>14, <2>15, <2>16
<1>3. QED
  BY <1>1, <1>2 DEF commit

-----------------------------------------------------------------------------
(* The requests over the ledger *)

RunRow == [pc : PCs, key : Keys \cup {None}, quoted : Amounts \cup {0},
           cost : Amounts \cup {0}, answer : Answers,
           receipt : Receipt \cup {None}]
InProgress == {"quoted", "ready", "dispatched", "settling", "consumed"}

\* A request that has a quote and no answer yet knows its key and its ceiling.
RowOK(n) ==
    /\ n.pc \in InProgress => n.key \in Keys /\ n.quoted \in Amounts
    /\ n.pc \in InProgress \cup {"idle"} => n.answer = "none"
    /\ n.answer \in {"settled", "replayed"} => n.key \in Keys
RowsOK == \A r \in Requests : RowOK(run[r])

\* From the freeze to its answer, RecordPaymentFailure finds the account frozen.
PaymentOK ==
    /\ payment.pc \in {"frozen", "done"} => account.status = "FROZEN"
    /\ payment.pc = "done" => account.balance = payment.before

\* The inductive invariant of the gateway.
EngineInv ==
    /\ LedgerInv
    /\ run \in [Requests -> RunRow]
    /\ payment \in [pc : {"idle", "read", "frozen", "done", "error"}, before : Nat]
    /\ RowsOK
    /\ OneOutcomePerKey
    /\ ConsumedForDebit
    /\ PaymentOK

\* The initial states satisfy the invariant.
LEMMA EngineInvInit == Init => EngineInv
<1> SUFFICES ASSUME Init PROVE EngineInv
  OBVIOUS
<1>1. LedgerInv
  BY LedgerInvInit DEF Init
<1>2. Idle \in RunRow /\ RowOK(Idle) /\ Idle.answer = "none"
  BY DEF Idle, RunRow, RowOK, PCs, Answers, InProgress
<1>3. run \in [Requests -> RunRow] /\ RowsOK /\ OneOutcomePerKey
  <2>1. run = [r \in Requests |-> Idle]
    BY DEF Init, EngineInit
  <2> HIDE DEF Idle
  <2>2. QED
    BY <1>2, <2>1 DEF RowsOK, OneOutcomePerKey
<1>4. ConsumedForDebit
  BY DEF Init, LedgerInit, ConsumedForDebit
<1>5. PaymentOK /\ payment \in [pc : {"idle", "read", "frozen", "done", "error"}, before : Nat]
  BY DEF Init, EngineInit, PaymentOK
<1>6. QED
  BY <1>1, <1>3, <1>4, <1>5 DEF EngineInv

\* One request moves, over any step of the ledger that keeps outcomes and
\* consumes at most the reservation the request is about to commit.
LEMMA RequestKeeps ==
    ASSUME EngineInv, NEW r \in Requests, NEW n \in RunRow, NEW C,
           LedgerInv', Rests, OutcomesStay, ConsumesOnly(C),
           run' = [run EXCEPT ![r] = n], payment' = payment,
           RowOK(n),
           n.answer \in {"settled", "replayed"} =>
               n.receipt = settled'[n.key] /\ n.receipt # None,
           \A k \in C : n.key = k /\ n.pc = "consumed",
           run[r].pc \in InProgress \cup {"idle"},
           run[r].pc = "consumed" =>
               \/ settled'[run[r].key] # None
               \/ n.key = run[r].key /\ n.answer = "refused"
    PROVE  EngineInv'
<1>1. run \in [Requests -> RunRow] /\ run' \in [Requests -> RunRow]
  BY DEF EngineInv
<1>2. run'[r] = n /\ \A s \in Requests \ {r} : run'[s] = run[s]
  BY <1>1
<1>3. RowsOK'
  BY <1>2 DEF EngineInv, RowsOK
<1>4. OneOutcomePerKey'
  <2>1. ASSUME NEW s \in Requests, run'[s].answer \in {"settled", "replayed"}
        PROVE  run'[s].receipt = settled'[run'[s].key] /\ run'[s].receipt # None
    <3>1. CASE s = r
      BY <1>2, <2>1, <3>1
    <3>2. CASE s # r
      <4>1. run'[s] = run[s] /\ run[s].key \in Keys
        BY <1>2, <2>1, <3>2 DEF EngineInv, RowsOK, RowOK
      <4>2. run[s].receipt = settled[run[s].key] /\ run[s].receipt # None
        BY <2>1, <4>1 DEF EngineInv, OneOutcomePerKey
      <4>3. settled'[run[s].key] = settled[run[s].key]
        BY <4>1, <4>2 DEF OutcomesStay
      <4>4. QED
        BY <4>1, <4>2, <4>3
    <3>3. QED
      BY <3>1, <3>2
  <2>2. QED
    BY <2>1 DEF OneOutcomePerKey
<1>5. ConsumedForDebit'
  <2> DEFINE W(s, k) == run'[s].key = k
               /\ (run'[s].pc = "consumed" \/ run'[s].answer = "refused")
  <2>1. ASSUME NEW k \in Keys, reservations'[k].state = "consumed"
        PROVE  settled'[k] # None \/ \E s \in Requests : W(s, k)
    <3>1. CASE k \in C
      BY <1>2, <3>1
    <3>2. CASE k \notin C
      <4>1. reservations[k].state = "consumed"
        BY <2>1, <3>2 DEF ConsumesOnly
      <4>2. CASE settled[k] # None
        BY <4>2 DEF OutcomesStay
      <4>3. CASE \E s \in Requests : run[s].key = k
                   /\ (run[s].pc = "consumed" \/ run[s].answer = "refused")
        <5>1. PICK s \in Requests : run[s].key = k
                   /\ (run[s].pc = "consumed" \/ run[s].answer = "refused")
          BY <4>3
        <5>2. CASE s # r
          BY <1>2, <5>1, <5>2
        <5>3. CASE s = r
          <6>1. run[r].answer = "none"
            BY DEF EngineInv, RowsOK, RowOK
          <6>2. run[r].pc = "consumed" /\ run[r].key = k
            BY <5>1, <5>3, <6>1
          <6>3. QED
            BY <1>2, <6>2
        <5>4. QED
          BY <5>2, <5>3
      <4>4. QED
        BY <4>1, <4>2, <4>3 DEF EngineInv, ConsumedForDebit
    <3>3. QED
      BY <3>1, <3>2
  <2>2. QED
    BY <2>1 DEF ConsumedForDebit
<1>6. PaymentOK'
  BY DEF EngineInv, PaymentOK, Rests
<1>7. QED
  BY <1>1, <1>3, <1>4, <1>5, <1>6 DEF EngineInv

\* A request ends before its commit, over such a step of the ledger.
LEMMA EndKeeps ==
    ASSUME EngineInv, NEW r \in Requests, End(r), payment' = payment,
           LedgerInv', Rests, OutcomesStay, ConsumesOnly({}),
           run[r].pc \in {"idle", "quoted", "ready", "dispatched"}
    PROVE  EngineInv'
<1>1. PICK n : n = [Idle EXCEPT !.pc = "done", !.answer = "ended"]
  OBVIOUS
<1>2. n \in RunRow /\ n.pc = "done" /\ n.answer = "ended"
  BY <1>1 DEF Idle, RunRow, PCs, Answers
<1>3. run' = [run EXCEPT ![r] = n]
  BY <1>1 DEF End
<1>4. RowOK(n)
  BY <1>2 DEF RowOK, InProgress
<1>5. run[r].pc \in InProgress \cup {"idle"} /\ run[r].pc # "consumed"
  BY DEF InProgress
<1>6. QED
  BY <1>2, <1>3, <1>4, <1>5, RequestKeeps

\* A request moves on with its quote, over such a step of the ledger.
LEMMA AdvanceKeeps ==
    ASSUME EngineInv, NEW r \in Requests, NEW pc \in InProgress, Advance(r, pc),
           NEW C, \A k \in C : run[r].key = k /\ pc = "consumed",
           payment' = payment, LedgerInv', Rests, OutcomesStay, ConsumesOnly(C),
           run[r].pc \in InProgress, run[r].pc # "consumed"
    PROVE  EngineInv'
<1>1. run[r] \in RunRow /\ RowOK(run[r])
  BY DEF EngineInv, RowsOK
<1>2. PICK n : n = [run[r] EXCEPT !.pc = pc]
  OBVIOUS
<1>3. /\ n \in RunRow /\ n.pc = pc /\ n.key = run[r].key /\ n.quoted = run[r].quoted
      /\ n.answer = run[r].answer
  BY <1>1, <1>2 DEF RunRow, PCs, InProgress
<1>4. run' = [run EXCEPT ![r] = n]
  BY <1>2 DEF Advance
<1>5. RowOK(n) /\ n.answer = "none"
  BY <1>1, <1>3 DEF RowOK
<1>6. \A k \in C : n.key = k /\ n.pc = "consumed"
  BY <1>3
<1>7. QED
  BY <1>3, <1>4, <1>5, <1>6, RequestKeeps

\* Every step of a request preserves the invariant and lets a frozen account rest.
LEMMA GatewayKeeps ==
    ASSUME EngineInv, NEW r \in Requests, Gateway(r)
    PROVE  EngineInv' /\ Rests
<1>0. LedgerInv /\ run[r] \in RunRow /\ RowOK(run[r])
  BY DEF EngineInv, RowsOK
<1>1. UNCHANGED ledger => LedgerInv' /\ Rests /\ OutcomesStay /\ ConsumesOnly({})
  BY <1>0, LedgerStutters
<1>2. ASSUME NEW k \in Keys, NEW q \in Amounts, Quote(r, k, q)
      PROVE  EngineInv' /\ Rests
  <2>1. PICK n : n = [run[r] EXCEPT !.pc = "quoted", !.key = k, !.quoted = q]
    OBVIOUS
  <2>2. /\ n \in RunRow /\ n.pc = "quoted" /\ n.key = k /\ n.quoted = q
        /\ n.answer = run[r].answer
    BY <1>0, <2>1 DEF RunRow, PCs
  <2>3. run' = [run EXCEPT ![r] = n] /\ payment' = payment /\ run[r].pc = "idle"
    BY <1>2, <2>1 DEF Quote
  <2>4. RowOK(n) /\ n.answer = "none"
    BY <1>0, <2>2, <2>3 DEF RowOK
  <2>5. LedgerInv' /\ Rests /\ OutcomesStay /\ ConsumesOnly({})
    BY <1>1, <1>2 DEF Quote
  <2>6. QED
    BY <2>2, <2>3, <2>4, <2>5, RequestKeeps
<1>3. CASE QuoteRejected(r) \/ DispatchFails(r)
  <2>1. End(r) /\ payment' = payment /\ UNCHANGED ledger
        /\ run[r].pc \in {"idle", "quoted", "ready"}
    BY <1>3 DEF QuoteRejected, DispatchFails
  <2>2. QED
    BY <1>1, <2>1, EndKeeps
<1>4. CASE ReserveForDispatch(r)
  <2>1. run[r].pc = "quoted" /\ payment' = payment
    BY <1>4 DEF ReserveForDispatch
  <2>2. CASE Reserve(run[r].key, run[r].quoted) /\ Advance(r, "ready")
    <3>1. run[r].key \in Keys /\ run[r].quoted \in Amounts
      BY <1>0, <2>1 DEF RowOK, InProgress
    <3>2. LedgerInv' /\ Rests /\ OutcomesStay /\ ConsumesOnly({})
      BY <1>0, <2>2, <3>1, ReserveKeeps
    <3>3. "ready" \in InProgress /\ run[r].pc \in InProgress /\ run[r].pc # "consumed"
      BY <2>1 DEF InProgress
    <3>4. QED
      BY <2>1, <2>2, <3>2, <3>3, AdvanceKeeps
  <2>3. CASE End(r) /\ UNCHANGED ledger
    BY <1>1, <2>1, <2>3, EndKeeps
  <2>4. QED
    BY <1>4, <2>2, <2>3 DEF ReserveForDispatch
<1>5. CASE Dispatch(r)
  <2>1. /\ Advance(r, "dispatched") /\ payment' = payment /\ UNCHANGED ledger
        /\ run[r].pc \in InProgress /\ run[r].pc # "consumed" /\ "dispatched" \in InProgress
    BY <1>5 DEF Dispatch, InProgress
  <2>2. QED
    BY <1>1, <2>1, AdvanceKeeps
<1>6. CASE ReleaseReservation(r)
  <2>1. run[r].pc \in {"ready", "dispatched"} /\ End(r) /\ payment' = payment
    BY <1>6 DEF ReleaseReservation
  <2>2. run[r].key \in Keys
    BY <1>0, <2>1 DEF RowOK, InProgress
  <2>3. LedgerInv' /\ Rests /\ OutcomesStay /\ ConsumesOnly({})
    BY <1>0, <1>1, <1>6, <2>2, ReleaseKeeps DEF ReleaseReservation
  <2>4. QED
    BY <2>1, <2>3, EndKeeps
<1>7. ASSUME NEW c \in Amounts \cup {0}, Lookup(r, c)
      PROVE  EngineInv' /\ Rests
  <2>1. run[r].pc = "dispatched" /\ payment' = payment /\ UNCHANGED ledger
    BY <1>7 DEF Lookup
  <2>2. run[r].key \in Keys /\ run[r].quoted \in Amounts /\ run[r].answer = "none"
    BY <1>0, <2>1 DEF RowOK, InProgress
  <2>3. LedgerInv' /\ Rests /\ OutcomesStay /\ ConsumesOnly({})
    BY <1>1, <2>1
  <2>4. CASE End(r)
    BY <2>1, <2>3, <2>4, EndKeeps
  <2>5. ASSUME settled[run[r].key] # None,
               Finish(r, "done", "replayed", settled[run[r].key])
        PROVE  EngineInv'
    <3>1. settled[run[r].key] \in Receipt /\ settled' = settled
      BY <1>0, <2>1, <2>2, <2>5 DEF LedgerInv, LedgerTypeOK, ledger
    <3>2. PICK n : n = [Idle EXCEPT !.pc = "done", !.key = run[r].key,
                          !.answer = "replayed", !.receipt = settled[run[r].key]]
      OBVIOUS
    <3>3. /\ n \in RunRow /\ n.pc = "done" /\ n.key = run[r].key
          /\ n.answer = "replayed" /\ n.receipt = settled[run[r].key]
      BY <2>2, <3>1, <3>2 DEF Idle, RunRow, PCs, Answers
    <3>4. run' = [run EXCEPT ![r] = n]
      BY <2>5, <3>2 DEF Finish
    <3>5. RowOK(n) /\ n.receipt = settled'[n.key] /\ n.receipt # None
      BY <2>2, <2>5, <3>1, <3>3 DEF RowOK, InProgress
    <3>6. run[r].pc \in InProgress \cup {"idle"} /\ run[r].pc # "consumed"
      BY <2>1 DEF InProgress
    <3>7. QED
      BY <2>1, <2>3, <3>3, <3>4, <3>5, <3>6, RequestKeeps
  <2>6. ASSUME NEW a \in Amounts \cup {0},
               run' = [run EXCEPT ![r] = [run[r] EXCEPT !.pc = "settling", !.cost = a]]
        PROVE  EngineInv'
    <3>1. PICK n : n = [run[r] EXCEPT !.pc = "settling", !.cost = a]
      OBVIOUS
    <3>2. /\ n \in RunRow /\ n.pc = "settling" /\ n.key = run[r].key
          /\ n.quoted = run[r].quoted /\ n.answer = run[r].answer
      BY <1>0, <3>1 DEF RunRow, PCs
    <3>3. run' = [run EXCEPT ![r] = n]
      BY <2>6, <3>1
    <3>4. RowOK(n) /\ n.answer = "none"
      BY <2>2, <3>2 DEF RowOK
    <3>5. run[r].pc \in InProgress \cup {"idle"} /\ run[r].pc # "consumed"
      BY <2>1 DEF InProgress
    <3>6. QED
      BY <2>1, <2>3, <3>2, <3>3, <3>4, <3>5, RequestKeeps
  <2>7. CASE run' = [run EXCEPT ![r] = [run[r] EXCEPT !.pc = "settling", !.cost = c]]
    BY <2>3, <2>6, <2>7
  <2>8. CASE run' = [run EXCEPT ![r] = [run[r] EXCEPT !.pc = "settling",
                                                       !.cost = run[r].quoted]]
    <3>1. PICK a \in Amounts \cup {0} : a = run[r].quoted
      BY <2>2
    <3>2. QED
      BY <2>3, <2>6, <2>8, <3>1
  <2>9. QED
    BY <1>7, <2>3, <2>4, <2>5, <2>7, <2>8 DEF Lookup
<1>8. CASE Consume(r)
  <2>1. /\ run[r].pc = "settling" /\ payment' = payment
        /\ consumeReservationForDebit(run[r].key) /\ Advance(r, "consumed")
    BY <1>8 DEF Consume
  <2>2. PICK k \in Keys : k = run[r].key
    BY <1>0, <2>1 DEF RowOK, InProgress
  <2>3. LedgerInv' /\ Rests /\ OutcomesStay /\ ConsumesOnly({k})
    BY <1>0, <2>1, <2>2, ConsumeKeeps
  <2>4. "consumed" \in InProgress /\ run[r].pc \in InProgress /\ run[r].pc # "consumed"
    BY <2>1 DEF InProgress
  <2>5. \A j \in {k} : run[r].key = j /\ "consumed" = "consumed"
    BY <2>2
  <2>6. QED
    BY <2>1, <2>3, <2>4, <2>5, AdvanceKeeps
<1>9. CASE Commit(r)
  <2>1. run[r].pc = "consumed" /\ payment' = payment
    BY <1>9 DEF Commit
  <2>2. /\ run[r].key \in Keys /\ run[r].quoted \in Amounts
        /\ run[r].cost \in Amounts \cup {0}
    BY <1>0, <2>1 DEF RowOK, InProgress, RunRow
  <2>3. run[r].pc \in InProgress \cup {"idle"}
    BY <2>1 DEF InProgress
  <2>4. ASSUME commit(run[r].key, run[r].quoted, run[r].cost),
               Finish(r, "settled", "settled", settled'[run[r].key])
        PROVE  EngineInv' /\ Rests
    <3>1. /\ LedgerInv' /\ Rests /\ OutcomesStay /\ ConsumesOnly({})
          /\ settled'[run[r].key] # None /\ settled'[run[r].key] \in Receipt
      BY <1>0, <2>2, <2>4, CommitKeeps
    <3>2. PICK n : n = [Idle EXCEPT !.pc = "settled", !.key = run[r].key,
                          !.answer = "settled", !.receipt = settled'[run[r].key]]
      OBVIOUS
    <3>3. /\ n \in RunRow /\ n.pc = "settled" /\ n.key = run[r].key
          /\ n.answer = "settled" /\ n.receipt = settled'[run[r].key]
      BY <2>2, <3>1, <3>2 DEF Idle, RunRow, PCs, Answers
    <3>4. run' = [run EXCEPT ![r] = n]
      BY <2>4, <3>2 DEF Finish
    <3>5. RowOK(n) /\ n.receipt = settled'[n.key] /\ n.receipt # None
      BY <2>2, <3>1, <3>3 DEF RowOK, InProgress
    <3>6. QED
      BY <2>1, <2>3, <3>1, <3>3, <3>4, <3>5, RequestKeeps
  <2>5. ASSUME Finish(r, "done", "refused", None), UNCHANGED ledger
        PROVE  EngineInv' /\ Rests
    <3>1. LedgerInv' /\ Rests /\ OutcomesStay /\ ConsumesOnly({})
      BY <1>1, <2>5
    <3>2. PICK n : n = [Idle EXCEPT !.pc = "done", !.key = run[r].key,
                          !.answer = "refused", !.receipt = None]
      OBVIOUS
    <3>3. /\ n \in RunRow /\ n.pc = "done" /\ n.key = run[r].key
          /\ n.answer = "refused"
      BY <2>2, <3>2 DEF Idle, RunRow, PCs, Answers
    <3>4. run' = [run EXCEPT ![r] = n]
      BY <2>5, <3>2 DEF Finish
    <3>5. RowOK(n)
      BY <3>3 DEF RowOK, InProgress
    <3>6. QED
      BY <2>1, <2>3, <3>1, <3>3, <3>4, <3>5, RequestKeeps
  <2>6. QED
    BY <1>9, <2>4, <2>5 DEF Commit
<1>10. QED
  BY <1>2, <1>3, <1>4, <1>5, <1>6, <1>7, <1>8, <1>9 DEF Gateway

\* The operator's and the payment handler's steps leave the requests alone.
LEMMA OthersKeep ==
    ASSUME EngineInv, Operator \/ Payment
    PROVE  EngineInv' /\ Rests
<1>1. run' = run
  BY DEF Operator, Payment, PaymentRead, PaymentFreeze, PaymentCheck, engine
<1>2. LedgerInv' /\ Rests /\ OutcomesStay /\ ConsumesOnly({})
  <2>1. CASE UNCHANGED ledger
    BY <2>1, LedgerStutters DEF EngineInv
  <2>2. CASE \/ EnableEnterpriseInvoicing
             \/ \E mk \in MovementKeys, a \in Credits :
                  creditMovement(mk, a) \/ Accrue(mk, a)
             \/ ApplyFreeze
    BY <2>2, OperatorKeeps DEF EngineInv
  <2>3. QED
    BY <2>1, <2>2 DEF Operator, Payment, PaymentRead, PaymentFreeze, PaymentCheck
<1>3. OneOutcomePerKey'
  <2>1. ASSUME NEW s \in Requests, run[s].answer \in {"settled", "replayed"}
        PROVE  run[s].receipt = settled'[run[s].key] /\ run[s].receipt # None
    <3>1. run[s].key \in Keys /\ run[s].receipt = settled[run[s].key]
          /\ run[s].receipt # None
      BY <2>1 DEF EngineInv, RowsOK, RowOK, OneOutcomePerKey
    <3>2. QED
      BY <1>2, <3>1 DEF OutcomesStay
  <2>2. QED
    BY <1>1, <2>1 DEF OneOutcomePerKey
<1>4. ConsumedForDebit'
  <2>1. ASSUME NEW k \in Keys, reservations'[k].state = "consumed"
        PROVE  \/ settled'[k] # None
               \/ \E s \in Requests : run[s].key = k
                    /\ (run[s].pc = "consumed" \/ run[s].answer = "refused")
    BY <1>2, <2>1 DEF ConsumesOnly, OutcomesStay, EngineInv, ConsumedForDebit
  <2>2. QED
    BY <1>1, <2>1 DEF ConsumedForDebit
<1>5. /\ payment' \in [pc : {"idle", "read", "frozen", "done", "error"}, before : Nat]
      /\ PaymentOK'
  <2>1. payment \in [pc : {"idle", "read", "frozen", "done", "error"}, before : Nat]
    BY DEF EngineInv
  <2>2. CASE payment' = payment
    BY <1>2, <2>1, <2>2 DEF Rests, EngineInv, PaymentOK
  <2>3. CASE PaymentRead
    <3>1. account.balance \in Nat
      BY DEF EngineInv, LedgerInv, LedgerTypeOK
    <3>2. QED
      BY <2>1, <2>3, <3>1 DEF PaymentRead, PaymentOK
  <2>4. CASE PaymentFreeze
    <3>1. account'.status = "FROZEN"
      BY <2>4 DEF PaymentFreeze, ApplyFreeze, EngineInv, LedgerInv, LedgerTypeOK
    <3>2. QED
      BY <2>1, <2>4, <3>1 DEF PaymentFreeze, PaymentOK
  <2>5. CASE PaymentCheck
    <3>1. account' = account /\ payment.pc = "frozen" /\ account.status = "FROZEN"
      BY <2>5 DEF PaymentCheck, ledger, EngineInv, PaymentOK
    <3>2. QED
      BY <2>1, <2>5, <3>1 DEF PaymentCheck, PaymentOK
  <2>6. QED
    BY <2>2, <2>3, <2>4, <2>5 DEF Operator, Payment, engine
<1>6. QED
  BY <1>1, <1>2, <1>3, <1>4, <1>5 DEF EngineInv, RowsOK

\* Every step of the gateway, and a stuttering step.
LEMMA NextKeeps ==
    ASSUME EngineInv, [Next]_vars
    PROVE  EngineInv' /\ (Rests \/ UNCHANGED vars)
<1>1. CASE UNCHANGED vars
  <2>1. UNCHANGED ledger /\ run' = run /\ payment' = payment
    BY <1>1 DEF vars, engine
  <2>2. LedgerInv' /\ settled' = settled /\ reservations' = reservations
        /\ account' = account
    BY <2>1, LedgerStutters DEF EngineInv, ledger
  <2>3. QED
    BY <1>1, <2>1, <2>2
       DEF EngineInv, RowsOK, OneOutcomePerKey, ConsumedForDebit, PaymentOK
<1>2. QED
  BY <1>1, GatewayKeeps, OthersKeep DEF Next

-----------------------------------------------------------------------------
(* Theorems *)

\* EngineInv holds in every reachable state.
THEOREM EngineInvariant == Spec => []EngineInv
<1>1. Init => EngineInv
  BY EngineInvInit
<1>2. EngineInv /\ [Next]_vars => EngineInv'
  BY NextKeeps
<1>3. QED
  BY <1>1, <1>2, PTL DEF Spec

\* The ledger, the requests and the payment handler keep their types; the
\* balance never becomes negative.
THEOREM EngineTypes == Spec => []TypeOK
<1>1. EngineInv => TypeOK
  BY DEF EngineInv, LedgerInv, TypeOK, RunRow
<1>2. QED
  BY <1>1, EngineInvariant, PTL

\* The balance is the opening balance plus the credits minus exactly one debit
\* per settled key, for every number of requests racing to settle it.
THEOREM EngineConserves == Spec => []Conserved
<1>1. EngineInv => Conserved
  BY DEF EngineInv, LedgerInv
<1>2. QED
  BY <1>1, EngineInvariant, PTL

\* HoldCents is the sum of the open reservations: the clamp of releaseHoldLocked
\* at zero is never reached.
THEOREM EngineHoldsBacked == Spec => []HoldBacksOpenReservations
<1>1. EngineInv => HoldBacksOpenReservations
  BY DEF EngineInv, LedgerInv
<1>2. QED
  BY <1>1, EngineInvariant, PTL

\* Without enterprise invoicing what is held never exceeds the balance.
THEOREM EngineSolvent == Spec => []Solvent
<1>1. EngineInv => Solvent
  BY DEF EngineInv, LedgerInv
<1>2. QED
  BY <1>1, EngineInvariant, PTL

\* Every caller told of a settlement of a key has the receipts that were debited.
THEOREM EngineOneOutcome == Spec => []OneOutcomePerKey
<1>1. EngineInv => OneOutcomePerKey
  BY DEF EngineInv
<1>2. QED
  BY <1>1, EngineInvariant, PTL

\* No reservation is consumed but for a debit or its refused commit.
THEOREM EngineConsumes == Spec => []ConsumedForDebit
<1>1. EngineInv => ConsumedForDebit
  BY DEF EngineInv
<1>2. QED
  BY <1>1, EngineInvariant, PTL

\* RecordPaymentFailure answers only over an account frozen at the balance it read.
THEOREM EnginePaymentFreezes == Spec => []PaymentFailureFreezes
<1>1. EngineInv => PaymentFailureFreezes
  BY DEF EngineInv, PaymentOK, PaymentFailureFreezes
<1>2. QED
  BY <1>1, EngineInvariant, PTL

\* A frozen account stays frozen, keeps its balance and gains no hold.
THEOREM EngineFrozenRests == Spec => FrozenAccountRests
<1>1. EngineInv /\ [Next]_vars =>
        [account.status = "FROZEN" =>
           /\ account'.status = "FROZEN"
           /\ account'.balance = account.balance
           /\ account'.hold <= account.hold]_vars
  BY NextKeeps DEF Rests
<1>2. QED
  BY <1>1, EngineInvariant, PTL DEF Spec, FrozenAccountRests
=============================================================================

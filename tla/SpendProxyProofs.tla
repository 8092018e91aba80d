-------------------------- MODULE SpendProxyProofs --------------------------
(***************************************************************************)
(* Proofs about SpendProxy: every provider call has its quote on disk, and *)
(* what was acknowledged with its receipts on disk is known to, and spent  *)
(* in, every later process, for any number of requests, keys, failed       *)
(* appends and restarts.                                                   *)
(***************************************************************************)
EXTENDS SpendProxy, InferenceEngineProofs

-----------------------------------------------------------------------------
(* The inductive invariant *)

ProxyRow == [pc : PCs \cup {"usage", "lost"}, key : Keys \cup {None},
             quoted : Amounts \cup {0}, cost : Amounts \cup {0},
             answer : Answers, receipt : Receipt \cup {None}]
Working == {"quoted", "ready", "dispatched", "settling", "consumed", "settled", "usage"}

\* The handlers do not reserve, so nothing is held and nothing is frozen.
ProxyTypes ==
    /\ account \in [balance : Nat, hold : {0}, status : {"ACTIVE"}]
    /\ settled \in [Keys -> Receipt \cup {None}]
    /\ \A k \in Keys : reservations[k].state = "none"
    /\ run \in [Requests -> ProxyRow]
    /\ log \in [Keys -> [Kinds -> Seq(Receipt)]]
    /\ quotes \in [Keys -> Nat] /\ sent \in [Keys -> Nat]
    /\ durable \in [Requests -> BOOLEAN]
    /\ up \in {"up", "down", "refused"}

\* The last line of a kind of a key carries this receipt.
Recorded(kind, k, x) == log[k][kind] # <<>> /\ Last(log[k][kind]) = x

\* A request works only in a process that is up.  Once it is committed, its
\* receipts are those of the ledger, and what it has appended, whoever else has
\* appended for the key, ends in them; they stay so when it is acknowledged, and
\* every process that is up has them in its index.
RequestOK(r, n, kept) ==
    /\ n.pc \in Working => up = "up" /\ n.key \in Keys
    /\ n.pc \in Working \ {"settled", "usage"} => n.quoted \in Amounts
    /\ n.pc \in {"settled", "usage"} =>
         n.answer = "settled" /\ n.receipt \in Receipt /\ settled[n.key] = n.receipt
    /\ n.pc = "usage" /\ kept => Recorded("usage", n.key, n.receipt)
    /\ n.pc = "done" /\ n.answer = "settled" /\ kept =>
         /\ n.key \in Keys /\ n.receipt \in Receipt
         /\ \A kind \in Kinds : Recorded(kind, n.key, n.receipt)
         /\ up = "up" => settled[n.key] = n.receipt

\* Requests whose quote is on disk and that have not called the provider yet.
Ready(k) == {r \in Requests : run[r].pc = "ready" /\ run[r].key = k}

QuotesCover ==
    \A k \in Keys : /\ IsFiniteSet(Ready(k))
                    /\ sent[k] + Cardinality(Ready(k)) <= quotes[k]

\* What the index says was debited has left the balance.
DebitsLeft == up = "up" => account.balance + SettledDebits <= Opening

ProxyInv ==
    /\ ProxyTypes
    /\ \A r \in Requests : RequestOK(r, run[r], durable[r])
    /\ QuotesCover
    /\ DebitsLeft
-----------------------------------------------------------------------------
(* One step of one request *)

\* The proxy starts with an empty log and nothing taken off the balance.
LEMMA ProxyInvInit == ProxyInit => ProxyInv
<1> SUFFICES ASSUME ProxyInit PROVE ProxyInv
  OBVIOUS
<1>1. /\ run = [r \in Requests |-> Idle] /\ settled = [k \in Keys |-> None]
      /\ account = NewBalanceLedger(Opening) /\ up = "up"
      /\ quotes = [k \in Keys |-> 0] /\ sent = [k \in Keys |-> 0]
  BY DEF ProxyInit, LedgerInit, EngineInit
<1>2. Idle \in ProxyRow /\ Idle.pc = "idle"
  BY DEF Idle, ProxyRow, PCs, Answers
<1>3. log \in [Keys -> [Kinds -> Seq(Receipt)]]
  BY DEF ProxyInit
<1>4. /\ account \in [balance : Nat, hold : {0}, status : {"ACTIVE"}]
      /\ account.balance = Opening
  BY <1>1, LedgerAssumption DEF NewBalanceLedger
<1>5. \A k \in Keys : reservations[k].state = "none"
  BY DEF ProxyInit, LedgerInit
<1>6. ProxyTypes
  BY <1>1, <1>2, <1>3, <1>4, <1>5 DEF ProxyTypes, ProxyInit
<1>7. \A r \in Requests : RequestOK(r, run[r], durable[r])
  BY <1>1, <1>2 DEF RequestOK, Working
<1>8. QuotesCover
  <2>1. \A k \in Keys : Ready(k) = {}
    BY <1>1, <1>2 DEF Ready
  <2>2. IsFiniteSet({}) /\ Cardinality({}) = 0
    BY FS_EmptySet
  <2>3. QED
    BY <1>1, <2>1, <2>2 DEF QuotesCover
<1>9. DebitsLeft
  <2>1. [k \in Keys |-> IF settled[k] = None THEN 0 ELSE settled[k].debit]
          = [k \in Keys |-> 0]
    BY <1>1
  <2>2. SettledDebits = 0
    BY <2>1, SumZero, LedgerAssumption DEF SettledDebits
  <2>3. QED
    BY <1>4, <2>2, LedgerAssumption DEF DebitsLeft
<1>10. QED
  BY <1>6, <1>7, <1>8, <1>9 DEF ProxyInv

\* The requests about to call the provider after one request has moved.
LEMMA ReadyMoves ==
    ASSUME ProxyInv, NEW r \in Requests, NEW n \in ProxyRow,
           run' = [run EXCEPT ![r] = n], NEW k \in Keys
    PROVE  Ready(k)' = (Ready(k) \ {r})
                         \cup (IF n.pc = "ready" /\ n.key = k THEN {r} ELSE {})
<1>1. run'[r] = n /\ \A q \in Requests \ {r} : run'[q] = run[q]
  BY DEF ProxyInv, ProxyTypes
<1>2. QED
  BY <1>1 DEF Ready

\* A request moves outside the window between its quote and its call.
LEMMA QuotesStay ==
    ASSUME ProxyInv, NEW r \in Requests, NEW n \in ProxyRow,
           run' = [run EXCEPT ![r] = n], run[r].pc # "ready", n.pc # "ready",
           sent' = sent, quotes' \in [Keys -> Nat],
           \A k \in Keys : quotes[k] <= quotes'[k]
    PROVE  QuotesCover'
<1> SUFFICES ASSUME NEW k \in Keys
             PROVE  /\ IsFiniteSet(Ready(k)')
                    /\ sent'[k] + Cardinality(Ready(k)') <= quotes'[k]
  BY DEF QuotesCover
<1>1. Ready(k)' = Ready(k)
  <2>1. Ready(k)' = (Ready(k) \ {r})
                      \cup (IF n.pc = "ready" /\ n.key = k THEN {r} ELSE {})
    BY ReadyMoves
  <2>2. r \notin Ready(k)
    BY DEF Ready
  <2>3. QED
    BY <2>1, <2>2
<1>2. IsFiniteSet(Ready(k)) /\ sent[k] + Cardinality(Ready(k)) <= quotes[k]
  BY DEF ProxyInv, QuotesCover
<1>3. sent[k] \in Nat /\ quotes[k] \in Nat /\ quotes'[k] \in Nat /\ quotes[k] <= quotes'[k]
  BY DEF ProxyInv, ProxyTypes
<1>4. Cardinality(Ready(k)) \in Nat
  BY <1>2, FS_CardinalityType
<1>5. sent[k] + Cardinality(Ready(k)) <= quotes'[k]
  BY <1>2, <1>3, <1>4
<1>6. QED
  BY <1>1, <1>2, <1>5

\* A request moves and leaves the ledger and its log alone.
LEMMA MoveKeeps ==
    ASSUME ProxyInv, NEW r \in Requests, NEW n \in ProxyRow,
           run' = [run EXCEPT ![r] = n],
           UNCHANGED <<account, settled, reservations, log, up, durable>>,
           RequestOK(r, n, durable[r]), QuotesCover',
           quotes' \in [Keys -> Nat], sent' \in [Keys -> Nat]
    PROVE  ProxyInv'
<1>1. /\ run' \in [Requests -> ProxyRow] /\ run'[r] = n
      /\ \A q \in Requests \ {r} : run'[q] = run[q]
  BY DEF ProxyInv, ProxyTypes
<1>2. ProxyTypes'
  BY <1>1 DEF ProxyInv, ProxyTypes
<1>3. DebitsLeft'
  BY DEF ProxyInv, DebitsLeft, SettledDebits
<1>4. ASSUME NEW q \in Requests PROVE RequestOK(q, run[q], durable[q])'
  <2>1. RequestOK(q, run'[q], durable[q])
    BY <1>1 DEF ProxyInv
  <2>2. QED
    BY <2>1 DEF RequestOK, Recorded
<1>5. QED
  BY <1>2, <1>3, <1>4 DEF ProxyInv

\* The rows a request moves to.
LEMMA ProxyRows ==
    ASSUME NEW r \in Requests, run[r] \in ProxyRow
    PROVE  /\ \A pc \in PCs \cup {"usage"} :
                LET n == [run[r] EXCEPT !.pc = pc] IN
                /\ n \in ProxyRow /\ n.pc = pc /\ n.key = run[r].key
                /\ n.quoted = run[r].quoted /\ n.cost = run[r].cost
                /\ n.answer = run[r].answer /\ n.receipt = run[r].receipt
           /\ LET n == [Idle EXCEPT !.pc = "done", !.answer = "ended"] IN
                n \in ProxyRow /\ n.pc = "done" /\ n.answer = "ended"
           /\ \A pc \in PCs, answer \in Answers, receipt \in Receipt \cup {None} :
                LET n == [Idle EXCEPT !.pc = pc, !.key = run[r].key,
                                      !.answer = answer, !.receipt = receipt] IN
                /\ n \in ProxyRow /\ n.pc = pc /\ n.key = run[r].key
                /\ n.answer = answer /\ n.receipt = receipt
<1>1. ASSUME NEW pc \in PCs \cup {"usage"}
      PROVE  LET n == [run[r] EXCEPT !.pc = pc] IN
             /\ n \in ProxyRow /\ n.pc = pc /\ n.key = run[r].key
             /\ n.quoted = run[r].quoted /\ n.cost = run[r].cost
             /\ n.answer = run[r].answer /\ n.receipt = run[r].receipt
  BY DEF ProxyRow
<1>2. LET n == [Idle EXCEPT !.pc = "done", !.answer = "ended"] IN
      n \in ProxyRow /\ n.pc = "done" /\ n.answer = "ended"
  BY DEF ProxyRow, Idle, PCs, Answers
<1>3. ASSUME NEW pc \in PCs, NEW answer \in Answers, NEW receipt \in Receipt \cup {None}
      PROVE  LET n == [Idle EXCEPT !.pc = pc, !.key = run[r].key,
                                   !.answer = answer, !.receipt = receipt] IN
             /\ n \in ProxyRow /\ n.pc = pc /\ n.key = run[r].key
             /\ n.answer = answer /\ n.receipt = receipt
  BY DEF ProxyRow, Idle
<1>4. QED
  BY <1>1, <1>2, <1>3

\* A request ends before its commit.
LEMMA EndsWell ==
    ASSUME ProxyInv, NEW r \in Requests, End(r),
           UNCHANGED <<account, settled, reservations, log, up, durable>>,
           quotes' \in [Keys -> Nat], sent' \in [Keys -> Nat],
           \/ QuotesCover'
           \/ /\ run[r].pc # "ready" /\ sent' = sent
              /\ \A k \in Keys : quotes[k] <= quotes'[k]
    PROVE  ProxyInv'
<1>1. PICK n : n = [Idle EXCEPT !.pc = "done", !.answer = "ended"]
  OBVIOUS
<1>2. n \in ProxyRow /\ n.pc = "done" /\ n.answer = "ended"
  BY <1>1, ProxyRows DEF ProxyInv, ProxyTypes
<1>3. run' = [run EXCEPT ![r] = n]
  BY <1>1 DEF End
<1>4. RequestOK(r, n, durable[r])
  BY <1>2 DEF RequestOK, Working
<1>5. QuotesCover'
  BY <1>2, <1>3, QuotesStay
<1>6. QED
  BY <1>2, <1>3, <1>4, <1>5, MoveKeeps
-----------------------------------------------------------------------------
(* The steps of a request *)

\* What every request may rely on before its step.
LEMMA RequestFacts ==
    ASSUME ProxyInv, NEW r \in Requests
    PROVE  /\ run[r] \in ProxyRow /\ RequestOK(r, run[r], durable[r])
           /\ run[r].pc \in Working => up = "up" /\ run[r].key \in Keys
           /\ quotes \in [Keys -> Nat] /\ sent \in [Keys -> Nat]
BY DEF ProxyInv, ProxyTypes, RequestOK

\* A quote, in a process that is up.
LEMMA QuoteKeeps ==
    ASSUME ProxyInv, NEW r \in Requests, proxyQuote(r)
    PROVE  ProxyInv'
<1>1. /\ up = "up" /\ run[r].pc = "idle"
      /\ UNCHANGED <<account, settled, reservations, log, up, durable, quotes, sent>>
  BY DEF proxyQuote, proxy, QuoteRejected, Quote, ledger
<1>2. quotes \in [Keys -> Nat] /\ sent \in [Keys -> Nat] /\ run[r] \in ProxyRow
  BY RequestFacts
<1>3. \A k \in Keys : quotes[k] <= quotes[k]
  BY <1>2
<1>4. CASE QuoteRejected(r)
  BY <1>1, <1>2, <1>3, <1>4, EndsWell DEF QuoteRejected
<1>5. ASSUME NEW k \in Keys, NEW q \in Amounts, Quote(r, k, q) PROVE ProxyInv'
  <2>1. PICK n : n = [run[r] EXCEPT !.pc = "quoted", !.key = k, !.quoted = q]
    OBVIOUS
  <2>2. n \in ProxyRow /\ n.pc = "quoted" /\ n.key = k /\ n.quoted = q
    BY <1>2, <2>1 DEF ProxyRow, PCs
  <2>3. run' = [run EXCEPT ![r] = n]
    BY <1>5, <2>1 DEF Quote
  <2>4. RequestOK(r, n, durable[r])
    BY <1>1, <2>2 DEF RequestOK
  <2>5. QuotesCover'
    BY <1>1, <1>2, <1>3, <2>2, <2>3, QuotesStay
  <2>6. QED
    BY <1>1, <1>2, <2>2, <2>3, <2>4, <2>5, MoveKeeps
<1>6. QED
  BY <1>4, <1>5 DEF proxyQuote

\* The quote reaches the disk before its request becomes ready.
LEMMA AppendQuoteKeeps ==
    ASSUME ProxyInv, NEW r \in Requests, appendQuote(r)
    PROVE  ProxyInv'
<1>1. /\ run[r].pc = "quoted"
      /\ UNCHANGED <<account, settled, reservations, log, up, durable, sent>>
  BY DEF appendQuote, ledger
<1>2. /\ quotes \in [Keys -> Nat] /\ sent \in [Keys -> Nat] /\ run[r] \in ProxyRow
      /\ RequestOK(r, run[r], durable[r])
  BY RequestFacts
<1>3. PICK k \in Keys : k = run[r].key
  BY <1>1, RequestFacts DEF Working
<1>4. quotes[k] \in Nat
  BY <1>2
<1> DEFINE more == [quotes EXCEPT ![k] = quotes[k] + 1]
<1>5. /\ more \in [Keys -> Nat] /\ more[k] = quotes[k] + 1
      /\ \A j \in Keys \ {k} : more[j] = quotes[j]
      /\ \A j \in Keys : quotes[j] <= more[j] /\ quotes[j] <= quotes[j]
  BY <1>2, <1>4
<1>6. \/ quotes' = more /\ Advance(r, "ready")
      \/ quotes' \in {more, quotes} /\ End(r)
  BY <1>3 DEF appendQuote, AppendLine
<1> HIDE DEF more
<1>7. CASE quotes' \in {more, quotes} /\ End(r)
  BY <1>1, <1>2, <1>5, <1>7, EndsWell
<1>8. CASE quotes' = more /\ Advance(r, "ready")
  <2>1. PICK n : n = [run[r] EXCEPT !.pc = "ready"]
    OBVIOUS
  <2>2. /\ n \in ProxyRow /\ n.pc = "ready" /\ n.key = k /\ n.quoted = run[r].quoted
    BY <1>2, <1>3, <2>1 DEF ProxyRow, PCs
  <2>3. run' = [run EXCEPT ![r] = n]
    BY <1>8, <2>1 DEF Advance
  <2>4. RequestOK(r, n, durable[r])
    BY <1>1, <1>2, <2>2 DEF RequestOK, Working
  <2>5. ASSUME NEW j \in Keys
        PROVE  IsFiniteSet(Ready(j)') /\ sent'[j] + Cardinality(Ready(j)') <= quotes'[j]
    <3>1. Ready(j)' = (Ready(j) \ {r}) \cup (IF n.pc = "ready" /\ n.key = j THEN {r} ELSE {})
      BY <2>2, <2>3, ReadyMoves
    <3>2. r \notin Ready(j)
      BY <1>1 DEF Ready
    <3>3. /\ IsFiniteSet(Ready(j)) /\ sent[j] + Cardinality(Ready(j)) <= quotes[j]
          /\ Cardinality(Ready(j)) \in Nat
      BY FS_CardinalityType DEF ProxyInv, QuotesCover
    <3>4. sent[j] \in Nat /\ quotes[j] \in Nat
      BY <1>2
    <3>5. CASE j = k
      <4>1. Ready(j)' = Ready(j) \cup {r}
        BY <2>2, <3>1, <3>2, <3>5
      <4>2. /\ IsFiniteSet(Ready(j) \cup {r})
            /\ Cardinality(Ready(j) \cup {r}) = Cardinality(Ready(j)) + 1
        BY <3>2, <3>3, FS_AddElement
      <4>3. sent[j] + (Cardinality(Ready(j)) + 1) <= quotes[j] + 1
        BY <3>3, <3>4
      <4>4. QED
        BY <1>1, <1>5, <1>8, <3>5, <4>1, <4>2, <4>3
    <3>6. CASE j # k
      <4>1. Ready(j)' = Ready(j)
        BY <2>2, <3>1, <3>2, <3>6
      <4>2. QED
        BY <1>1, <1>5, <1>8, <3>3, <3>6, <4>1
    <3>7. QED
      BY <3>5, <3>6
  <2>6. QuotesCover'
    BY <2>5 DEF QuotesCover
  <2>7. QED
    BY <1>1, <1>2, <1>5, <1>8, <2>2, <2>3, <2>4, <2>6, MoveKeeps
<1>9. QED
  BY <1>6, <1>7, <1>8

\* The provider is called by a request whose quote is on disk.
LEMMA DispatchKeeps ==
    ASSUME ProxyInv, NEW r \in Requests, upstreamDispatch(r)
    PROVE  ProxyInv'
<1>1. /\ run[r].pc = "ready"
      /\ UNCHANGED <<account, settled, reservations, log, up, durable, quotes>>
  BY DEF upstreamDispatch, Dispatch, DispatchFails, ledger
<1>2. /\ quotes \in [Keys -> Nat] /\ sent \in [Keys -> Nat] /\ run[r] \in ProxyRow
      /\ RequestOK(r, run[r], durable[r])
  BY RequestFacts
<1>3. PICK k \in Keys : k = run[r].key
  BY <1>1, RequestFacts DEF Working
<1>4. sent[k] \in Nat
  BY <1>2
<1>5. /\ sent' \in [Keys -> Nat] /\ sent'[k] = sent[k] + 1
      /\ \A j \in Keys \ {k} : sent'[j] = sent[j]
  BY <1>2, <1>3, <1>4 DEF upstreamDispatch
<1>6. ASSUME NEW n \in ProxyRow, n.pc # "ready", run' = [run EXCEPT ![r] = n]
      PROVE  QuotesCover'
  <2> SUFFICES ASSUME NEW j \in Keys
               PROVE  /\ IsFiniteSet(Ready(j)')
                      /\ sent'[j] + Cardinality(Ready(j)') <= quotes'[j]
    BY DEF QuotesCover
  <2>1. Ready(j)' = Ready(j) \ {r}
    <3>1. Ready(j)' = (Ready(j) \ {r}) \cup (IF n.pc = "ready" /\ n.key = j THEN {r} ELSE {})
      BY <1>6, ReadyMoves
    <3>2. QED
      BY <1>6, <3>1
  <2>2. /\ IsFiniteSet(Ready(j)) /\ sent[j] + Cardinality(Ready(j)) <= quotes[j]
        /\ Cardinality(Ready(j)) \in Nat
    BY FS_CardinalityType DEF ProxyInv, QuotesCover
  <2>3. sent[j] \in Nat /\ quotes[j] \in Nat
    BY <1>2
  <2>4. CASE j = k
    <3>1. r \in Ready(j)
      BY <1>1, <1>3, <2>4 DEF Ready
    <3>2. /\ IsFiniteSet(Ready(j) \ {r})
          /\ Cardinality(Ready(j) \ {r}) = Cardinality(Ready(j)) - 1
      BY <2>2, <3>1, FS_RemoveElement
    <3>3. (sent[j] + 1) + (Cardinality(Ready(j)) - 1) <= quotes[j]
      BY <2>2, <2>3
    <3>4. QED
      BY <1>1, <1>5, <2>1, <2>4, <3>2, <3>3
  <2>5. CASE j # k
    <3>1. r \notin Ready(j)
      BY <1>3, <2>5 DEF Ready
    <3>2. Ready(j)' = Ready(j)
      BY <2>1, <3>1
    <3>3. QED
      BY <1>1, <1>5, <2>2, <2>5, <3>2
  <2>6. QED
    BY <2>4, <2>5
<1>7. CASE Dispatch(r)
  <2>1. PICK n : n = [run[r] EXCEPT !.pc = "dispatched"]
    OBVIOUS
  <2>2. /\ n \in ProxyRow /\ n.pc = "dispatched" /\ n.key = k /\ n.quoted = run[r].quoted
    BY <1>2, <1>3, <2>1 DEF ProxyRow, PCs
  <2>3. run' = [run EXCEPT ![r] = n]
    BY <1>7, <2>1 DEF Dispatch, Advance
  <2>4. RequestOK(r, n, durable[r])
    BY <1>1, <1>2, <2>2 DEF RequestOK, Working
  <2>5. QED
    BY <1>1, <1>2, <1>5, <1>6, <2>2, <2>3, <2>4, MoveKeeps
<1>8. CASE DispatchFails(r)
  <2>1. PICK n : n = [Idle EXCEPT !.pc = "done", !.answer = "ended"]
    OBVIOUS
  <2>2. n \in ProxyRow /\ n.pc = "done"
    BY <1>2, <2>1, ProxyRows
  <2>3. run' = [run EXCEPT ![r] = n] /\ End(r)
    BY <1>8, <2>1 DEF DispatchFails, End
  <2>4. QED
    BY <1>1, <1>2, <1>5, <1>6, <2>2, <2>3, EndsWell
<1>9. QED
  BY <1>7, <1>8 DEF upstreamDispatch
\* Settle up to the receipts, and its consumption, which finds no reservation.
LEMMA LookupKeeps ==
    ASSUME ProxyInv, NEW r \in Requests, UNCHANGED proxy,
           (\E c \in Amounts \cup {0} : Lookup(r, c)) \/ Consume(r)
    PROVE  ProxyInv'
<1>1. UNCHANGED <<log, up, durable, quotes, sent>>
  BY DEF proxy
<1>2. /\ quotes \in [Keys -> Nat] /\ sent \in [Keys -> Nat] /\ run[r] \in ProxyRow
      /\ RequestOK(r, run[r], durable[r]) /\ settled \in [Keys -> Receipt \cup {None}]
  BY RequestFacts DEF ProxyInv, ProxyTypes
<1>3. run[r].pc \in {"dispatched", "settling"}
  BY DEF Lookup, Consume
<1>4. PICK k \in Keys : k = run[r].key
  BY <1>3, RequestFacts DEF Working
<1>5. UNCHANGED <<account, settled, reservations>>
  <2>1. reservations[k].state # "open"
    BY DEF ProxyInv, ProxyTypes
  <2>2. QED
    BY <1>4, <2>1 DEF Lookup, Consume, consumeReservationForDebit, ledger
<1>6. \A j \in Keys : quotes[j] <= quotes'[j]
  BY <1>1, <1>2
<1>7. ASSUME NEW n \in ProxyRow, run' = [run EXCEPT ![r] = n], n.pc # "ready",
             RequestOK(r, n, durable[r])
      PROVE  ProxyInv'
  <2>1. QuotesCover'
    BY <1>1, <1>2, <1>3, <1>6, <1>7, QuotesStay
  <2>2. QED
    BY <1>1, <1>2, <1>5, <1>7, <2>1, MoveKeeps
<1>8. CASE End(r)
  BY <1>1, <1>2, <1>3, <1>5, <1>6, <1>8, EndsWell
<1>9. CASE Finish(r, "done", "replayed", settled[k])
  <2>1. PICK n : n = [Idle EXCEPT !.pc = "done", !.key = run[r].key,
                                  !.answer = "replayed", !.receipt = settled[k]]
    OBVIOUS
  <2>2. n \in ProxyRow /\ n.pc = "done" /\ n.answer = "replayed"
    BY <1>2, <2>1 DEF ProxyRow, Idle, PCs, Answers
  <2>3. run' = [run EXCEPT ![r] = n]
    BY <1>9, <2>1 DEF Finish
  <2>4. RequestOK(r, n, durable[r])
    BY <2>2 DEF RequestOK, Working
  <2>5. QED
    BY <1>7, <2>2, <2>3, <2>4
<1>10. ASSUME NEW pc \in {"settling", "consumed"}, NEW a \in Amounts \cup {0},
              run' = [run EXCEPT ![r] = [run[r] EXCEPT !.pc = pc, !.cost = a]]
       PROVE  ProxyInv'
  <2>1. PICK n : n = [run[r] EXCEPT !.pc = pc, !.cost = a]
    OBVIOUS
  <2>2. n \in ProxyRow /\ n.pc = pc /\ n.key = k /\ n.quoted = run[r].quoted
    BY <1>2, <1>4, <2>1 DEF ProxyRow, PCs
  <2>3. RequestOK(r, n, durable[r])
    BY <1>2, <1>3, <1>4, <2>2 DEF RequestOK, Working
  <2>4. QED
    BY <1>7, <1>10, <2>1, <2>2, <2>3
<1>11. CASE Consume(r)
  <2>1. run[r].cost \in Amounts \cup {0}
    BY <1>2 DEF ProxyRow
  <2>2. [run[r] EXCEPT !.pc = "consumed"] = [run[r] EXCEPT !.pc = "consumed", !.cost = run[r].cost]
    BY <1>2 DEF ProxyRow
  <2>3. run' = [run EXCEPT ![r] = [run[r] EXCEPT !.pc = "consumed", !.cost = run[r].cost]]
    BY <1>11, <2>2 DEF Consume, Advance
  <2>4. QED
    BY <1>10, <2>1, <2>3
<1>12. ASSUME NEW c \in Amounts \cup {0}, Lookup(r, c) PROVE ProxyInv'
  <2>1. run[r].quoted \in Amounts \cup {0}
    BY <1>2 DEF ProxyRow
  <2>2. \/ End(r) \/ Finish(r, "done", "replayed", settled[k])
        \/ \E a \in Amounts \cup {0} :
             run' = [run EXCEPT ![r] = [run[r] EXCEPT !.pc = "settling", !.cost = a]]
    BY <1>4, <1>12, <2>1 DEF Lookup
  <2>3. QED
    BY <1>8, <1>9, <1>10, <2>2
<1>13. QED
  BY <1>11, <1>12

\* The debit: at most the available balance leaves it, once for a key.
LEMMA CommitProxyKeeps ==
    ASSUME ProxyInv, NEW r \in Requests, Commit(r), UNCHANGED proxy
    PROVE  ProxyInv'
<1>1. UNCHANGED <<log, up, durable, quotes, sent>> /\ run[r].pc = "consumed"
  BY DEF proxy, Commit
<1>2. /\ quotes \in [Keys -> Nat] /\ sent \in [Keys -> Nat] /\ run[r] \in ProxyRow
      /\ RequestOK(r, run[r], durable[r]) /\ settled \in [Keys -> Receipt \cup {None}]
      /\ account \in [balance : Nat, hold : {0}, status : {"ACTIVE"}]
      /\ run \in [Requests -> ProxyRow]
  BY RequestFacts DEF ProxyInv, ProxyTypes
<1>3. PICK k \in Keys : k = run[r].key
  BY <1>1, RequestFacts DEF Working
<1>4. up = "up" /\ run[r].quoted \in Amounts
  BY <1>1, <1>2 DEF RequestOK, Working
<1>5. \A j \in Keys : quotes[j] <= quotes'[j]
  BY <1>1, <1>2
<1>6. ASSUME NEW x \in Receipt \cup {None}, NEW pc \in {"settled", "done"},
             NEW answer \in {"settled", "refused"}, Finish(r, pc, answer, x)
      PROVE  \E n \in ProxyRow : /\ run' = [run EXCEPT ![r] = n] /\ n.pc = pc
                                 /\ n.key = k /\ n.answer = answer /\ n.receipt = x
  <2>1. PICK n : n = [Idle EXCEPT !.pc = pc, !.key = run[r].key,
                                  !.answer = answer, !.receipt = x]
    OBVIOUS
  <2>2. n \in ProxyRow /\ n.pc = pc /\ n.key = k /\ n.answer = answer /\ n.receipt = x
    BY <1>2, <1>3, <2>1 DEF ProxyRow, Idle, PCs, Answers
  <2>3. run' = [run EXCEPT ![r] = n]
    BY <1>6, <2>1 DEF Finish
  <2>4. QED
    BY <2>2, <2>3
<1>7. ASSUME NEW n \in ProxyRow, run' = [run EXCEPT ![r] = n], n.pc # "ready",
             RequestOK(r, n, durable[r]), UNCHANGED ledger
      PROVE  ProxyInv'
  <2>1. QuotesCover'
    BY <1>1, <1>2, <1>5, <1>7, QuotesStay
  <2>2. UNCHANGED <<account, settled, reservations>>
    BY <1>7 DEF ledger
  <2>3. QED
    BY <1>1, <1>2, <1>7, <2>1, <2>2, MoveKeeps
<1>8. CASE Finish(r, "done", "refused", None) /\ UNCHANGED ledger
  <2>1. PICK n \in ProxyRow : run' = [run EXCEPT ![r] = n] /\ n.pc = "done"
                              /\ n.answer = "refused"
    BY <1>6, <1>8
  <2>2. RequestOK(r, n, durable[r])
    BY <2>1 DEF RequestOK, Working
  <2>3. QED
    BY <1>7, <1>8, <2>1, <2>2
<1>9. CASE settled[k] # None /\ UNCHANGED ledger /\ Finish(r, "settled", "settled", settled'[k])
  <2>1. settled' = settled /\ settled[k] \in Receipt
    BY <1>2, <1>9 DEF ledger
  <2>2. Finish(r, "settled", "settled", settled[k])
    BY <1>9, <2>1
  <2>3. PICK n \in ProxyRow : /\ run' = [run EXCEPT ![r] = n] /\ n.pc = "settled"
                              /\ n.key = k /\ n.answer = "settled" /\ n.receipt = settled[k]
    BY <1>6, <2>1, <2>2
  <2>4. RequestOK(r, n, durable[r])
    BY <1>4, <2>1, <2>3 DEF RequestOK
  <2>5. QED
    BY <1>7, <1>9, <2>3, <2>4
<1>10. CASE /\ settled[k] = None
            /\ run[r].cost > 0 /\ run[r].cost <= Available
            /\ Post(k, run[r].quoted, run[r].cost)
            /\ Finish(r, "settled", "settled", settled'[k])
  <2>1. PICK d \in Amounts : d = run[r].cost
    BY <1>2, <1>10 DEF ProxyRow
  <2>2. d \in Nat
    BY LedgerAssumption
  <2>3. PICK x \in Receipt : x = [quoted |-> run[r].quoted, debit |-> d]
    BY <1>4 DEF Receipt
  <2>4. x.debit = d
    BY <2>3
  <2>5. settled' = [settled EXCEPT ![k] = x] /\ UNCHANGED reservations
    BY <1>10, <2>1, <2>3 DEF Post
  <2>6. /\ settled'[k] = x /\ settled' \in [Keys -> Receipt \cup {None}]
        /\ \A j \in Keys : settled[j] # None => settled'[j] = settled[j]
    BY <1>2, <1>10, <2>5
  <2>7. account' = [account EXCEPT !.balance = account.balance - d]
    BY <1>10, <2>1 DEF Post
  <2>8. d <= account.balance
    BY <1>2, <1>10, <2>1, <2>2 DEF Available
  <2>9. account.balance - d \in Nat
    BY <1>2, <2>2, <2>8
  <2>10. /\ account' \in [balance : Nat, hold : {0}, status : {"ACTIVE"}]
         /\ account'.balance = account.balance - d
    BY <1>2, <2>7, <2>9
  <2>11. DebitsLeft'
    <3>1. SumFunction(Debits([settled EXCEPT ![k] = x])) = SumFunction(Debits(settled)) + x.debit
      <4>1. PICK s : s = settled
        OBVIOUS
      <4>2. s \in [Keys -> Receipt \cup {None}]
        BY <1>2, <4>1
      <4>3. s[k] = None
        BY <1>10, <4>1
      <4>4. SumFunction(Debits([s EXCEPT ![k] = x])) = SumFunction(Debits(s)) + x.debit
        BY <4>2, <4>3, DebitsAfterPost
      <4>5. QED
        BY <4>1, <4>4
    <3>2. SettledDebits' = SettledDebits + d
      BY <2>4, <2>5, <3>1 DEF SettledDebits, Debits
    <3>3. SettledDebits \in Nat
      BY <1>2, TotalsType, SumNat, LedgerAssumption DEF SettledDebits, Debits
    <3>4. account.balance + SettledDebits <= Opening
      BY <1>4 DEF ProxyInv, DebitsLeft
    <3>5. (account.balance - d) + (SettledDebits + d) <= Opening
      BY <1>2, <2>2, <3>3, <3>4, LedgerAssumption
    <3>6. QED
      BY <2>10, <3>2, <3>5 DEF DebitsLeft
  <2>12. PICK n \in ProxyRow : /\ run' = [run EXCEPT ![r] = n] /\ n.pc = "settled"
                               /\ n.key = k /\ n.answer = "settled" /\ n.receipt = x
    <3>1. Finish(r, "settled", "settled", x)
      BY <1>10, <2>6
    <3>2. QED
      BY <1>6, <3>1
  <2>13. /\ run' \in [Requests -> ProxyRow] /\ run'[r] = n
         /\ \A q \in Requests \ {r} : run'[q] = run[q]
    BY <1>2, <2>12
  <2>14. ProxyTypes'
    BY <1>1, <2>5, <2>6, <2>10, <2>13 DEF ProxyInv, ProxyTypes
  <2>15. QuotesCover'
    BY <1>1, <1>2, <1>5, <2>12, QuotesStay
  <2>16. ASSUME NEW q \in Requests PROVE RequestOK(q, run[q], durable[q])'
    <3>1. CASE q = r
      BY <1>1, <1>4, <2>6, <2>12, <2>13, <3>1 DEF RequestOK
    <3>2. CASE q # r
      <4>1. RequestOK(q, run[q], durable[q]) /\ run'[q] = run[q]
        BY <2>13, <3>2 DEF ProxyInv
      <4>2. \A j \in Keys, y \in Receipt : settled[j] = y => settled'[j] = y
        BY <2>6, NoneAssumption
      <4>3. QED
        BY <1>1, <4>1, <4>2 DEF RequestOK, Recorded, Working
    <3>3. QED
      BY <3>1, <3>2
  <2>17. QED
    BY <2>11, <2>14, <2>15, <2>16 DEF ProxyInv
<1>11. QED
  BY <1>3, <1>8, <1>9, <1>10 DEF Commit, commit

-----------------------------------------------------------------------------
(* The log *)

\* A line of a kind is appended for a key: it is the last of its kind, and the
\* lines of the other kind and of the other keys are as before.
LEMMA AppendRecords ==
    ASSUME log \in [Keys -> [Kinds -> Seq(Receipt)]],
           NEW k \in Keys, NEW kind \in Kinds, NEW x \in Receipt,
           log' = [log EXCEPT ![k] = [log[k] EXCEPT ![kind] = Append(@, x)]]
    PROVE  /\ log' \in [Keys -> [Kinds -> Seq(Receipt)]]
           /\ log'[k][kind] # <<>> /\ Last(log'[k][kind]) = x
           /\ \A j \in Keys, c \in Kinds :
                <<j, c>> # <<k, kind>> => log'[j][c] = log[j][c]
<1>1. PICK s \in Seq(Receipt) : s = log[k][kind]
  OBVIOUS
<1>2. PICK t : t = Append(s, x)
  OBVIOUS
<1>3. t \in Seq(Receipt) /\ t # <<>> /\ Last(t) = x
  <2>1. t \in Seq(Receipt) /\ Len(t) = Len(s) + 1 /\ t[Len(s) + 1] = x
    BY <1>2
  <2>2. Len(s) \in Nat
    OBVIOUS
  <2>3. t # <<>>
    BY <2>1, <2>2
  <2>4. QED
    BY <2>1, <2>3 DEF Last
<1>4. log' = [log EXCEPT ![k] = [log[k] EXCEPT ![kind] = t]]
  BY <1>1, <1>2
<1>5. log'[k] = [log[k] EXCEPT ![kind] = t]
  BY <1>4
<1>6. log'[k][kind] = t /\ \A c \in Kinds \ {kind} : log'[k][c] = log[k][c]
  BY <1>5
<1>7. \A j \in Keys \ {k} : log'[j] = log[j]
  BY <1>4
<1>8. log' \in [Keys -> [Kinds -> Seq(Receipt)]]
  BY <1>3, <1>4
<1>9. QED
  BY <1>3, <1>6, <1>7, <1>8

\* An append of receipts: what other requests rely on for the key are the same
\* receipts, because the index of the running process holds them.
LEMMA PersistKeeps ==
    ASSUME ProxyInv, NEW r \in Requests, persistOutcome(r)
    PROVE  ProxyInv'
<1>1. PICK kind \in Kinds, pc \in {"settled", "usage"}, next \in {"usage", "done"} :
        /\ persist(r, kind, pc, next)
        /\ (kind = "usage" /\ pc = "settled" /\ next = "usage")
             \/ (kind = "settlement" /\ pc = "usage" /\ next = "done")
  BY DEF persistOutcome, Kinds
<1>2. /\ run[r].pc = pc /\ Advance(r, next)
      /\ UNCHANGED <<account, settled, reservations, up, quotes, sent>>
  BY <1>1 DEF persist, ledger
<1>3. /\ quotes \in [Keys -> Nat] /\ sent \in [Keys -> Nat] /\ run[r] \in ProxyRow
      /\ RequestOK(r, run[r], durable[r]) /\ settled \in [Keys -> Receipt \cup {None}]
      /\ run \in [Requests -> ProxyRow] /\ durable \in [Requests -> BOOLEAN]
      /\ log \in [Keys -> [Kinds -> Seq(Receipt)]]
  BY RequestFacts DEF ProxyInv, ProxyTypes
<1>4. PICK k \in Keys : k = run[r].key
  BY <1>2, RequestFacts DEF Working
<1>5. PICK x \in Receipt : x = run[r].receipt
  BY <1>2, <1>3 DEF RequestOK
<1>6. up = "up" /\ run[r].answer = "settled" /\ settled[k] = x
  BY <1>2, <1>3, <1>4, <1>5 DEF RequestOK, Working
<1>7. PICK n : n = [run[r] EXCEPT !.pc = next]
  OBVIOUS
<1>8. /\ n \in ProxyRow /\ n.pc = next /\ n.key = k /\ n.answer = "settled"
      /\ n.receipt = x
  BY <1>3, <1>4, <1>5, <1>6, <1>7 DEF ProxyRow, PCs
<1>9. run' = [run EXCEPT ![r] = n]
  BY <1>2, <1>7 DEF Advance
<1>10. /\ run' \in [Requests -> ProxyRow] /\ run'[r] = n
       /\ \A q \in Requests \ {r} : run'[q] = run[q]
  BY <1>3, <1>8, <1>9
<1> DEFINE more == [log EXCEPT ![k] = [log[k] EXCEPT ![kind] = Append(@, x)]]
<1>11. PICK ok \in BOOLEAN :
         /\ durable' = [durable EXCEPT ![r] = @ /\ ok]
         /\ log' = more \/ (~ok /\ log' = log)
  BY <1>1, <1>4, <1>5 DEF persist, AppendLine
<1>12. /\ durable' \in [Requests -> BOOLEAN]
       /\ durable'[r] => durable[r] /\ log' = more
       /\ \A q \in Requests \ {r} : durable'[q] = durable[q]
  BY <1>3, <1>11, Zenon
<1>13. ASSUME log' = more
       PROVE
         /\ log' \in [Keys -> [Kinds -> Seq(Receipt)]]
         /\ log'[k][kind] # <<>> /\ Last(log'[k][kind]) = x
         /\ \A j \in Keys, c \in Kinds :
              <<j, c>> # <<k, kind>> => log'[j][c] = log[j][c]
  <2>1. log \in [Keys -> [Kinds -> Seq(Receipt)]]
    BY <1>3
  <2>2. log' = [log EXCEPT ![k] = [log[k] EXCEPT ![kind] = Append(@, x)]]
    BY <1>13
  <2> HIDE DEF more
  <2>3. QED
    BY <2>1, <2>2, AppendRecords
<1>14. log' = more \/ log' = log
  BY <1>11
<1> HIDE DEF more
\* Receipts of the running process that were recorded remain recorded.
<1>15. ASSUME NEW j \in Keys, NEW c \in Kinds, NEW y, Recorded(c, j, y), settled[j] = y
       PROVE  Recorded(c, j, y)'
  <2>1. CASE log' = log
    BY <1>15, <2>1 DEF Recorded
  <2>2. CASE log' = more /\ j = k /\ c = kind
    BY <1>6, <1>13, <1>15, <2>2 DEF Recorded
  <2>3. CASE log' = more /\ ~(j = k /\ c = kind)
    <3>1. log'[j][c] = log[j][c]
      BY <1>13, <2>3
    <3>2. QED
      BY <1>15, <3>1 DEF Recorded
  <2>4. QED
    BY <1>14, <2>1, <2>2, <2>3
<1>16. durable'[r] => Recorded(kind, k, x)'
  BY <1>12, <1>13 DEF Recorded
<1>17. ASSUME NEW q \in Requests PROVE RequestOK(q, run[q], durable[q])'
  <2>1. CASE q = r /\ next = "usage"
    BY <1>1, <1>2, <1>6, <1>8, <1>10, <1>16, <2>1 DEF RequestOK, Working
  <2>2. CASE q = r /\ next = "done"
    <3>1. kind = "settlement" /\ pc = "usage"
      BY <1>1, <2>2
    <3>2. ASSUME durable'[r] PROVE \A c \in Kinds : Recorded(c, k, x)'
      <4>1. Recorded("usage", k, x)
        BY <1>2, <1>3, <1>4, <1>5, <1>12, <3>1, <3>2 DEF RequestOK
      <4>2. Recorded("usage", k, x)'
        BY <1>6, <1>15, <4>1 DEF Kinds
      <4>3. Recorded("settlement", k, x)'
        BY <1>16, <3>1, <3>2
      <4>4. QED
        BY <4>2, <4>3 DEF Kinds
    <3>3. QED
      BY <1>2, <1>6, <1>8, <1>10, <2>2, <3>2 DEF RequestOK, Working
  <2>3. CASE q # r
    <3>1. RequestOK(q, run[q], durable[q]) /\ run'[q] = run[q] /\ durable'[q] = durable[q]
      BY <1>10, <1>12, <2>3 DEF ProxyInv
    <3>2. UNCHANGED <<settled, up>> /\ up = "up"
      BY <1>2, <1>6
    <3>3. run[q].pc = "usage" /\ durable[q] => Recorded("usage", run[q].key, run[q].receipt)'
      BY <1>15, <3>1 DEF RequestOK, Working, Kinds
    <3>4. run[q].pc = "done" /\ run[q].answer = "settled" /\ durable[q] =>
            \A c \in Kinds : Recorded(c, run[q].key, run[q].receipt)'
      BY <1>15, <3>1, <3>2 DEF RequestOK
    <3>5. QED
      BY <3>1, <3>2, <3>3, <3>4 DEF RequestOK
  <2>4. QED
    BY <2>1, <2>2, <2>3
<1>18. log' \in [Keys -> [Kinds -> Seq(Receipt)]]
  BY <1>3, <1>13, <1>14
<1>19. ProxyTypes'
  BY <1>2, <1>10, <1>12, <1>18 DEF ProxyInv, ProxyTypes
<1>20. QuotesCover'
  <2>1. \A j \in Keys : quotes[j] <= quotes'[j]
    BY <1>2, <1>3
  <2>2. n.pc # "ready" /\ run[r].pc # "ready" /\ sent' = sent /\ quotes' \in [Keys -> Nat]
    BY <1>2, <1>3, <1>8
  <2>3. QED
    BY <1>8, <1>9, <2>1, <2>2, QuotesStay
<1>21. DebitsLeft'
  BY <1>2 DEF ProxyInv, DebitsLeft, SettledDebits
<1>22. QED
  BY <1>17, <1>19, <1>20, <1>21 DEF ProxyInv

-----------------------------------------------------------------------------
(* Stop and start *)

\* The process stops: no request works on, and what was acknowledged is on disk.
LEMMA StopKeeps ==
    ASSUME ProxyInv, Stop
    PROVE  ProxyInv'
<1>1. /\ UNCHANGED <<account, settled, reservations, log, quotes, sent, durable>>
      /\ up' = "down"
  BY DEF Stop, ledger
<1>2. PICK n : n = [Idle EXCEPT !.pc = "lost"]
  OBVIOUS
<1>3. n \in ProxyRow /\ n.pc = "lost"
  BY <1>2 DEF ProxyRow, Idle, PCs, Answers
<1>4. run \in [Requests -> ProxyRow]
  BY DEF ProxyInv, ProxyTypes
<1>5. run' = [r \in Requests |-> IF Active(r) THEN n ELSE run[r]]
  BY <1>2 DEF Stop
<1>6. ASSUME NEW r \in Requests
      PROVE  /\ run'[r] \in ProxyRow /\ run'[r].pc \notin Working
             /\ run'[r] = n \/ run'[r] = run[r]
  <2>1. run'[r] = IF Active(r) THEN n ELSE run[r]
    BY <1>5
  <2>2. QED
    BY <1>3, <1>4, <2>1 DEF Active, Working
<1>7. run' \in [Requests -> ProxyRow]
  BY <1>5, <1>6
<1>8. ProxyTypes'
  BY <1>1, <1>7 DEF ProxyInv, ProxyTypes
<1>9. ASSUME NEW r \in Requests PROVE RequestOK(r, run[r], durable[r])'
  <2>1. CASE run'[r] = n
    BY <1>3, <2>1 DEF RequestOK, Working
  <2>2. CASE run'[r] = run[r]
    <3>1. RequestOK(r, run[r], durable[r])
      BY DEF ProxyInv
    <3>2. run[r].pc \notin Working
      BY <1>6, <2>2
    <3>3. QED
      BY <1>1, <2>2, <3>1, <3>2 DEF RequestOK, Recorded, Working
  <2>3. QED
    BY <1>6, <2>1, <2>2
<1>10. QuotesCover'
  <2> SUFFICES ASSUME NEW k \in Keys
               PROVE  /\ IsFiniteSet(Ready(k)')
                      /\ sent'[k] + Cardinality(Ready(k)') <= quotes'[k]
    BY DEF QuotesCover
  <2>1. Ready(k)' = {}
    BY <1>6 DEF Ready, Working
  <2>2. IsFiniteSet({}) /\ Cardinality({}) = 0
    BY FS_EmptySet
  <2>3. /\ sent[k] \in Nat /\ quotes[k] \in Nat /\ IsFiniteSet(Ready(k))
        /\ sent[k] + Cardinality(Ready(k)) <= quotes[k]
    BY DEF ProxyInv, ProxyTypes, QuotesCover
  <2>4. Cardinality(Ready(k)) \in Nat
    BY <2>3, FS_CardinalityType
  <2>5. sent[k] + 0 <= quotes[k]
    BY <2>3, <2>4
  <2>6. QED
    BY <1>1, <2>1, <2>2, <2>5
<1>11. DebitsLeft'
  BY <1>1 DEF DebitsLeft
<1>12. QED
  BY <1>8, <1>9, <1>10, <1>11 DEF ProxyInv

\* The debits on the usage lines of a key are a natural, and no smaller than the
\* debit of the last of them.
LEMMA UsageCoversLast ==
    ASSUME log \in [Keys -> [Kinds -> Seq(Receipt)]], NEW k \in Keys
    PROVE  /\ UsageDebits(k) \in Nat
           /\ log[k]["usage"] # <<>> =>
                /\ LastOf("usage", k) \in Receipt
                /\ LastOf("usage", k).debit \in Nat
                /\ LastOf("usage", k).debit <= UsageDebits(k)
<1>1. PICK s \in Seq(Receipt) : s = log[k]["usage"]
  BY DEF Kinds
<1>2. PICK L \in Nat : L = Len(s)
  OBVIOUS
<1>3. \A x \in Receipt : x.debit \in Nat
  BY LedgerAssumption DEF Receipt
<1> DEFINE f == [i \in 1..L |-> s[i].debit]
<1>4. \A i \in 1..L : s[i] \in Receipt /\ s[i].debit \in Nat
  BY <1>2, <1>3
<1>5. f \in [1..L -> Nat]
  BY <1>4
<1>6. IsFiniteSet(1..L)
  BY FS_Interval
<1>7. UsageDebits(k) = SumFunction(f)
  BY <1>1, <1>2 DEF UsageDebits
<1>8. SumFunction(f) \in Nat
  <2> HIDE DEF f
  <2>1. QED
    BY <1>5, <1>6, SumNat
<1>9. ASSUME s # <<>>
      PROVE  /\ LastOf("usage", k) \in Receipt /\ LastOf("usage", k).debit \in Nat
             /\ LastOf("usage", k).debit <= SumFunction(f)
  <2>1. L # 0
    BY <1>2, <1>9
  <2>2. L \in 1..L
    BY <2>1
  <2>3. LastOf("usage", k) = s[L]
    BY <1>1, <1>2 DEF LastOf, Last
  <2>4. f[L] = s[L].debit
    BY <2>2
  <2>5. f[L] <= SumFunction(f)
    <3> HIDE DEF f
    <3>1. QED
      BY <1>5, <1>6, <2>2, SumAtLeast
  <2>6. QED
    BY <1>4, <2>2, <2>3, <2>4, <2>5
<1>10. QED
  BY <1>1, <1>7, <1>8, <1>9

\* What replay takes off the opening balance covers the index it restores.
LEMMA ReplayCovers ==
    ASSUME log \in [Keys -> [Kinds -> Seq(Receipt)]],
           NEW s, s = [k \in Keys |-> IF Restored(k) THEN LastOf("usage", k) ELSE None]
    PROVE  /\ s \in [Keys -> Receipt \cup {None}]
           /\ SumFunction(Debits(s)) \in Nat /\ DebitedCents \in Nat
           /\ SumFunction(Debits(s)) <= DebitedCents
<1>1. \A k \in Keys : Restored(k) =>
        log[k]["usage"] # <<>> /\ log[k]["settlement"] # <<>>
  BY DEF Restored, Kinds
<1>2. ASSUME NEW k \in Keys
      PROVE  /\ UsageDebits(k) \in Nat
             /\ Restored(k) => /\ s[k] \in Receipt /\ s[k].debit \in Nat
                               /\ s[k].debit <= UsageDebits(k)
             /\ ~Restored(k) => s[k] = None
  <2>1. s[k] = IF Restored(k) THEN LastOf("usage", k) ELSE None
    OBVIOUS
  <2>2. QED
    BY <1>1, <2>1, UsageCoversLast
<1>3. s \in [Keys -> Receipt \cup {None}]
  BY <1>2
<1> DEFINE h == [k \in Keys |-> IF log[k]["settlement"] = <<>> THEN 0 ELSE UsageDebits(k)]
<1>4. h \in [Keys -> Nat] /\ DebitedCents = SumFunction(h)
  BY <1>2 DEF DebitedCents
<1>5. Debits(s) \in [Keys -> Nat]
  BY <1>3, TotalsType
<1>6. ASSUME NEW k \in Keys PROVE Debits(s)[k] <= h[k]
  <2>1. Debits(s)[k] = IF s[k] = None THEN 0 ELSE s[k].debit
    BY DEF Debits
  <2>2. h[k] = IF log[k]["settlement"] = <<>> THEN 0 ELSE UsageDebits(k)
    OBVIOUS
  <2> HIDE DEF h
  <2>3. CASE Restored(k)
    BY <1>1, <1>2, <2>1, <2>2, <2>3, NoneAssumption
  <2>4. CASE ~Restored(k)
    <3>1. Debits(s)[k] = 0 /\ h[k] \in Nat
      BY <1>2, <1>4, <2>1, <2>4
    <3>2. QED
      BY <3>1
  <2>5. QED
    BY <2>3, <2>4
<1> HIDE DEF h
<1>7. PICK g : g = Debits(s)
  OBVIOUS
<1>8. SumFunction(g) \in Nat /\ SumFunction(h) \in Nat /\ SumFunction(g) <= SumFunction(h)
  <2>1. g \in [Keys -> Nat] /\ h \in [Keys -> Nat] /\ \A k \in Keys : g[k] <= h[k]
    BY <1>4, <1>5, <1>6, <1>7
  <2>2. IsFiniteSet(Keys)
    BY LedgerAssumption
  <2>3. SumFunction(g) \in Nat /\ SumFunction(h) \in Nat
    BY <2>1, <2>2, SumNat
  <2>4. SumFunction(g) <= SumFunction(h)
    BY <2>1, <2>2, SumMonotone
  <2>5. QED
    BY <2>3, <2>4
<1>9. QED
  BY <1>3, <1>4, <1>7, <1>8

\* A new process: replay restores what was acknowledged, or refuses to start.
LEMMA NewServerKeeps ==
    ASSUME ProxyInv, NewServer
    PROVE  ProxyInv'
<1>1. /\ up = "down"
      /\ UNCHANGED <<reservations, run, log, quotes, sent, durable>>
  BY DEF NewServer, engine
<1>2. /\ log \in [Keys -> [Kinds -> Seq(Receipt)]]
      /\ \A r \in Requests : run[r].pc \notin Working
  BY <1>1 DEF ProxyInv, ProxyTypes, RequestOK
<1>3. QuotesCover'
  BY <1>1 DEF ProxyInv, QuotesCover, Ready
<1>4. CASE up' = "refused" /\ UNCHANGED <<account, settled>>
  <2>1. ProxyTypes'
    BY <1>1, <1>4 DEF ProxyInv, ProxyTypes
  <2>2. DebitsLeft'
    BY <1>4 DEF DebitsLeft
  <2>3. ASSUME NEW r \in Requests PROVE RequestOK(r, run[r], durable[r])'
    <3>1. RequestOK(r, run[r], durable[r]) /\ run[r].pc \notin Working
      BY <1>2 DEF ProxyInv
    <3>2. QED
      BY <1>1, <1>4, <3>1 DEF RequestOK, Recorded, Working
  <2>4. QED
    BY <1>3, <2>1, <2>2, <2>3 DEF ProxyInv
<1>5. CASE /\ ~ReplayFails /\ up' = "up"
           /\ account' = NewBalanceLedger(Opening - DebitedCents)
           /\ settled' = [k \in Keys |->
                            IF Restored(k) THEN LastOf("usage", k) ELSE None]
  <2>1. PICK s : s = settled'
    OBVIOUS
  <2>2. s = [k \in Keys |-> IF Restored(k) THEN LastOf("usage", k) ELSE None]
    BY <1>5, <2>1
  <2>3. /\ s \in [Keys -> Receipt \cup {None}]
        /\ SumFunction(Debits(s)) \in Nat /\ DebitedCents \in Nat
        /\ SumFunction(Debits(s)) <= DebitedCents
    BY <1>2, <2>2, ReplayCovers
  <2>4. DebitedCents <= Opening
    BY <1>5, <2>3, LedgerAssumption DEF ReplayFails
  <2>5. Opening - DebitedCents \in Nat
    BY <2>3, <2>4, LedgerAssumption
  <2>6. /\ account' \in [balance : Nat, hold : {0}, status : {"ACTIVE"}]
        /\ account'.balance = Opening - DebitedCents
    BY <1>5, <2>5 DEF NewBalanceLedger
  <2>7. ProxyTypes'
    BY <1>1, <1>5, <2>1, <2>3, <2>6 DEF ProxyInv, ProxyTypes
  <2>8. DebitsLeft'
    <3>1. SettledDebits' = SumFunction(Debits(s))
      BY <2>1 DEF SettledDebits, Debits
    <3>2. (Opening - DebitedCents) + SumFunction(Debits(s)) <= Opening
      BY <2>3, <2>4, LedgerAssumption
    <3>3. QED
      BY <2>6, <3>1, <3>2 DEF DebitsLeft
  <2>9. ASSUME NEW r \in Requests PROVE RequestOK(r, run[r], durable[r])'
    <3>1. RequestOK(r, run[r], durable[r]) /\ run[r].pc \notin Working
      BY <1>2 DEF ProxyInv
    <3>2. ASSUME NEW k \in Keys, NEW x \in Receipt,
                 \A kind \in Kinds : Recorded(kind, k, x)
          PROVE  settled'[k] = x
      <4>1. Restored(k) /\ LastOf("usage", k) = x
        BY <3>2 DEF Restored, LastOf, Recorded, Kinds
      <4>2. QED
        BY <1>5, <4>1
    <3>3. \A kind, k, x : Recorded(kind, k, x)' <=> Recorded(kind, k, x)
      BY <1>1 DEF Recorded
    <3>4. QED
      BY <1>1, <3>1, <3>2, <3>3 DEF RequestOK, Working
  <2>10. QED
    BY <1>3, <2>7, <2>8, <2>9 DEF ProxyInv
<1>6. QED
  BY <1>4, <1>5 DEF NewServer

\* A step that changes nothing the proxy keeps.
LEMMA ProxyStutters ==
    ASSUME ProxyInv, UNCHANGED proxyVars
    PROVE  ProxyInv'
<1>1. UNCHANGED <<account, settled, reservations, run, log, quotes, sent, durable, up>>
  BY DEF proxyVars, vars, proxy, ledger, engine
<1>2. ProxyTypes'
  BY <1>1 DEF ProxyInv, ProxyTypes
<1>3. \A r \in Requests : RequestOK(r, run[r], durable[r])'
  BY <1>1 DEF ProxyInv, RequestOK, Recorded
<1>4. QuotesCover' /\ DebitsLeft'
  BY <1>1 DEF ProxyInv, QuotesCover, Ready, DebitsLeft, SettledDebits
<1>5. QED
  BY <1>2, <1>3, <1>4 DEF ProxyInv

\* Every reachable state of the proxy satisfies the inductive invariant.
THEOREM ProxyInvariant == ProxySpec => []ProxyInv
<1>1. ProxyInit => ProxyInv
  BY ProxyInvInit
<1>2. ProxyInv /\ [ProxyNext]_proxyVars => ProxyInv'
  <2> SUFFICES ASSUME ProxyInv, [ProxyNext]_proxyVars PROVE ProxyInv'
    OBVIOUS
  <2>1. ASSUME NEW r \in Requests, handleInference(r) PROVE ProxyInv'
    BY <2>1, QuoteKeeps, AppendQuoteKeeps, DispatchKeeps, LookupKeeps,
       CommitProxyKeeps, PersistKeeps DEF handleInference, settle
  <2>2. QED
    BY <2>1, StopKeeps, NewServerKeeps, ProxyStutters DEF ProxyNext
<1>3. QED
  BY <1>1, <1>2, PTL DEF ProxySpec
-----------------------------------------------------------------------------
(* What the proxy promises *)

\* Every provider call has its route_quote line in the durable log.
THEOREM ProxyReceiptsDispatch == ProxySpec => []NoUnreceiptedDispatch
<1>1. ASSUME ProxyInv PROVE NoUnreceiptedDispatch
  <2> SUFFICES ASSUME NEW k \in Keys PROVE sent[k] <= quotes[k]
    BY DEF NoUnreceiptedDispatch
  <2>1. /\ sent[k] \in Nat /\ quotes[k] \in Nat /\ IsFiniteSet(Ready(k))
        /\ sent[k] + Cardinality(Ready(k)) <= quotes[k]
    BY <1>1 DEF ProxyInv, ProxyTypes, QuotesCover
  <2>2. Cardinality(Ready(k)) \in Nat
    BY <2>1, FS_CardinalityType
  <2>3. QED
    BY <2>1, <2>2
<1>2. QED
  BY <1>1, ProxyInvariant, PTL

\* What was acknowledged with its receipts on disk is in the index of every
\* process that is up.
THEOREM ProxyAcknowledgedSurvives == ProxySpec => []AcknowledgedSurvives
<1>1. ProxyInv => AcknowledgedSurvives
  BY DEF ProxyInv, RequestOK, AcknowledgedSurvives, Acknowledged
<1>2. QED
  BY <1>1, ProxyInvariant, PTL

\* The acknowledged debits have left the balance of every process that is up,
\* once for each key, and the balance is never negative.
THEOREM ProxyAcknowledgedStaySpent == ProxySpec => []AcknowledgedStaySpent
<1>1. ASSUME ProxyInv PROVE AcknowledgedStaySpent
  <2> DEFINE Spent(k) == {run[r].receipt.debit : r \in
                            {q \in Requests : Acknowledged(q) /\ run[q].key = k}}
             f == [k \in Keys |-> IF Spent(k) = {} THEN 0 ELSE CHOOSE d \in Spent(k) : TRUE]
  <2> SUFFICES ASSUME up = "up"
               PROVE  0 <= account.balance /\ account.balance <= Opening - SumFunction(f)
    BY DEF AcknowledgedStaySpent
  <2>1. /\ account.balance \in Nat /\ settled \in [Keys -> Receipt \cup {None}]
        /\ account.balance + SettledDebits <= Opening
    BY <1>1 DEF ProxyInv, ProxyTypes, DebitsLeft
  <2>2. PICK g : g = Debits(settled)
    OBVIOUS
  <2>3. g \in [Keys -> Nat] /\ SettledDebits = SumFunction(g)
    BY <2>1, <2>2, TotalsType DEF SettledDebits, Debits
  <2>4. ASSUME NEW k \in Keys PROVE f[k] \in Nat /\ f[k] <= g[k]
    <3>1. f[k] = IF Spent(k) = {} THEN 0 ELSE CHOOSE d \in Spent(k) : TRUE
      OBVIOUS
    <3>2. ASSUME NEW d \in Spent(k) PROVE d = g[k]
      <4>1. PICK r \in Requests : Acknowledged(r) /\ run[r].key = k /\ d = run[r].receipt.debit
        OBVIOUS
      <4>2. run[r].receipt \in Receipt /\ settled[k] = run[r].receipt
        BY <1>1, <4>1 DEF ProxyInv, RequestOK, Acknowledged
      <4>3. settled[k] # None /\ settled[k].debit = d
        BY <4>1, <4>2, NoneAssumption
      <4>4. QED
        BY <2>2, <4>3 DEF Debits
    <3>3. PICK v : v = g[k]
      OBVIOUS
    <3>4. v \in Nat
      BY <2>3, <3>3
    <3>5. f[k] = 0 \/ f[k] = v
      <4>1. CASE Spent(k) = {}
        BY <3>1, <4>1
      <4>2. CASE Spent(k) # {}
        <5>1. f[k] \in Spent(k)
          BY <3>1, <4>2
        <5>2. QED
          BY <3>2, <3>3, <5>1
      <4>3. QED
        BY <4>1, <4>2
    <3> HIDE DEF f
    <3>6. QED
      BY <3>3, <3>4, <3>5
  <2>5. f \in [Keys -> Nat]
    BY <2>4
  <2> HIDE DEF f
  <2>6. SumFunction(f) \in Nat /\ SumFunction(g) \in Nat /\ SumFunction(f) <= SumFunction(g)
    <3>1. IsFiniteSet(Keys)
      BY LedgerAssumption
    <3>2. SumFunction(f) \in Nat /\ SumFunction(g) \in Nat
      BY <2>3, <2>5, <3>1, SumNat
    <3>3. SumFunction(f) <= SumFunction(g)
      BY <2>3, <2>4, <2>5, <3>1, SumMonotone
    <3>4. QED
      BY <3>2, <3>3
  <2>7. QED
    BY <2>1, <2>3, <2>6, LedgerAssumption
<1>2. QED
  BY <1>1, ProxyInvariant, PTL
=============================================================================

------------------------------ MODULE SpendProxy ------------------------------
(***************************************************************************)
(* The spend proxy, core/pkg/spendproxy, over the governed gateway handler *)
(* (core/pkg/api/governed_gateway.go) and the engine: every request quotes,*)
(* appends its quote to the durable receipt log, calls the provider,       *)
(* settles, and appends its receipts.  A process may stop at any point; a  *)
(* new one replays the log.                                                *)
(*                                                                         *)
(* The log is kept per spend intent, that is per key, and per kind of      *)
(* line, because replay groups its lines so; lines that replay skips       *)
(* (route quotes, budget verdicts) are counted or left out.  A write may   *)
(* fail with part of the line written (torn), with none of it, or at the   *)
(* fsync with all of it.  The handlers do not reserve, so reservations,    *)
(* movements and freezes of the ledger are not exercised here.             *)
(***************************************************************************)
EXTENDS InferenceEngine, SequencesExt

CONSTANTS MaxStarts, MaxFaults   \* bounds on restarts and failed appends

VARIABLES
    up,         \* "up", "down", or "refused": NewServer returned an error
    log,        \* log[k][kind]: the receipts on the lines of a kind of k
    quotes,     \* quotes[k]: the durable route_quote lines of k
    torn,       \* some line of the log cannot be parsed
    sent,       \* sent[k]: provider calls made for k, over all processes
    durable,    \* durable[r]: no append of r has failed
    clean,      \* the last stop found no request in progress
    starts, faults

proxy == <<up, log, quotes, torn, sent, durable, clean, starts, faults>>
proxyVars == <<vars, proxy>>

Kinds == {"usage", "settlement"}
Active(r) == run[r].pc \notin {"idle", "done", "lost"}

\* FileStore.Append to the lines f[k]; ok is what the caller is told.
AppendLine(f, k, ok, extended) ==
    \/ ok /\ f' = [f EXCEPT ![k] = extended] /\ UNCHANGED <<torn, faults>>
    \/ /\ ~ok /\ faults < MaxFaults /\ faults' = faults + 1
       /\ \/ f' = [f EXCEPT ![k] = extended] /\ UNCHANGED torn
          \/ UNCHANGED f /\ torn' \in {torn, TRUE}

-----------------------------------------------------------------------------
(* One request *)

\* A rejected quote is recorded best effort, on a line that replay skips.
proxyQuote(r) ==
    /\ up = "up"
    /\ QuoteRejected(r) \/ \E k \in Keys, q \in Amounts : Quote(r, k, q)
    /\ UNCHANGED proxy

\* Mutant: the provider is called although the append failed.
appendQuoteOrLog(r) ==
    LET k == run[r].key IN
    /\ run[r].pc = "quoted"
    /\ \E ok \in BOOLEAN : AppendLine(quotes, k, ok, quotes[k] + 1)
    /\ Advance(r, "ready")
    /\ UNCHANGED <<ledger, payment, up, log, sent, durable, clean, starts>>

\* governedDispatch: the authorized quote is on disk before the provider is
\* called; a failed append refuses the dispatch.
appendQuote(r) ==
    LET k == run[r].key IN
    /\ run[r].pc = "quoted"
    /\ \/ AppendLine(quotes, k, TRUE, quotes[k] + 1) /\ Advance(r, "ready")
       \/ AppendLine(quotes, k, FALSE, quotes[k] + 1) /\ End(r)
    /\ UNCHANGED <<ledger, payment, up, log, sent, durable, clean, starts>>

\* Upstream.Dispatch.  A call whose answer is an error or is lost was sent.
upstreamDispatch(r) ==
    /\ run[r].pc = "ready"
    /\ \/ Dispatch(r) /\ sent' = [sent EXCEPT ![run[r].key] = @ + 1]
       \/ DispatchFails(r) /\ sent' = [sent EXCEPT ![run[r].key] = @ + 1]
    /\ UNCHANGED <<up, log, quotes, torn, durable, clean, starts, faults>>

\* Engine.Settle; a replay is answered at once.
settle(r) ==
    /\ \/ \E c \in Amounts \cup {0} : Lookup(r, c)
       \/ Consume(r) \/ Commit(r)
    /\ UNCHANGED proxy

\* persistOutcome: the usage line, then the settlement line, the handler going
\* on when an append fails.  (The verdict line before them is one replay skips.)
persist(r, kind, pc, next) ==
    LET k == run[r].key IN
    /\ run[r].pc = pc
    /\ Advance(r, next)
    /\ \E ok \in BOOLEAN :
         /\ AppendLine(log, k, ok, [log[k] EXCEPT ![kind] = Append(@, run[r].receipt)])
         /\ durable' = [durable EXCEPT ![r] = @ /\ ok]
    /\ UNCHANGED <<ledger, payment, up, quotes, sent, clean, starts>>

persistOutcome(r) ==
    persist(r, "usage", "settled", "usage") \/ persist(r, "settlement", "usage", "done")

-----------------------------------------------------------------------------
(* Stop and start *)

\* The process ends, in the middle of an append or not; requests in progress
\* get no answer.
Stop ==
    /\ up = "up"
    /\ up' = "down"
    /\ clean' = ~\E r \in Requests : Active(r)
    /\ torn' \in IF \E r \in Requests : run[r].pc \in {"quoted", "settled", "usage"}
                 THEN {torn, TRUE} ELSE {torn}
    /\ run' = [r \in Requests |->
                 IF Active(r) THEN [Idle EXCEPT !.pc = "lost"] ELSE run[r]]
    /\ UNCHANGED <<ledger, payment, log, quotes, sent, durable, starts, faults>>

\* The debits on the usage lines of a key.
UsageDebits(k) ==
    SumFunction([i \in 1..Len(log[k]["usage"]) |-> log[k]["usage"][i].debit])

\* Mutant: of several usage lines of a key the first is counted.
DebitedFirst ==
    SumFunction([k \in Keys |->
        IF log[k]["settlement"] = <<>> \/ log[k]["usage"] = <<>> THEN 0
        ELSE Head(log[k]["usage"]).debit])

\* DebitedCents: every usage line of a key that has a settlement line.
DebitedCents ==
    SumFunction([k \in Keys |->
        IF log[k]["settlement"] = <<>> THEN 0 ELSE UsageDebits(k)])

\* Mutant: a key with several usage lines is left out.
RestoredUnambiguous(k) == Len(log[k]["usage"]) = 1 /\ log[k]["settlement"] # <<>>

\* ReplayRecords restores the last usage and the last settlement line of a key
\* that has both; RestoreSettlement refuses a settlement of another usage.
Restored(k) == \A kind \in Kinds : log[k][kind] # <<>>
LastOf(kind, k) == Last(log[k][kind])

ReplayFails ==
    \/ torn
    \/ DebitedCents > Opening
    \/ \E k \in Keys : Restored(k) /\ LastOf("usage", k) # LastOf("settlement", k)

\* NewServer over the log.
NewServer ==
    /\ up = "down" /\ starts < MaxStarts
    /\ starts' = starts + 1
    /\ \/ /\ ReplayFails
          /\ up' = "refused"
          /\ UNCHANGED <<account, settled, lines>>
       \/ /\ ~ReplayFails
          /\ up' = "up"
          /\ account' = NewBalanceLedger(Opening - DebitedCents)
          /\ settled' = [k \in Keys |->
               IF Restored(k) THEN LastOf("usage", k) ELSE None]
          /\ lines' = [credit |-> 0, debit |-> 0, accrual |-> 0]
    /\ UNCHANGED <<invoicing, reservations, movements, engine, log, quotes,
                   torn, sent, durable, clean, faults>>

ProxyInit ==
    /\ LedgerInit /\ ~invoicing
    /\ EngineInit
    /\ up = "up"
    /\ log = [k \in Keys |-> [kind \in Kinds |-> <<>>]]
    /\ quotes = [k \in Keys |-> 0]
    /\ sent = [k \in Keys |-> 0]
    /\ durable = [r \in Requests |-> TRUE]
    /\ torn = FALSE /\ clean = TRUE
    /\ starts = 0 /\ faults = 0

handleInference(r) ==
    proxyQuote(r) \/ appendQuote(r) \/ upstreamDispatch(r) \/ settle(r) \/ persistOutcome(r)

ProxyNext == (\E r \in Requests : handleInference(r)) \/ Stop \/ NewServer

ProxySpec == ProxyInit /\ [][ProxyNext]_proxyVars

-----------------------------------------------------------------------------
(* Properties *)

\* Every provider call that any process has made, whatever happened to it since,
\* has a route_quote line of its own in the durable log.
NoUnreceiptedDispatch == \A k \in Keys : sent[k] <= quotes[k]

\* A request told that it was settled, whose appends succeeded.
Acknowledged(r) ==
    run[r].pc = "done" /\ run[r].answer = "settled" /\ durable[r]

\* What was acknowledged with its receipts on disk is known to every later
\* process that starts: the key answers with the same receipts and is not
\* debited again.
AcknowledgedSurvives ==
    up = "up" =>
        \A r \in Requests : Acknowledged(r) => settled[run[r].key] = run[r].receipt

\* The balance of every later process has the acknowledged debits taken off,
\* once for each key, and is never negative: a restart may debit too much, it
\* gives nothing back.
AcknowledgedStaySpent ==
    up = "up" =>
        LET Spent(k) == {run[r].receipt.debit : r \in
                            {q \in Requests : Acknowledged(q) /\ run[q].key = k}}
        IN  0 <= account.balance /\ account.balance <= Opening -
              SumFunction([k \in Keys |->
                  IF Spent(k) = {} THEN 0 ELSE CHOOSE d \in Spent(k) : TRUE])

\* server.go: "Startup replays the durable receipt log so the balance and the
\* idempotency index survive restarts".  A process that was stopped between
\* requests, all of whose appends succeeded, is followed by one that starts with
\* the same balance and index.
RestartPreservesLedger ==
    [][ NewServer /\ clean /\ faults = 0 /\ starts = 0 =>
          up' = "up" /\ account' = account /\ settled' = settled ]_proxyVars
=============================================================================

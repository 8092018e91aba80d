# TLA+ models of the HELM governance kernel

HELM stands between agents and the systems they act on. The part whose
correctness matters most, and which is hardest to test, is the *governed effect
boundary*: the path of an approved external write from the human approval to the
request on the network and the signed closure of its outcome, with an emergency
stop that may arrive at any moment. Around it stand the two other pieces of
state that authority depends on: the *policy* that is in force, with its replay
watermark on disk, and the *money* that governed inference spends, with its
receipt log. This directory holds TLA+ models of these, the TLC configurations
that check them on small instances, and TLAPS proofs of their safety properties and
of both refinements for every value of the constants.

All paths below are relative to the repository.

## Inventory

| component | state | operations | what is hard |
|---|---|---|---|
| approval ceremony (`core/pkg/boundary/approvalceremony/service.go`, `postgres_store.go`, `consumption_service.go`, handlers in `core/cmd/helm-ai-kernel/approval_consumption_routes.go`) | one row per binding: hold, challenge, quorum, grant, consumption | BeginOrResume, IssueChallenge, VerifyQuorum, IssueGrant, ConsumeGrant, Deny, Expire | every operation reads the row and the replica's clock first and then issues one guarded UPDATE; handlers retry lost races a fixed number of times; the FENCE is read early by the handler and again in the consuming transaction |
| dispatch admission (`dispatch_admission.go`, `postgres_dispatch_admission.go`) | one signed admission per attempt | Claim, Recover | lost answers and retries; one attempt per consumption; lifetimes capped by the grant |
| effect reservation, disposition and close (`postgres_effect_reservation.go`, `postgres_effect_disposition.go`, `postgres_effect_close.go`) | append-only event stream, disposition chain and closure per admission | Admit, MarkStarted, MarkNotStarted, MarkUncertain, Record, Close, Recover | FENCE, revocation and key rotation between any two of them; commands signed against an old head; records that must verify for ever |
| connector release authority (`core/pkg/registry/connectors/authority*.go`) | revisions of a release, its head | Append, LockCurrentCertified… | revocation racing admission and start |
| governed MCP bridge (`core/pkg/runtimeadapters/mcp/bridge.go`) | nonces in memory | govern | some twenty calls to shared state, each with its own error path; crashes; lost answers; concurrent identical calls |
| GitHub connector (`core/pkg/connectors/github/connector.go`) | none of its own | execute | durable start before the request, uncertain outcomes after it |
| scoped emergency stop (`core/pkg/kernel/scoped_stop.go`) | one fence row per tenant/workspace | Fence, IsFenced | two dialects: with advisory locks, and without any |
| policy reconciler (`core/pkg/policy/reconcile/reconcile.go`, `persistent_store.go`) | installed snapshot, watermark in memory and on disk | Reconcile, Swap, NewPersistentSnapshotStore | the source changes between Head and Load; rename and directory sync are two steps, with a stop or power loss between them; retention ages while a reconcile runs |
| guardian binding (`core/pkg/guardian/guardian.go`) | signed decisions | EvaluateDecision, IssueExecutionIntent | a decision outlives the policy it was made under, and the process; the policy is checked before the intent is signed, under no lock |
| inference gateway (`core/pkg/inferencegateway`) | one balance: holds, reservations, settlements, posted entries | Quote, ReserveForDispatch, Settle, ReleaseReservation, credits, accruals, freezes, RecordPaymentFailure | the mutex is held per method, so Settle is three critical sections and a payment failure three; one key used by several requests |
| spend proxy (`core/pkg/spendproxy`, `core/pkg/api/governed_gateway.go`) | append-only receipt log | handleInference, FileStore.Append, NewServer | failed, torn and unsynced appends; a stop at any point; replay of a log that concurrent requests wrote |

The ceremony ends in an admission; the bridge presents it and reserves the
effect; the connector marks the start, sends, and marks what it knows; a
reconciler closes the reservation with the connector's signed acknowledgement.
FENCE shares an advisory lock with consumption, admission, reservation,
disposition and close, so it is ordered with respect to each of them.

The policy reconciler feeds the Guardian, whose decisions open a ceremony; the
spend proxy runs the gateway's engine over the ledger and writes what it did to
its log.

What makes each part correct: nothing is admitted, started or consumed after a
stop; a request is sent at most once, and only by the call that recorded its
start; what is reported to the caller is true of the durable stream; identity
and authority are written once; every stored record verifies for ever; a fence
never moves back, and every caller of one command gets the same receipt; a policy
epoch never moves back either, and what is in force is what the source
published; money is debited once for each key, is never promised twice, and
stays spent after a restart.

`PROJECT.json` lists the remaining components of the repository with the reason
each one is not modelled (yet), and the hazards with the line where each bites.

## Modules

| module | models | variables and actions |
|---|---|---|
| `EffectReservation` | the effect store and its environment | `events`, `disps`, `closure`, `admission` are the tables, `fence`, `release`, `enabled`, `now` what the transactions read. One action per store operation: each is one transaction under the scope lock. A refused or replayed call is a stuttering step; `admitOutcome` and `transitionOutcome` give its answer. |
| `EffectReservationProofs` | theorems about it | |
| `GovernedEffect` | what the boundary promises, abstractly | an effect is committed or voided, not both; sent once and after the commitment; no commitment after a stop |
| `GovernedDispatch` | `govern` and `execute` over `EffectReservation` | `call[c]` is the program counter of one invocation, with one step per access to shared state; `nonces[p]` dies with its process; `Fault`s are failed store calls, lost answers and crashes |
| `GovernedDispatchProofs` | theorems about it | |
| `FenceRegister` | what FENCE promises, abstractly | an epoch that only grows and covers what was acknowledged |
| `ScopedStop` | `Fence`, statement by statement | `row[s]`, `lock[s]`, `req[r]`; `scopeLocks`, chosen from `ScopeLockModes`, is the dialect |
| `ScopedStopProofs` | theorems about it | |
| `ApprovalCeremony` | the ceremony and the dispatch admission | `row` is the ceremony row, `admission[x]` the admissions, `req[r]` the requests being served: fence check, read, captured clock, guarded UPDATE; `lag`, chosen from `Lags`, is how far the clocks of two replicas differ |
| `ApprovalCeremonyProofs` | theorems about it | |
| `BalanceLedger` | the ledger's methods | `account`, `settled`, `reservations`, `movements`; `lines` are the totals of the posted entries. One action for each method, since each runs under the mutex; the refusals are predicates for the callers |
| `InferenceEngine` | concurrent requests over `BalanceLedger` | `run[r]` is the progress and the answer of a request, `payment` that of RecordPaymentFailure; one step for each critical section |
| `SumTheorems`, `InferenceEngineProofs` | lemmas about sums over finite functions; theorems about ledger and engine | |
| `SpendProxy` | the proxy over `InferenceEngine`, its log and its restarts | `log[k][kind]` and `quotes[k]` are the lines of one spend intent, kept per kind because replay groups them so; `torn` a line that does not parse; `AppendLine` succeeds, or fails with all, none or part of the line written |
| `SpendProxyProofs` | theorems about it | |
| `PolicyReconciler` | Reconcile, the watermark store and the Guardian's binding | `source` is what the source publishes now, `rec` the reconcile in progress with one step for each access to source, file or snapshot; `wm`, `disk` and `synced` are the watermark in memory, in the file and on stable storage; `decision` and `issuing` the decision the Guardian follows: the policy check of an intent and its signature are two steps |
| `PolicyReconcilerProofs` | theorems about it | |

`GovernedDispatch` extends `EffectReservation`, so the proofs' subject is the
store the bridge runs on; `SpendProxy` extends `InferenceEngine`, which extends
`BalanceLedger`, so the proxy runs the very actions the `inference` run
checks. `MC*.tla` fix the small sets of the instances.

Abstractions common to all: one tenant/workspace scope (two in `ScopedStop`),
one connector release; signatures are sound and a hash stands for the record it
was taken of; column layout, JSON, wording and logging are left out;
`proof_session_ref` obeys the rules of `intent_ref` and is folded into it; the
ceremony is that of one `binding_ref`. In `GovernedDispatch` the reconciler and
the signed acknowledgement are external: `Acknowledge` is truthful about the
source and does not acknowledge an effect that a live call is just about to
send. The store cannot check that, and `ClosedTruthfully` depends on it.
The ceremony leaves out the validation that `withScopedRecord` runs before it
commits; `RowsValidate` shows that the UPDATEs leave it nothing to refuse.
`PolicyReconciler` is one scope with persistence, as `main.go` starts it: a
content stands for its hash, signatures and the emergency capsule (for which
`main.go` configures no verifier) are part of whether a head is acceptable, and a
head is read in one step although `MountedFileSource` reads the data before its
modification time. One decision is followed at a time, and `EvaluateDecision` ends
where the decision is bound to its snapshot: what follows, its signature included,
reads no policy state. In `InferenceEngine` envelope, routes and price books are a
nondeterministic quote, and callers may reserve or not: no handler in the
repository calls `ReserveForDispatch`, although `engine_lifecycle.go` says that
every dispatch must reserve.

## Runs

| run | shows |
|---|---|
| `store` | one admission, two executions and effects, two FENCE epochs, two release revisions, two dispositions, time 1..3. `StopFreezesWork`: no admission and no start commits under FENCE or revocation. `ExecutionIdentityPreserved`: what was started is what is closed. `CloseObeysInstruction`: a close under FENCE carries out the latest instruction for the exact head. `ClosureRecoverable`, `DispositionsRecoverable`: what `Recover` verifies keeps verifying. |
| `dispatch` | two concurrent calls for one admission, three faults. `SentOnceByRecordedStart`, `ReportsTruthful`, `ClosedTruthfully`; without faults every returned call has settled its reservation (`SettledWithoutFaults`); `ImplementsGovernedEffect` is the refinement of `GovernedEffect`. |
| `dispatch_liveness` | two calls in two processes, which share no nonces: `CallsReturn`. |
| `stop` | three requests over four commands, among them a reused `command_id`, with advisory locks and without, failures and lost answers. `OneReceiptPerCommand`; `StaleStopIsCovered`: a stop refused as stale finds its scope fenced at its epoch or a higher one, then and ever after, also without locks; `RetryRefusedOnlyWhenSuperseded`: a retry of a committed command is refused only after a later epoch has replaced it; refinement of `FenceRegister`; `RequestsEnd`. |
| `ceremony` | two handlers at a time, clocks that agree or are one unit apart, FENCE and rotation of the authority snapshot. `RowsValidate`, `AdmissionWithinCeremony`, `AuthorityWrittenOnce`, `FenceFreezesAuthority`; `RetriesSuffice` for agreeing clocks only, since with lagging clocks a handler can use up its turns against its own stale clock. |
| `inference` | three requests over two keys, one credit or accrual, invoicing, freezes. `Conserved`: one debit for each settled key, whoever raced. `HoldBacksOpenReservations`: the clamp at zero never hides a hold dropped twice. `Solvent`: nobody is promised held funds. `OneOutcomePerKey`: winner, loser and replay get the same receipts. `ConsumedForDebit`, `PaymentFailureFreezes`, `FrozenAccountRests`. |
| `spend_proxy` | three requests over two keys, one failed append, two restarts. `NoUnreceiptedDispatch`: each provider call has its durable quote line. `AcknowledgedSurvives`, `AcknowledgedStaySpent`: what was acknowledged with its receipts on disk answers the same after any restart and is never given back. |
| `policy` | a source that changes at any moment, two failed writes, stops or losses of power, retention on and off. `NoRollback`, `ServedAsPublished`, `StableWatermarkRises`, `RetentionEnds`, `PolicyConverges`. |
| `uncertain_close`, `identical_write`, `proxy_restart`, `policy_restart` | the findings below, as expected violations. |

Bounds. Time is counted in a few ticks because the code only compares times;
three ticks put an event before, at and after a bound, and the ceremony has four
so that hold, challenge, grant and expiry can fall on different ones. One
admission is enough for the store, whose operations never relate two. Two calls
are the smallest set with a race; slots of `Requests` in the ceremony are reused, so
any number of requests follow each other, two at a time. Three faults let NOT_STARTED,
UNCERTAIN and Recover fail in one call. `MaxEpoch = 2` rotates the FENCE between
an instruction and a close. Three requests over two keys are the smallest set in
which a key is raced while another holds funds; amounts of 1 and 2 against an
opening balance of 2 (3 in the proxy) make a second hold or debit fit or not. Two
policy epochs, two contents that compile and one that does not give rollback,
contradiction at the same epoch and a broken bundle; `MaxAge = 1` lets retention be
fresh or expired; two faults are a failed sync followed by a stop, or a stop and a
loss of power. The ceremony has one challenge specification, since it only travels
from the hold to the grant.

Deadlock is not checked: each instance really stops, when the clock reaches
its bound and every request has been answered.

Fairness. `dispatch_liveness` assumes weak fairness of each call's steps: a
goroutine that can run, runs, and a store call returns. Nothing is assumed of
faults, clock, FENCE or acknowledgement. `stop` assumes strong fairness
of each request's steps, because PostgreSQL grants an advisory lock to waiting
transactions in turn. `policy` assumes weak fairness of the reconcile steps (the
polling loop of `Start` never stops calling Reconcile), of the clock, and of the
start of a new process (a supervisor restarts a kernel that ended); nothing is
assumed of source, Guardian or faults.

## Findings

1. After a dispatch error the connector records an `effect_ref`, after which the
   store accepts no acknowledgement that the effect was NOT_APPLIED
   (`uncertain_close`), although `docs/operations/effect-close.md` lists that path.
2. Writes are said to have deterministic nonces, but the nonce depends on the time
   of the decision, so an identical write is not a replay (`identical_write`). The
   durable start still lets only one of the calls send.
3. The loser of two concurrent settlements of one key is given the winner's
   receipts but is not marked as a replay, so the proxy appends usage and settlement
   twice and the next process takes the debit off twice (`proxy_restart`). The error
   is on the safe side, as `AcknowledgedStaySpent` shows.
4. The mark that a renamed watermark was not synced lives in memory only. A process
   restarted at that point serves the epoch without a sync, and power loss can then
   undo it (`policy_restart`). `NoRollback` is therefore stated, and proved, for
   histories in which no process inherited an unsynced file.

Observations that contradict no promise strongly enough to be a finding:

- A replay of a superseded FENCE command is refused and does not return the original
  state, which the comment at `core/pkg/kernel/scoped_stop.go:469` could be read to
  promise; `RetryRefusedOnlyWhenSuperseded` states exactly when.
- The `UNIQUE` constraint on `command_id` (`scoped_stop.go:330`) covers the rows in
  force only. Once a later epoch has replaced a command's row, the same `command_id` is
  accepted again, in the same scope or in another, although `scoped_stop.go:82` calls it
  the idempotency key. No property says that a `command_id` is used once.
- `Fence` answers every error of its upsert with `ErrScopedStopConflict`
  (`scoped_stop.go:632`), a lost connection included, and
  `emergency_stop_routes.go:136` reports it as "conflicts with the active fence" even
  when the scope has none. `fail` and `upsertFence` therefore may answer "conflict".
- `guardian.go:640` says that "a signed decision is only executable while its bound
  snapshot remains active", and `protocols/specs/rfc/reason-codes-v1.md:45` denies an
  intent whose epoch changed before it was issued. The snapshot is read at
  `guardian.go:636` and the intent signed at line 715, with no lock between them, so a
  reconcile may swap or invalidate the snapshot in between. `PolicyReconciler` has this
  window (`IssueExecutionIntent`, then `signIntent`), and in it an intent can be signed
  for a policy that is no longer in force: a bad source is enough. What the check does
  give is that the snapshot was active after issuing began.
- Invoicing is said to permit a negative balance (`inferencegateway/store.go:115-116`,
  `166-169`, `lifecycle_test.go:114-115`). Only Reserve (`lifecycle.go:183`) and
  `Adjust`, which refuses every call, read `allowNegativeBalance`; the debit
  (`store.go:314`) is refused beyond the available funds in either case. So an invoiced
  account may reserve and dispatch beyond its balance, and the debit is then refused
  after the provider was called. That the balance stays a natural number with invoicing
  on, as `TypeOK` of `InferenceEngine` says, describes this code, not that intention.
- A settlement whose commit is refused leaves its reservation consumed; one that
  expired or was escalated leaves the hold open until somebody releases it.
- `Adjust` refuses every call, because its receipt validation rejects the legacy
  approval it requires; `handleStream` is unreachable, since `handleInference` refuses
  streams.
- `RecordPaymentFailure` reports an error when a debit or credit falls between its
  first read and its freeze, although the account is frozen.
- `RestoreSettlement` says that a replay is answered "instead of dispatching", but the
  handlers call the provider before `Settle` looks the key up.
- A torn line, or a debit counted twice past the opening balance, keeps `NewServer`
  from starting until an operator repairs the log.
- A last-known-good snapshot stays in force past its age until the next Reconcile.
  An error of Swap leaves the installed snapshot in force: after a failed directory
  sync, a source that goes back to the old head makes Swap refuse each time, and the
  old snapshot outlives its age. `RetentionEnds` is about sources that stay bad.

## Proofs

`EffectReservationProofs` proves for every set of admissions, references and
keys, every clock and every bound, from `NoneAssumption`, `BoundsAssumption` and
`NoRowAssumption` only (the absent value is none of the others, bounds are
naturals):

- `TypeCorrect`: `Spec => []TypeOK`, by one lemma per operation on what it writes.
- `StopFreezes` and `CloseObeys`: the action properties, from `TypeOK` and the
  guards of the one operation that can write the event in question
  (`HasInsert`, `StartInterlock`, `CompletedWriter`).
- `IdentityPreserved`, `DispositionsStayRecoverable`, `ClosuresStayRecoverable`.
  None of the three is inductive by itself: that a stored closure still verifies
  depends on the events before it, which say nothing unless each of them was
  valid when it was appended. The strengthening is `StreamsValid`: a stream
  exists only for a persisted admission, every event satisfies the code's own
  `Validate` at its position, and NOT_STARTED and COMPLETED end a stream. Every
  step either leaves streams alone (`KeepsStreams`) or appends one event linked to
  its predecessor (`Extends`, `Linked`); these two forms, not the single actions,
  are what the last proofs split on. Records refer to positions of the stream, and
  appending changes no earlier position.

`PolicyReconcilerProofs` proves for every set of epochs and policies, every retention
age and any number of faults, from `PolicyAssumption` (epochs and bounds are
naturals) and `NoneAssumption`:

- `PolicyNeverRollsBack`: `Spec => []NoRollback`; `PolicyServedAsPublished` and
  `PolicyWatermarkRises` likewise.
- All three come from `PolicyInvariant`, the inductive `PolicyInv`. `NoRollback` alone
  is not inductive: it says nothing of the floor a future swap is compared with.
  `FloorsOrdered` orders the three floors (the file covers stable storage; memory
  equals the file except between rename and sync, where the file is the head being
  installed and covers both). `ServedCovered` ties history to them: while no process
  inherited an unsynced file, a confirmed floor is stable and covers everything that
  was ever in force, so a loss of power falls back to a floor that still refuses
  rollback. `Provenance` says that a head past Load compiles and was offered.
  Covering is transitive (`CoversOrder`), the fact most steps rest on.

`GovernedDispatchProofs` proves for any number of calls, admissions, processes,
failures and crashes, from the store's assumptions and `CallsAssumption` (there is a
tick of time, and the reason codes the bridge writes are reason codes of the store):

- `DispatchUsesStore`: `DispatchSpec => Spec`. The composition only takes steps of the
  store, so each theorem of `EffectReservationProofs` holds of it.
- `DispatchSendsOnce`, `DispatchReportsTruthful`, `DispatchSettles` and
  `DispatchClosedTruthfully`, from `DispatchInvariant`. None of them is inductive: that
  a call sends alone follows from what it knew before it sent. `PointOK` says for each
  point of a call's program what the durable stream then says: a call about to send is
  named by the STARTED event with its own permit (`StartedBy`), one that has not
  reached that point has sent nothing, and one that failed after the start knows only
  that there is a start. The second row of a stream is never rewritten, which makes
  these facts stable under every step of every other call; `AdmittedOK` keeps, while
  nothing has failed, a call that is going to resolve each ADMITTED reservation.
- `DispatchImplementsEffect`: the refinement of `GovernedEffect`. Every store step maps
  to commit, void, stop or a stutter, the connector's request to a send.

`ScopedStopProofs` proves for any set of commands, scopes and requests and for both
dialects, from `CommandsAssumption` (commands name a scope and a positive epoch) and
`NoneAssumption`: `StopOneReceipt`, `StopStaleCovered`, `StopRetries`, and
the refinement `StopImplementsRegister`. The invariant `StopInv` adds to them that the
row of an acknowledged command holds its very receipt until a higher epoch replaces it,
that a request whose upsert changed nothing, and reads the row again, has its epoch
covered already (both `ReceiptOf`), and that a retry finds its command or a higher epoch and so never
writes (`RetryOf`). No fact about the lock is needed: the guard of the upsert alone
makes rows rise, which is why the dialect without advisory locks is safe too.

`ApprovalCeremonyProofs` proves for any set of subjects, requests, attempts and any
clock lag, from `CeremonyConfig` (what the service's
configuration checks demand of the lifetimes) and `NoneAssumption`: `CeremonyRowsValidate`,
`CeremonyAdmission`, `CeremonyAuthorityWrittenOnce`, `CeremonyFence`, and
`CeremonyRetriesSuffice`. `CeremonyInv` adds what a handler has established and does not
check again when it writes (`Established`: there is a row, its hold is old enough, the
quorum was met, the captured time has been). The row only moves forward (`Extends`),
which keeps those facts true while other handlers write. `CeremonyRetriesSuffice` has an
invariant of its own, `TurnInv`: every turn a handler loses was won by somebody who
moved the row a stage further, and there are no more stages than turns.

`InferenceEngineProofs` proves for any set of keys (finite, as `LedgerAssumption` says),
requests and amounts: `EngineTypes`, `EngineConserves`, `EngineHoldsBacked`,
`EngineSolvent`, `EngineOneOutcome`, `EngineConsumes`, `EnginePaymentFreezes` and
`EngineFrozenRests`. `LedgerInv` is preserved by each method; `EngineInv` adds what each
request's row says about its key. The totals rest on `SumTheorems`: what changing one
value does to the sum of a function over a finite set (`SumUpdate`), that a sum is no
smaller than its parts (`SumAtLeast`) and monotone (`SumMonotone`). The community
modules define sums by recursion, and the library's induction rules cannot be
instantiated here, so these lemmas argue by a minimal counterexample among the subsets
of the domain, which exists because strict inclusion is well founded on them.

`SpendProxyProofs` proves for any number of requests, keys, failed appends and restarts:
`ProxyReceiptsDispatch`, `ProxyAcknowledgedSurvives` and `ProxyAcknowledgedStaySpent`.
`ProxyInv` needs, for the first, that the requests about to call the provider have
their quotes on disk too (`QuotesCover` counts them); for the second, that the last
lines of an acknowledged key carry its receipts (`Recorded`), which another request's
append does not disturb because the index of the running process holds the same
receipts; for the third, that what the index says was debited has left the balance
(`DebitsLeft`), after a restart because `DebitedCents` sums at least the last usage
line of each restored key (`ReplayCovers`).

Each inductive invariant was checked by TLC on the instance of its run before it was
proved.

Only model-checked, because fairness is out of the proof system's reach: `CallsReturn`,
`RequestsEnd`, `RetentionEnds` and `PolicyConverges`. The four expected violations are
counterexamples on small instances and need no proof.

## Not modelled, and the plan

Not modelled: guardian decisions over data (CEL policies, threat scans),
canonical JSON and cryptography, formats and clients, small tables under one
mutex. See the notes in `PROJECT.json`. Of the modelled parts: reads that change
nothing (`Reconciles`, the finance export, which read under separate locks), the
in-memory `AtomicSnapshotStore` of non-production modes (it forgets epochs with its
process), and the mounting of policy sources.

Next, in this order:

1. Linear connector (reserved nonces with expiry) as a second user of
   `GovernedDispatch`; `ListActive` and the reconciliation candidates.
2. Budget enforcement, task leases, saga compensation, circuit breaker, SafeDep and
   escalation approvals.
3. Proofs along the new modules; that `SpendProxy` between two restarts takes the steps
   of `InferenceEngine`, as `DispatchUsesStore` shows of the dispatch and the store.

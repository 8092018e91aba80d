-------------------------- MODULE GovernedDispatch --------------------------
(***************************************************************************)
(* Concurrent calls of GovernedBridge.Govern for approved writes           *)
(* (core/pkg/runtimeadapters/mcp/bridge.go) through the lifecycle-aware    *)
(* GitHub connector (core/pkg/connectors/github/connector.go), over the    *)
(* store of EffectReservation.  Several kernel processes share the store;  *)
(* each keeps its consumed nonces in memory.  A store call may fail before *)
(* it commits, or commit and lose its answer; a process may crash between  *)
(* any two steps and restart with empty memory.  The number of failures is *)
(* bounded by MaxFaults.                                                   *)
(*                                                                         *)
(* A call is a program counter over the points where it touches shared     *)
(* state; the code between two such points is local to the call.           *)
(***************************************************************************)
EXTENDS EffectReservation

CONSTANTS
    Calls,          \* invocations of Govern
    Processes,      \* kernel processes
    ProcessOf,      \* the process that runs a call
    EffectOf,       \* the admission that the call's approval evidence carries
    MaxFaults       \* bound on failed store calls and crashes

ASSUME CallsAssumption ==
    /\ ProcessOf \in [Calls -> Processes]
    /\ EffectOf \in [Calls -> Admissions]
    /\ MaxFaults \in Nat
    /\ Calls \subseteq Intents /\ Calls \subseteq Effects
    /\ MaxTime >= 1 /\ 1..MaxTime \subseteq Execs
    \* The reason codes that the bridge and the connector record.
    /\ {"PRE_DISPATCH", "RESOLUTION_FAILED", "REJECTED", "START_DENIED",
        "START_AMBIGUOUS", "EVIDENCE_MISSING", "OUTCOME_UNCERTAIN",
        "LIFECYCLE_MISSING", "ERROR_AFTER_START", "SEAL_FAILED"} \subseteq Reasons

VARIABLES
    call,      \* call[c]: program counter and locals of the call
    nonces,    \* nonces[p]: MemoryNonceStore of process p
    sentBy,    \* sentBy[a]: calls that issued the request of a
    applied,   \* effects the source applied
    faults     \* failures so far

dispatchVars == <<call, nonces, sentBy, applied, faults>>
allVars == <<vars, dispatchVars>>

InFlight == {"admit", "nonce", "ready", "resolve", "resolve2", "resolve3",
             "connector", "reject", "start", "denied", "ambiguous", "dispatch",
             "evidence", "markEvidence", "markOutcome", "recover", "missing",
             "afterStart", "seal", "sealFailed"}

\* mintPermit: the nonce and the permit id hash the request and the decision
\* receipt, which carries the clock reading of this call.
Nonce(c) == <<EffectOf[c], call[c].permit>>

At(c, pc) == [call[c] EXCEPT !.pc = pc]
Failed(c, pc) == [call[c] EXCEPT !.pc = pc, !.err = TRUE]
Return(c, report) == [call[c] EXCEPT !.pc = "returned", !.report = report]

dispatchStateForReservation(state) ==
    CASE state = "ADMITTED" -> "admitted"
      [] state = "STARTED" -> "started"
      [] state = "NOT_STARTED" -> "not_started"
      [] state = "UNCERTAIN" -> "uncertain"
      [] OTHER -> "dispatch_failed"

Goto(c, next) == call' = [call EXCEPT ![c] = next]
Fault == faults < MaxFaults /\ faults' = faults + 1
NoFault == UNCHANGED faults
StoreUnchanged == UNCHANGED vars

-----------------------------------------------------------------------------
(* A lifecycle call to the store, continuing with one of two call states.   *)

Persist(c, state, meta, onSuccess, onError) ==
    LET a == EffectOf[c] IN
    \/ /\ Transition(a, state, meta)
       /\ \/ Goto(c, onSuccess) /\ NoFault
          \/ Goto(c, onError) /\ Fault          \* committed, answer lost
    \/ /\ transitionOutcome(a, state, meta) = "replay"
       /\ Goto(c, onSuccess) /\ NoFault /\ StoreUnchanged
    \/ /\ transitionOutcome(a, state, meta) \notin {"ok", "replay"}
       /\ Goto(c, onError) /\ NoFault /\ StoreUnchanged
    \/ Goto(c, onError) /\ Fault /\ StoreUnchanged    \* failed before commit

Refless(reason) == [reason |-> reason, exec |-> None, intent |-> None,
                    effect |-> None]
Identified(c, reason, effect) ==
    [reason |-> reason, exec |-> call[c].permit, intent |-> c, effect |-> effect]

LocalUnchanged == UNCHANGED <<nonces, sentBy, applied>>

-----------------------------------------------------------------------------
(* govern, up to the connector *)

\* Scope, boundary, policy and approval checks; then mintPermit.
BeginGovern(c) ==
    /\ call[c].pc = "idle"
    /\ \/ Goto(c, Return(c, "not_dispatched"))
       \/ Goto(c, [At(c, "admit") EXCEPT !.permit = now])
    /\ NoFault /\ StoreUnchanged /\ LocalUnchanged

\* admitWriteReservation and the ADMITTED check that follows it.
admitWriteReservation(c) ==
    LET a == EffectOf[c] IN
    /\ call[c].pc = "admit"
    /\ \/ /\ Admit(a)
          /\ \/ Goto(c, At(c, "nonce")) /\ NoFault
             \/ Goto(c, Return(c, "not_dispatched")) /\ Fault
       \/ /\ admitOutcome(a) = "replay"
          /\ IF Current(a).state = "ADMITTED" THEN Goto(c, At(c, "nonce"))
             ELSE Goto(c, Return(c, "admitted"))
          /\ NoFault /\ StoreUnchanged
       \/ /\ admitOutcome(a) = "refused"
          /\ Goto(c, Return(c, "not_dispatched"))
          /\ NoFault /\ StoreUnchanged
       \/ Goto(c, Return(c, "not_dispatched")) /\ Fault /\ StoreUnchanged
    /\ LocalUnchanged

\* consumeNonce: RecordIfAbsent in the memory of this process.
consumeNonce(c) ==
    LET p == ProcessOf[c] IN
    /\ call[c].pc = "nonce"
    /\ IF Nonce(c) \in nonces[p]
       THEN /\ Goto(c, [At(c, "resolve") EXCEPT !.via = "replay"])
            /\ UNCHANGED nonces
       ELSE /\ Goto(c, At(c, "ready"))
            /\ nonces' = [nonces EXCEPT ![p] = @ \cup {Nonce(c)}]
    /\ NoFault /\ StoreUnchanged /\ UNCHANGED <<sentBy, applied>>

\* Mutant: a failed check returns without resolving the reservation.
checkEvidenceUnresolved(c) ==
    /\ call[c].pc = "ready"
    /\ \/ Goto(c, At(c, "connector"))
       \/ Goto(c, Return(c, "no_dispatch_proof"))
    /\ NoFault /\ StoreUnchanged /\ LocalUnchanged

\* verifyPermitBeforeDispatch and newExecutionReceipt.
checkEvidence(c) ==
    /\ call[c].pc = "ready"
    /\ \/ Goto(c, At(c, "connector"))
       \/ \E via \in {"permit", "receipt"} :
             Goto(c, [At(c, "resolve") EXCEPT !.via = via])
    /\ NoFault /\ StoreUnchanged /\ LocalUnchanged

\* What the call reports once its pre-dispatch failure is resolved: `state` is
\* the resolved reservation, `clean` whether NOT_STARTED was persisted.
Resolved(c, state, clean) ==
    Return(c, CASE call[c].via = "replay" -> dispatchStateForReservation(state)
                [] call[c].via = "receipt" /\ ~clean -> "uncertain"
                [] OTHER -> "no_dispatch_proof")

\* Mutant: the failure is reported as not started whatever the store answered.
resolveOptimistically(c) ==
    /\ call[c].pc = "resolve"
    /\ Persist(c, "NOT_STARTED", Refless("PRE_DISPATCH"),
               Resolved(c, "NOT_STARTED", TRUE), Resolved(c, "NOT_STARTED", TRUE))
    /\ LocalUnchanged

\* resolvePreDispatchFailure: NOT_STARTED, else UNCERTAIN, else Recover.
resolveNotStarted(c) ==
    /\ call[c].pc = "resolve"
    /\ Persist(c, "NOT_STARTED", Refless("PRE_DISPATCH"),
               Resolved(c, "NOT_STARTED", TRUE), At(c, "resolve2"))
    /\ LocalUnchanged

resolveUncertain(c) ==
    /\ call[c].pc = "resolve2"
    /\ Persist(c, "UNCERTAIN", Refless("RESOLUTION_FAILED"),
               Resolved(c, "UNCERTAIN", FALSE), At(c, "resolve3"))
    /\ LocalUnchanged

\* Mutant: the resolution is retried until it is persisted.
resolveAgain(c) ==
    /\ call[c].pc = "resolve3"
    /\ Goto(c, At(c, "resolve"))
    /\ NoFault /\ StoreUnchanged /\ LocalUnchanged

resolveRecover(c) ==
    /\ call[c].pc = "resolve3"
    /\ \/ Goto(c, Resolved(c, Current(EffectOf[c]).state, FALSE)) /\ NoFault
       \/ Goto(c, Resolved(c, "ADMITTED", FALSE)) /\ Fault
    /\ StoreUnchanged /\ LocalUnchanged

-----------------------------------------------------------------------------
(* Connector.execute *)

\* Tool, permit, gate, hash, preflight and permit-nonce checks.
connectorPrechecks(c) ==
    /\ call[c].pc = "connector"
    /\ Goto(c, At(c, "start")) \/ Goto(c, At(c, "reject"))
    /\ NoFault /\ StoreUnchanged /\ LocalUnchanged

\* failNotStarted; a failed preflight also names the intent node.
failNotStarted(c) ==
    /\ call[c].pc = "reject"
    /\ \E intent \in {None, c} :
         Persist(c, "NOT_STARTED", [Refless("REJECTED") EXCEPT !.intent = intent],
                 Failed(c, "recover"), Failed(c, "recover"))
    /\ LocalUnchanged

\* Mutant: an error that is not a denial is taken for an earlier success.
startOnAnyAnswer(c) ==
    LET a == EffectOf[c]
        meta == Identified(c, None, None)
    IN
    /\ call[c].pc = "start"
    /\ \/ /\ Transition(a, "STARTED", meta)
          /\ Goto(c, At(c, "dispatch")) /\ NoFault
       \/ /\ transitionOutcome(a, "STARTED", meta) = "start_denied"
          /\ Goto(c, At(c, "denied")) /\ NoFault /\ StoreUnchanged
       \/ /\ transitionOutcome(a, "STARTED", meta) \notin {"ok", "start_denied"}
          /\ Goto(c, At(c, "dispatch")) /\ NoFault /\ StoreUnchanged
    /\ LocalUnchanged

\* lifecycle.MarkStarted.  Any error of the interlock is a denial; any other
\* error, ErrEffectReservationAlreadyStarted included, is ambiguous.
startConnector(c) ==
    LET a == EffectOf[c]
        meta == Identified(c, None, None)
    IN
    /\ call[c].pc = "start"
    /\ \/ /\ Transition(a, "STARTED", meta)
          /\ \/ Goto(c, At(c, "dispatch")) /\ NoFault
             \/ Goto(c, At(c, "ambiguous")) /\ Fault
       \/ /\ transitionOutcome(a, "STARTED", meta) = "start_denied"
          /\ Goto(c, At(c, "denied")) /\ NoFault /\ StoreUnchanged
       \/ /\ transitionOutcome(a, "STARTED", meta) \notin {"ok", "start_denied"}
          /\ Goto(c, At(c, "ambiguous")) /\ NoFault /\ StoreUnchanged
       \/ /\ Current(a).state = "ADMITTED"
          /\ Goto(c, At(c, "denied")) /\ Fault /\ StoreUnchanged
       \/ Goto(c, At(c, "ambiguous")) /\ Fault /\ StoreUnchanged
    /\ LocalUnchanged

startDenied(c) ==
    /\ call[c].pc = "denied"
    /\ Persist(c, "NOT_STARTED", [Refless("START_DENIED") EXCEPT !.intent = c],
               Failed(c, "recover"), Failed(c, "recover"))
    /\ LocalUnchanged

startAmbiguous(c) ==
    /\ call[c].pc = "ambiguous"
    /\ Persist(c, "UNCERTAIN", Identified(c, "START_AMBIGUOUS", None),
               Failed(c, "recover"), Failed(c, "recover"))
    /\ LocalUnchanged

\* dispatch(ctx): the request leaves.  The source may apply it and the answer
\* be lost; an answer that arrives says it was applied.
dispatch(c) ==
    LET a == EffectOf[c] IN
    /\ call[c].pc = "dispatch"
    /\ sentBy' = [sentBy EXCEPT ![a] = @ \cup {c}]
    /\ \/ applied' = applied \cup {a} /\ Goto(c, At(c, "evidence"))
       \/ applied' = applied \cup {a} /\ Goto(c, Failed(c, "evidence"))
       \/ applied' = applied /\ Goto(c, Failed(c, "evidence"))
    /\ NoFault /\ StoreUnchanged /\ UNCHANGED nonces

\* Append of the EFFECT node; an error in the answer still appends one.
appendEffect(c) ==
    /\ call[c].pc = "evidence"
    /\ \/ Goto(c, Failed(c, "markEvidence"))
       \/ Goto(c, At(c, IF call[c].err THEN "markOutcome" ELSE "recover"))
    /\ NoFault /\ StoreUnchanged /\ LocalUnchanged

markEvidenceMissing(c) ==
    /\ call[c].pc = "markEvidence"
    /\ Persist(c, "UNCERTAIN", Identified(c, "EVIDENCE_MISSING", None),
               Failed(c, "recover"), Failed(c, "recover"))
    /\ LocalUnchanged

markOutcomeUncertain(c) ==
    /\ call[c].pc = "markOutcome"
    /\ Persist(c, "UNCERTAIN", Identified(c, "OUTCOME_UNCERTAIN", c),
               Failed(c, "recover"), Failed(c, "recover"))
    /\ LocalUnchanged

-----------------------------------------------------------------------------
(* govern, after the connector returned *)

recoverReservation(c) ==
    LET state == Current(EffectOf[c]).state IN
    /\ call[c].pc = "recover"
    /\ \/ Goto(c, Return(c, "uncertain")) /\ Fault
       \/ /\ NoFault
          /\ \/ state = "ADMITTED" /\ Goto(c, At(c, "missing"))
             \/ /\ state = "STARTED"
                /\ Goto(c, At(c, IF call[c].err THEN "afterStart" ELSE "seal"))
             \/ /\ state \notin {"ADMITTED", "STARTED"}
                /\ Goto(c, Return(c, dispatchStateForReservation(state)))
    /\ StoreUnchanged /\ LocalUnchanged

lifecycleMissing(c) ==
    /\ call[c].pc = "missing"
    /\ Persist(c, "UNCERTAIN", Refless("LIFECYCLE_MISSING"),
               Return(c, "uncertain"), Return(c, "uncertain"))
    /\ LocalUnchanged

\* The references are those of the STARTED event just recovered.
errorAfterStart(c) ==
    LET started == events[EffectOf[c]][2] IN
    /\ call[c].pc = "afterStart"
    /\ Persist(c, "UNCERTAIN",
               [reason |-> "ERROR_AFTER_START", exec |-> started.exec,
                intent |-> started.intent, effect |-> started.effect],
               Return(c, "uncertain"), Return(c, "started"))
    /\ LocalUnchanged

\* Output hash and execution receipt.
sealOutput(c) ==
    /\ call[c].pc = "seal"
    /\ Goto(c, Return(c, "dispatched")) \/ Goto(c, At(c, "sealFailed"))
    /\ NoFault /\ StoreUnchanged /\ LocalUnchanged

sealFailed(c) ==
    /\ call[c].pc = "sealFailed"
    /\ Persist(c, "UNCERTAIN", Refless("SEAL_FAILED"),
               Return(c, "uncertain"), Return(c, "uncertain"))
    /\ LocalUnchanged

-----------------------------------------------------------------------------
\* A process dies between two steps of its calls and restarts empty.
Crash(p) ==
    /\ \E c \in Calls : ProcessOf[c] = p /\ call[c].pc \in InFlight
    /\ call' = [c \in Calls |->
                  IF ProcessOf[c] = p /\ call[c].pc \in InFlight
                  THEN At(c, "crashed") ELSE call[c]]
    /\ nonces' = [nonces EXCEPT ![p] = {}]
    /\ Fault /\ StoreUnchanged /\ UNCHANGED <<sentBy, applied>>

\* The connector's signed acknowledgement, truthful about the source, reaches
\* EffectCloser.Close.
TruthfulAck(a, k) ==
    /\ k.outcome = IF a \in applied THEN "APPLIED" ELSE "NOT_APPLIED"
    /\ ValidAck(k)

Acknowledge(a) ==
    /\ events[a] # <<>>
    /\ \A c \in Calls : ~(EffectOf[c] = a /\ call[c].pc = "dispatch")
    /\ \E k \in Ack : TruthfulAck(a, k) /\ closeEffectReservation(a, k, now)
    /\ UNCHANGED dispatchVars

Steps(c) ==
    \/ BeginGovern(c)
    \/ admitWriteReservation(c) \/ consumeNonce(c) \/ checkEvidence(c)
    \/ resolveNotStarted(c) \/ resolveUncertain(c) \/ resolveRecover(c)
    \/ connectorPrechecks(c) \/ failNotStarted(c)
    \/ startConnector(c) \/ startDenied(c) \/ startAmbiguous(c)
    \/ dispatch(c) \/ appendEffect(c)
    \/ markEvidenceMissing(c) \/ markOutcomeUncertain(c)
    \/ recoverReservation(c) \/ lifecycleMissing(c) \/ errorAfterStart(c)
    \/ sealOutput(c) \/ sealFailed(c)

DispatchInit ==
    /\ Init
    /\ call = [c \in Calls |-> [pc |-> "idle", permit |-> 0, err |-> FALSE,
                                via |-> "none", report |-> "none"]]
    /\ nonces = [p \in Processes |-> {}]
    /\ sentBy = [a \in Admissions |-> {}]
    /\ applied = {}
    /\ faults = 0

\* Key rotation is left to EffectReservation: to a start it looks like a
\* revocation.
DispatchEnvironment ==
    /\ \/ Tick \/ Fence
       \/ \E key \in ReleaseKeys : AppendRelease(key)
       \/ \E a \in Admissions : claimDispatchAdmission(a)
    /\ UNCHANGED dispatchVars

DispatchNext ==
    \/ DispatchEnvironment
    \/ \E c \in Calls : Steps(c)
    \/ \E p \in Processes : Crash(p)
    \/ \E a \in Admissions : Acknowledge(a)

DispatchSpec == DispatchInit /\ [][DispatchNext]_allVars

\* A goroutine that can take its next step takes it: each step is local or a
\* store call that returns.  Nothing is assumed of failures, of the clock, of
\* FENCE or of the connector's acknowledgement.
FairDispatchSpec == DispatchSpec /\ \A c \in Calls : WF_allVars(Steps(c))

-----------------------------------------------------------------------------
(* Properties *)

\* A request leaves at most once per admission, whichever processes, retries,
\* lost answers and crashes there were, and the stream names the execution and
\* the intent of the call that sent it.
SentOnceByRecordedStart ==
    \A a \in Admissions : \A c \in sentBy[a] :
        /\ sentBy[a] = {c}
        /\ events[a][2].state = "STARTED"
        /\ events[a][2].exec = call[c].permit
        /\ events[a][2].intent = c

\* What Govern told its caller stays true: "not_started" means nobody sent the
\* request or is about to, "dispatched" that this very call sent it and the
\* source applied it, and a refusal that this call sent nothing.
ReportsTruthful ==
    \A c \in Calls :
        LET a == EffectOf[c] IN
        /\ call[c].report = "not_started" =>
             /\ sentBy[a] = {}
             /\ \A d \in Calls : EffectOf[d] = a => call[d].pc # "dispatch"
        /\ call[c].report = "dispatched" => c \in sentBy[a] /\ a \in applied
        /\ call[c].report \in {"not_dispatched", "no_dispatch_proof"} =>
             c \notin sentBy[a]

\* When no store call failed and no process died, finished calls leave no
\* reservation in ADMITTED: each one is started, ruled out or uncertain.
SettledWithoutFaults ==
    faults = 0 /\ (\A c \in Calls : call[c].pc \in {"idle", "returned"}) =>
        \A a \in Admissions :
            events[a] # <<>> => Current(a).state # "ADMITTED"

\* A signed closure says APPLIED exactly when the source applied the effect,
\* and keeps saying it: nothing sends after a close as NOT_APPLIED.
ClosedTruthfully ==
    \A a \in Admissions : Has(a, "COMPLETED") =>
        (Current(a).outcome = "APPLIED") = (a \in applied)

\* The reservation stream and the connector together implement GovernedEffect:
\* commit-or-void before send, send once, no commitment after the stop.
Committed == {a \in Admissions : Has(a, "STARTED")}
Voided == {a \in Admissions : Len(events[a]) >= 2 /\ ~Has(a, "STARTED")}
Sent == {a \in Admissions : sentBy[a] # {}}
Abstract == INSTANCE GovernedEffect WITH
    Effect <- Admissions, stopped <- (fence > 0),
    committed <- Committed, voided <- Voided, sent <- Sent
ImplementsGovernedEffect == Abstract!Spec

\* Every call that began returns, unless its process dies.
CallsReturn ==
    \A c \in Calls :
        (call[c].pc = "admit") ~> (call[c].pc \in {"returned", "crashed"})

\* docs/operations/effect-close.md: an UNCERTAIN effect can be closed as
\* APPLIED or as NOT_APPLIED.  For an effect that was sent and that the source
\* did not apply, some truthful acknowledgement matches the reservation.
UncertainClosableAsNotApplied ==
    \A a \in Admissions :
        events[a] # <<>> /\ Current(a).state = "UNCERTAIN"
          /\ sentBy[a] # {} /\ a \notin applied =>
            \E k \in Ack :
               /\ TruthfulAck(a, k)
               /\ effectAcknowledgementMatchesReservation(k, Current(a))

\* bridge.go: "writes get deterministic nonces so an identical approved effect
\* is a replay": two calls for the same effect in one process that never
\* crashed do not both pass the nonce check.
IdenticalWriteIsReplay ==
    \A c, d \in Calls :
        c # d /\ EffectOf[c] = EffectOf[d] /\ ProcessOf[c] = ProcessOf[d]
          /\ faults = 0 =>
            ~(call[c].pc = "ready" /\ call[d].pc = "ready")

=============================================================================

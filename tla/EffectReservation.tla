------------------------- MODULE EffectReservation -------------------------
(***************************************************************************)
(* The durable effect boundary of the approval store: the append-only      *)
(* reservation stream of each signed dispatch admission, the disposition   *)
(* chain recorded under an emergency-stop FENCE, and the signed closure.   *)
(* (core/pkg/boundary/approvalceremony, postgres_effect_*.go)              *)
(*                                                                         *)
(* Every operation is one database transaction that begins by taking the   *)
(* tenant/workspace advisory lock (lockApprovalScope), the lock FENCE also *)
(* takes, and, where it reads the release head, the shared form of the     *)
(* exact-release lock whose exclusive form the registry writer takes.  So  *)
(* each operation is one atomic action of this module.  A refused or       *)
(* replayed call changes no row and is a stuttering step; what it returns  *)
(* is transitionOutcome and admitOutcome, which GovernedDispatch uses.     *)
(*                                                                         *)
(* One tenant/workspace scope and one connector release are modelled.      *)
(* Signatures are sound, so a signed record is the record; a hash of a     *)
(* record is the record.  proof_session_ref obeys the rules of intent_ref  *)
(* and is folded into it.                                                  *)
(***************************************************************************)
EXTENDS Integers, Sequences

CONSTANTS
    Admissions,       \* signed dispatch admissions (admission_id)
    Execs,            \* connector_execution_ref values
    Intents,          \* intent_ref values
    Effects,          \* effect_ref values
    Reasons,          \* reason_code values
    CommandIds,       \* disposition command_id values
    ResolveActions,   \* disposition actions other than HOLD, all treated alike
    Refs,             \* disposition_ref / reconciliation_ref values
    None,             \* the empty string, the absent row
    ReleaseKeys,      \* pinned keys that may sign release revisions
    Windows,          \* <<ValidFrom, ValidUntil>> of certified release revisions
    AdmissionTTL,     \* longest lifetime of a dispatch admission
    Skew,             \* EffectCloseMaxClockSkew
    MaxTime, MaxEpoch, MaxRevision, MaxDispositions   \* bounds of the instance

ASSUME NoneAssumption ==
    /\ None \notin Execs /\ None \notin Intents /\ None \notin Effects
    /\ None \notin Reasons /\ None \notin CommandIds /\ None \notin Refs
    /\ None \notin {"ADMITTED", "STARTED", "NOT_STARTED", "UNCERTAIN",
                    "COMPLETED", "APPLIED", "NOT_APPLIED"}

ASSUME BoundsAssumption ==
    /\ MaxTime \in Nat /\ MaxEpoch \in Nat /\ MaxRevision \in Nat
    /\ MaxDispositions \in Nat /\ AdmissionTTL \in Nat /\ Skew \in Nat
    /\ Windows \subseteq Nat \X Nat

VARIABLES
    now,        \* the PostgreSQL clock, in ticks; 0 is the zero time
    fence,      \* epoch of the scope's FENCE, 0 while there is none
    release,    \* current head of the connector release registry
    enabled,    \* pinned signing keys that are enabled
    admission,  \* admission[a]: the persisted dispatch admission, or None
    events,     \* events[a]: the reservation stream of a
    disps,      \* disps[a]: the disposition chain of a
    closure     \* closure[a]: the signed closure of a, or None

vars == <<now, fence, release, enabled, admission, events, disps, closure>>

States == {"ADMITTED", "STARTED", "NOT_STARTED", "UNCERTAIN", "COMPLETED"}
Actions == {"HOLD"} \cup ResolveActions
Outcomes == {"APPLIED", "NOT_APPLIED"}
Keys == ReleaseKeys \cup {"acknowledgement", "disposition"}
OptExec == Execs \cup {None}
OptIntent == Intents \cup {None}
OptEffect == Effects \cup {None}
OptReason == Reasons \cup {None}
OptRef == Refs \cup {None}

Event == [state : States, admittedAt : Nat, startedAt : Nat, at : Nat,
          reason : OptReason, exec : OptExec, intent : OptIntent,
          effect : OptEffect, prior : States \cup {None},
          outcome : Outcomes \cup {None}, recon : OptRef]
Meta == [reason : OptReason, exec : OptExec, intent : OptIntent,
         effect : OptEffect]
Ack == [outcome : Outcomes, exec : OptExec, intent : OptIntent,
        effect : OptEffect, recon : OptRef, dispo : CommandIds \cup {None}]
Disposition == [id : CommandIds, epoch : Nat, seq : Nat, head : Event,
                dseq : Nat, prev : CommandIds \cup {None},
                action : Actions, ref : Refs]
Closure == [ack : Ack, seq : Nat, head : Event, closedAt : Nat]
Admission == [rev : Nat, issuedAt : Nat, expiresAt : Nat]
Release == [rev : Nat, state : {"certified", "revoked"},
            from : Nat, until : Nat, key : ReleaseKeys]

\* The absent row is not a row.
ASSUME NoRowAssumption == None \notin Admission /\ None \notin Closure

Current(a) == events[a][Len(events[a])]
LastDisposition(a) == disps[a][Len(disps[a])]

-----------------------------------------------------------------------------
(* The environment: the clock, the FENCE writer, the release registry and  *)
(* key rotation.                                                           *)

Tick ==
    /\ now < MaxTime
    /\ now' = now + 1
    /\ UNCHANGED <<fence, release, enabled, admission, events, disps, closure>>

\* ScopedStopStore.Fence in its effect on this scope: a FENCE appears or its
\* epoch grows; nothing removes it.
Fence ==
    /\ fence < MaxEpoch
    /\ \E epoch \in (fence + 1)..MaxEpoch : fence' = epoch
    /\ UNCHANGED <<now, release, enabled, admission, events, disps, closure>>

\* PostgresReleaseAuthorityAdminStore.Append: the successor of the head, which
\* must not be revoked, signed by an enabled key, with valid_from not moving
\* back.  A revocation has no valid_until.
AppendRelease(key) ==
    /\ release.rev < MaxRevision
    /\ release.state = "certified"
    /\ key \in enabled
    /\ \/ \E w \in Windows :
            /\ w[1] >= release.from
            /\ release' = [rev |-> release.rev + 1, state |-> "certified",
                           from |-> w[1], until |-> w[2], key |-> key]
       \/ release' = [release EXCEPT !.rev = @ + 1, !.state = "revoked",
                                     !.until = 0, !.key = key]
    /\ UNCHANGED <<now, fence, enabled, admission, events, disps, closure>>

\* An operator disables a pinned signing key.
DisableKey(key) ==
    /\ key \in enabled
    /\ enabled' = enabled \ {key}
    /\ UNCHANGED <<now, fence, release, admission, events, disps, closure>>

\* claimDispatchAdmission, for one attempt: refused under FENCE, persisted once,
\* bound to the release revision the approval named when its hold began.
claimDispatchAdmission(a) ==
    /\ admission[a] = None
    /\ fence = 0
    /\ \E rev \in 1..release.rev, ttl \in 1..AdmissionTTL :
         admission' = [admission EXCEPT ![a] =
             [rev |-> rev, issuedAt |-> now, expiresAt |-> now + ttl]]
    /\ UNCHANGED <<now, fence, release, enabled, events, disps, closure>>

-----------------------------------------------------------------------------
(* EffectReservationEvent.Validate: the shape every stored event has.       *)

NoCloseMetadata(e) == e.prior = None /\ e.outcome = None /\ e.recon = None

ValidEvent(a, seq, e) ==
    /\ admission[a].issuedAt <= e.admittedAt
    /\ e.admittedAt < admission[a].expiresAt
    /\ e.admittedAt <= e.at
    /\ \/ /\ e.state = "ADMITTED"
          /\ seq = 1 /\ e.at = e.admittedAt /\ e.startedAt = 0
          /\ e.reason = None /\ e.exec = None /\ e.intent = None
          /\ e.effect = None /\ NoCloseMetadata(e)
       \/ /\ e.state = "STARTED"
          /\ seq = 2 /\ e.startedAt = e.at
          /\ e.startedAt < admission[a].expiresAt
          /\ e.exec # None /\ NoCloseMetadata(e)
       \/ /\ e.state = "NOT_STARTED"
          /\ seq = 2 /\ e.startedAt = 0
          /\ e.reason # None /\ e.exec = None /\ NoCloseMetadata(e)
       \/ /\ e.state = "UNCERTAIN"
          /\ e.reason # None /\ NoCloseMetadata(e)
          /\ \/ seq = 2 /\ e.startedAt = 0
             \/ seq = 3 /\ e.startedAt # 0 /\ e.startedAt <= e.at
       \/ /\ e.state = "COMPLETED"
          /\ e.reason = None /\ e.exec # None /\ e.intent # None
          /\ e.startedAt <= e.at
          /\ \/ e.prior = "STARTED" /\ seq = 3 /\ e.startedAt # 0
             \/ /\ e.prior = "UNCERTAIN" /\ e.recon # None
                /\ \/ seq = 3 /\ e.startedAt = 0
                   \/ seq = 4 /\ e.startedAt # 0
          /\ \/ e.outcome = "APPLIED" /\ e.effect # None
             \/ e.outcome = "NOT_APPLIED" /\ e.effect = None

\* insertEffectReservationEvent: validate, then append.
insertEvent(a, e) == events' = [events EXCEPT ![a] = Append(@, e)]

-----------------------------------------------------------------------------
(* Admit *)

\* LockCurrentCertifiedForEffectAdmission: the head is certified, inside its
\* window at the database clock, and signed by a key that is still enabled.
CurrentCertified ==
    /\ release.key \in enabled
    /\ release.state = "certified"
    /\ release.from <= now
    /\ now < release.until

AdmittedEvent ==
    [state |-> "ADMITTED", admittedAt |-> now, startedAt |-> 0, at |-> now,
     reason |-> None, exec |-> None, intent |-> None, effect |-> None,
     prior |-> None, outcome |-> None, recon |-> None]

\* admitEffectReservation: an existing stream is returned as it is, even under
\* FENCE; otherwise FENCE, the persisted admission, the release head, the
\* admission's lifetime and its exact release revision are checked in order.
admitOutcome(a) ==
    IF events[a] # <<>> THEN "replay"
    ELSE IF /\ fence = 0
            /\ admission[a] # None
            /\ CurrentCertified
            /\ admission[a].issuedAt <= now
            /\ now < admission[a].expiresAt
            /\ release.rev = admission[a].rev
         THEN "ok" ELSE "refused"

Admit(a) ==
    /\ admitOutcome(a) = "ok"
    /\ insertEvent(a, AdmittedEvent)
    /\ UNCHANGED <<now, fence, release, enabled, admission, disps, closure>>

-----------------------------------------------------------------------------
(* MarkStarted, MarkNotStarted, MarkUncertain *)

\* Mutant: a reference may be replaced.
PreservableAny(existing, proposed, allowAddition) == TRUE

\* preserveEffectReference: an empty proposal keeps the existing reference, a
\* proposal must equal it, and only effect_ref may be added.
Preservable(existing, proposed, allowAddition) ==
    \/ proposed = None
    \/ proposed = existing
    \/ allowAddition /\ existing = None

preserveEffectReference(existing, proposed) ==
    IF proposed = None THEN existing ELSE proposed

effectTransitionMetaMatches(e, meta) ==
    /\ e.reason = meta.reason /\ e.exec = meta.exec
    /\ e.intent = meta.intent /\ e.effect = meta.effect

\* Mutant: MarkStarted trusts the FENCE check that Admit made.
StartPermittedNoFence(a) ==
    /\ CurrentCertified
    /\ release.rev = admission[a].rev
    /\ now < admission[a].expiresAt

\* The interlock MarkStarted repeats under the locks.
StartPermitted(a) ==
    /\ fence = 0
    /\ CurrentCertified
    /\ release.rev = admission[a].rev
    /\ now < admission[a].expiresAt

Successor(current, state, meta) ==
    LET merged == current.state = "STARTED"
        Ref(existing, proposed) ==
            IF merged THEN preserveEffectReference(existing, proposed)
            ELSE proposed
    IN [current EXCEPT
          !.state = state, !.at = now, !.reason = meta.reason,
          !.exec = Ref(@, meta.exec), !.intent = Ref(@, meta.intent),
          !.effect = Ref(@, meta.effect),
          !.startedAt = CASE state = "STARTED" -> now
                          [] state = "NOT_STARTED" -> 0
                          [] OTHER -> @]

\* transitionEffectReservation: its early returns, in the order of the code.
transitionOutcome(a, state, meta) ==
    IF events[a] = <<>> THEN "not_found"
    ELSE IF Current(a).state = state
    THEN IF state = "STARTED" THEN "already_started"
         ELSE IF effectTransitionMetaMatches(Current(a), meta) THEN "replay"
         ELSE "conflict"
    ELSE IF \/ Current(a).state \in {"NOT_STARTED", "UNCERTAIN", "COMPLETED"}
            \/ Current(a).state = "STARTED" /\ state # "UNCERTAIN"
    THEN "terminal"
    ELSE IF state = "STARTED" /\ ~StartPermitted(a) THEN "start_denied"
    ELSE IF /\ Current(a).state = "STARTED"
            /\ \/ ~Preservable(Current(a).exec, meta.exec, FALSE)
               \/ ~Preservable(Current(a).intent, meta.intent, FALSE)
               \/ ~Preservable(Current(a).effect, meta.effect, TRUE)
    THEN "conflict"
    ELSE IF ValidEvent(a, Len(events[a]) + 1, Successor(Current(a), state, meta))
    THEN "ok" ELSE "invalid"

Transition(a, state, meta) ==
    /\ transitionOutcome(a, state, meta) = "ok"
    /\ insertEvent(a, Successor(Current(a), state, meta))
    /\ UNCHANGED <<now, fence, release, enabled, admission, disps, closure>>

MarkStarted(a, meta) == Transition(a, "STARTED", meta)
MarkNotStarted(a, meta) == Transition(a, "NOT_STARTED", meta)
MarkUncertain(a, meta) == Transition(a, "UNCERTAIN", meta)

-----------------------------------------------------------------------------
(* Dispositions *)

\* EffectDispositionCommand.Validate: a command names an execution and an
\* intent, a STARTED or UNCERTAIN head, and a predecessor unless it is first.
ValidCommand(c) ==
    /\ c.head.exec # None /\ c.head.intent # None
    /\ c.head.state \in {"STARTED", "UNCERTAIN"}
    /\ (c.dseq = 1) <=> (c.prev = None)

\* effectDispositionCommandMatchesReservation against the event at c.seq.
CommandMatchesReservation(a, c) ==
    /\ c.seq \in 1..Len(events[a])
    /\ c.head = events[a][c.seq]

\* verifyEffectDispositionRecord: a stored command still matches the event it
\* was bound to and chains to the stored record before it.
verifyEffectDispositionRecord(a, d) ==
    /\ ValidCommand(d)
    /\ CommandMatchesReservation(a, d)
    /\ d.dseq > 1 => /\ d.dseq - 1 \in 1..Len(disps[a])
                     /\ disps[a][d.dseq - 1].id = d.prev

\* Mutant: the command need not be bound to the current, active head.
recordAnyHead(a, c, expiresAt) ==
    /\ \A b \in Admissions : \A k \in 1..Len(disps[b]) : disps[b][k].id # c.id
    /\ "disposition" \in enabled
    /\ now < expiresAt
    /\ fence > 0 /\ c.epoch = fence
    /\ ValidCommand(c) /\ CommandMatchesReservation(a, c)
    /\ c.dseq = Len(disps[a]) + 1
    /\ c.prev = IF disps[a] = <<>> THEN None ELSE LastDisposition(a).id
    /\ Len(disps[a]) < MaxDispositions
    /\ disps' = [disps EXCEPT ![a] = Append(@, c)]
    /\ UNCHANGED <<now, fence, release, enabled, admission, events, closure>>

\* Mutant: the sequence is checked and the predecessor hash is not.
recordAnyPredecessor(a, c, expiresAt) ==
    /\ \A b \in Admissions : \A k \in 1..Len(disps[b]) : disps[b][k].id # c.id
    /\ "disposition" \in enabled
    /\ now < expiresAt
    /\ fence > 0 /\ c.epoch = fence
    /\ events[a] # <<>>
    /\ Current(a).state \in {"STARTED", "UNCERTAIN"}
    /\ ValidCommand(c)
    /\ c.seq = Len(events[a]) /\ CommandMatchesReservation(a, c)
    /\ c.dseq = Len(disps[a]) + 1
    /\ Len(disps[a]) < MaxDispositions
    /\ disps' = [disps EXCEPT ![a] = Append(@, c)]
    /\ UNCHANGED <<now, fence, release, enabled, admission, events, closure>>

\* recordEffectDisposition for a command that is not yet stored.  The command
\* was signed against some earlier state, so what it claims is arbitrary.
recordEffectDisposition(a, c, expiresAt) ==
    /\ \A b \in Admissions : \A k \in 1..Len(disps[b]) : disps[b][k].id # c.id
    /\ "disposition" \in enabled
    /\ now < expiresAt
    /\ fence > 0 /\ c.epoch = fence
    /\ events[a] # <<>>
    /\ Current(a).state \in {"STARTED", "UNCERTAIN"}
    /\ ValidCommand(c)
    /\ c.seq = Len(events[a]) /\ CommandMatchesReservation(a, c)
    /\ \A k \in 1..Len(disps[a]) : verifyEffectDispositionRecord(a, disps[a][k])
    /\ c.dseq = Len(disps[a]) + 1
    /\ c.prev = IF disps[a] = <<>> THEN None ELSE LastDisposition(a).id
    /\ Len(disps[a]) < MaxDispositions
    /\ disps' = [disps EXCEPT ![a] = Append(@, c)]
    /\ UNCHANGED <<now, fence, release, enabled, admission, events, closure>>

-----------------------------------------------------------------------------
(* Close *)

\* ConnectorEffectAcknowledgement.Validate
ValidAck(k) ==
    /\ k.exec # None /\ k.intent # None
    /\ \/ k.outcome = "APPLIED" /\ k.effect # None
       \/ k.outcome = "NOT_APPLIED" /\ k.effect = None

effectAcknowledgementMatchesReservation(k, current) ==
    /\ k.exec = current.exec /\ k.intent = current.intent
    /\ current.effect # None => k.effect = current.effect
    /\ current.state = "UNCERTAIN" => k.recon # None

\* Mutant: a disposition recorded for an older head of the stream is accepted.
dispositionOfAnyHead(a, k, seq, requireCurrentFence) ==
    IF disps[a] = <<>>
    THEN ~(requireCurrentFence /\ fence > 0) /\ k.dispo = None
    ELSE LET last == LastDisposition(a) IN
         /\ last.action # "HOLD"
         /\ requireCurrentFence => fence > 0 /\ last.epoch = fence
         /\ k.dispo = last.id /\ k.recon = last.ref

effectAcknowledgementMatchesDisposition(a, k, seq, requireCurrentFence) ==
    IF disps[a] = <<>>
    THEN ~(requireCurrentFence /\ fence > 0) /\ k.dispo = None
    ELSE LET last == LastDisposition(a) IN
         /\ verifyEffectDispositionRecord(a, last)
         /\ last.seq = seq /\ last.head = events[a][seq]
         /\ last.action # "HOLD"
         /\ requireCurrentFence => fence > 0 /\ last.epoch = fence
         /\ k.dispo = last.id /\ k.recon = last.ref

\* The earliest time an acknowledgement may have been observed at.
EarliestObservation(current) ==
    IF current.startedAt # 0 THEN current.startedAt
    ELSE IF current.state = "UNCERTAIN" THEN current.at
    ELSE current.admittedAt

\* Mutant: the disposition hash is copied into reconciliation_ref.
CompletedEventWrongRef(current, k) ==
    [current EXCEPT
       !.state = "COMPLETED", !.at = now, !.reason = None, !.exec = k.exec,
       !.intent = k.intent, !.effect = k.effect, !.prior = current.state,
       !.outcome = k.outcome, !.recon = k.dispo]

CompletedEvent(current, k) ==
    [current EXCEPT
       !.state = "COMPLETED", !.at = now, !.reason = None, !.exec = k.exec,
       !.intent = k.intent, !.effect = k.effect, !.prior = current.state,
       !.outcome = k.outcome, !.recon = k.recon]

\* closeEffectReservation for a reservation that is not yet COMPLETED: closure
\* and COMPLETED event commit together.
closeEffectReservation(a, k, observedAt) ==
    /\ events[a] # <<>>
    /\ Current(a).state \in {"STARTED", "UNCERTAIN"}
    /\ "acknowledgement" \in enabled
    /\ ValidAck(k)
    /\ effectAcknowledgementMatchesReservation(k, Current(a))
    /\ effectAcknowledgementMatchesDisposition(a, k, Len(events[a]), TRUE)
    /\ observedAt + Skew >= EarliestObservation(Current(a))
    /\ observedAt <= now + Skew
    /\ ValidEvent(a, Len(events[a]) + 1, CompletedEvent(Current(a), k))
    /\ closure' = [closure EXCEPT ![a] =
          [ack |-> k, seq |-> Len(events[a]), head |-> Current(a),
           closedAt |-> now]]
    /\ insertEvent(a, CompletedEvent(Current(a), k))
    /\ UNCHANGED <<now, fence, release, enabled, admission, disps>>

\* verifyEffectClosureRecord, which recovery and replay run: the stored
\* closure is checked against the prior event and the latest disposition, not
\* against the current FENCE.
verifyEffectClosureRecord(a) ==
    LET n == Len(events[a])
        completed == events[a][n]
        prior == events[a][n - 1]
        c == closure[a]
    IN /\ n >= 3
       /\ c # None
       /\ effectAcknowledgementMatchesReservation(c.ack, prior)
       /\ effectAcknowledgementMatchesDisposition(a, c.ack, n - 1, FALSE)
       /\ c.head = prior /\ c.seq = n - 1
       /\ completed.prior = prior.state
       /\ c.ack.outcome = completed.outcome /\ c.ack.recon = completed.recon
       /\ c.ack.exec = completed.exec /\ c.ack.intent = completed.intent
       /\ c.ack.effect = completed.effect /\ c.closedAt = completed.at

-----------------------------------------------------------------------------
Init ==
    /\ now = 1
    /\ fence = 0
    /\ \E w \in Windows, key \in ReleaseKeys :
          release = [rev |-> 1, state |-> "certified",
                     from |-> w[1], until |-> w[2], key |-> key]
    /\ enabled = Keys
    /\ admission = [a \in Admissions |-> None]
    /\ events = [a \in Admissions |-> <<>>]
    /\ disps = [a \in Admissions |-> <<>>]
    /\ closure = [a \in Admissions |-> None]

Environment ==
    \/ Tick
    \/ Fence
    \/ \E key \in ReleaseKeys : AppendRelease(key)
    \/ \E key \in Keys : DisableKey(key)
    \/ \E a \in Admissions : claimDispatchAdmission(a)

\* A command claims the head it was signed against, which may be stale.
Record(a) ==
    \E id \in CommandIds, epoch \in 1..MaxEpoch, seq \in 1..Len(events[a]),
       dseq \in 1..MaxDispositions, prev \in CommandIds \cup {None},
       action \in Actions, ref \in Refs, expiresAt \in {now, now + 1} :
        recordEffectDisposition(a,
            [id |-> id, epoch |-> epoch, seq |-> seq, head |-> events[a][seq],
             dseq |-> dseq, prev |-> prev, action |-> action, ref |-> ref],
            expiresAt)

Close(a) ==
    \E k \in Ack, observedAt \in 1..MaxTime : closeEffectReservation(a, k, observedAt)

Next ==
    \/ Environment
    \/ \E a \in Admissions :
         \/ Admit(a)
         \/ \E meta \in Meta : MarkStarted(a, meta)
         \/ \E meta \in Meta : MarkNotStarted(a, meta)
         \/ \E meta \in Meta : MarkUncertain(a, meta)
         \/ Record(a)
         \/ Close(a)

Spec == Init /\ [][Next]_vars

-----------------------------------------------------------------------------
(* Properties *)

Has(a, state) == \E k \in 1..Len(events[a]) : events[a][k].state = state

\* Every variable has the type of the column or row it stands for.
TypeOK ==
    /\ now \in Nat /\ fence \in Nat
    /\ release \in Release
    /\ enabled \subseteq Keys
    /\ admission \in [Admissions -> Admission \cup {None}]
    /\ events \in [Admissions -> Seq(Event)]
    /\ disps \in [Admissions -> Seq(Disposition)]
    /\ closure \in [Admissions -> Closure \cup {None}]

NoNewWork ==
    \A a \in Admissions : /\ Has(a, "ADMITTED")' => Has(a, "ADMITTED")
                          /\ Has(a, "STARTED")' => Has(a, "STARTED")

\* Once the scope is fenced, or the release revoked, no further admission and
\* no further start commits, whatever was admitted before: MarkStarted repeats
\* the interlock that Admit passed.
StopFreezesWork ==
    [][fence > 0 \/ release.state = "revoked" => NoNewWork]_vars

\* A stream never detaches from the execution that crossed the start seam:
\* after STARTED the execution, the intent and the start time stay what they
\* were through UNCERTAIN and COMPLETED, and an effect reference once recorded
\* is never replaced.  The start is inside the admission's signed lifetime.
ExecutionIdentityPreserved ==
    \A a \in Admissions : \A i, j \in 1..Len(events[a]) :
        i < j /\ events[a][i].state # "ADMITTED" =>
          /\ events[a][j].exec = events[a][i].exec
          /\ events[a][j].intent = events[a][i].intent
          /\ events[a][j].startedAt = events[a][i].startedAt
          /\ events[a][i].effect # None =>
                events[a][j].effect = events[a][i].effect
          /\ events[a][i].state = "STARTED" =>
                /\ events[a][j].startedAt < admission[a].expiresAt
                /\ events[a][j].state # "NOT_STARTED"

CarriesOutInstruction(a) ==
    /\ disps[a] # <<>>
    /\ LastDisposition(a).action # "HOLD"
    /\ LastDisposition(a).epoch = fence
    /\ LastDisposition(a).head = Current(a)
    /\ closure'[a].ack.dispo = LastDisposition(a).id

\* A close that commits under FENCE carries out the latest instruction for the
\* exact head it closes, given under the FENCE in force; HOLD, an instruction
\* for an older head and one from before a FENCE rotation block it.
CloseObeysInstruction ==
    [][\A a \in Admissions :
          Has(a, "COMPLETED")' /\ ~Has(a, "COMPLETED") /\ fence > 0
              => CarriesOutInstruction(a)]_vars

\* What was closed stays recoverable: EffectCloser.Recover verifies the stored
\* closure against the stream and the disposition chain in every later state,
\* after key rotation, revocation, a later FENCE or further commands.
ClosureRecoverable ==
    \A a \in Admissions :
        Has(a, "COMPLETED") => verifyEffectClosureRecord(a)

\* What was instructed stays recoverable and is one unbroken chain: every
\* stored disposition verifies in every later state, whatever was appended to
\* the stream it was bound to.
DispositionsRecoverable ==
    \A a \in Admissions : \A k \in 1..Len(disps[a]) :
        /\ disps[a][k].dseq = k
        /\ verifyEffectDispositionRecord(a, disps[a][k])

=============================================================================

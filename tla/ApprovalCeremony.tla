-------------------------- MODULE ApprovalCeremony --------------------------
(***************************************************************************)
(* The approval ceremony of one binding, from the hold to the dispatch     *)
(* admission: core/pkg/boundary/approvalceremony (service.go,              *)
(* postgres_store.go, consumption_service.go, dispatch_admission.go)       *)
(* behind the HTTP handlers of                                             *)
(* core/cmd/helm-ai-kernel/approval_consumption_routes.go.                 *)
(*                                                                         *)
(* A handler reads the FENCE, reads the ceremony, reads its clock, checks, *)
(* and then issues one guarded UPDATE: each of these is a step, and the    *)
(* handlers of several replicas interleave.  Only consumption and dispatch *)
(* admission take the scope lock that FENCE takes, so only they see the    *)
(* FENCE in the transaction that writes.  A handler may fail at any step,  *)
(* a commit may lose its answer, and callers come back with new requests.  *)
(*                                                                         *)
(* A slot of Requests serves one request at a time.  Signatures are sound; *)
(* hashes and nonces are the records they stand for.  The row's version    *)
(* counts updates and is read only by the transaction that locked the row. *)
(* withScopedRecord also validates the updated row before it commits; the  *)
(* model commits what the UPDATE wrote, and RowsValidate shows that the    *)
(* validation has nothing to refuse.                                       *)
(***************************************************************************)
EXTENDS Integers, FiniteSets

CONSTANTS
    Requests,        \* handlers that run at the same time
    Specs,           \* source-owned material a binding_ref may resolve to
    Subjects,        \* workload identities
    Attempts,        \* attempt_id values of dispatch admissions
    Trusted,         \* keys of the pinned authority snapshot that may approve
    PrincipalOf,     \* the principal behind a key
    AssertionSets,   \* sets of keys whose assertions a client submits
    Quorum, MaxAssertions,
    MinHold, ChallengeTTL, MaxLifetime, GrantTTL, AdmissionTTL,
    Lags,            \* deployments: how far a replica's clock may be behind
    MaxTime,         \* bound of the instance
    None

ASSUME CeremonyConfig ==
    /\ MinHold \in Nat \ {0} /\ ChallengeTTL \in Nat \ {0}
    /\ GrantTTL \in Nat \ {0} /\ AdmissionTTL \in Nat \ {0}
    /\ MaxLifetime \in Nat /\ MinHold + ChallengeTTL <= MaxLifetime
    /\ Quorum \in Nat \ {0} /\ MaxAssertions \in Nat /\ Quorum <= MaxAssertions
    /\ Lags \subseteq Nat /\ MaxTime \in Nat

VARIABLES
    lag,         \* how far the clock of a replica may be behind
    now,         \* true time
    fenced,      \* the scope is fenced
    authority,   \* the source still serves the pinned authority snapshot
    row,         \* the ceremony row, or None
    admission,   \* admission[x]: dispatch admission of attempt x, or None
    req          \* req[r]: the request in slot r

vars == <<lag, now, fenced, authority, row, admission, req>>

States == {"HOLD_PENDING", "CHALLENGE_ISSUED", "QUORUM_VERIFIED",
           "GRANT_ISSUED", "CONSUMED", "EXPIRED", "DENIED"}
Terminal == {"CONSUMED", "EXPIRED", "DENIED"}
Kinds == {"begin", "challenge", "assert", "consume", "deny", "expire", "claim"}

\* The artefacts of a ceremony, a grant being shaped like a challenge, the
\* record that collects them and the admission of a dispatch.
Challenges == [by : Requests, at : Nat, until : Nat]
Verifications == [keys : AssertionSets, at : Nat]
Consumptions == [by : Subjects, at : Nat]
Records == [state : States, spec : Specs, hold : Nat,
            chal : Challenges \cup {None}, verified : Verifications \cup {None},
            grant : Challenges \cup {None}, consumed : Consumptions \cup {None},
            updated : Nat, expires : Nat]
Admissions == [by : Subjects, at : Nat, until : Nat]

ASSUME NoneAssumption ==
    /\ None \notin Challenges \cup Verifications \cup Consumptions
    /\ None \notin Records \cup Admissions

Smaller(a, b) == IF a <= b THEN a ELSE b

\* A clock reading of some replica.
Reading == {t \in 1..now : now <= t + lag}

In(state) == row # None /\ row.state = state

-----------------------------------------------------------------------------
(* Requests *)

At(r, pc) == [req EXCEPT ![r].pc = pc]
Go(r, pc) == req' = At(r, pc)
GoAt(r, pc, t) == req' = [At(r, pc) EXCEPT ![r].t = t]
Propose(r, pc, t, seen) == req' = [At(r, pc) EXCEPT ![r].t = t, ![r].seen = seen]

Idle(exhausted) == [pc |-> "idle", kind |-> None, arg |-> None, round |-> 0,
                    t |-> 0, seen |-> None, exhausted |-> exhausted]

\* The request ends with an answer, which may be lost on the way.  Only that a
\* handler ran out of turns is remembered.
Done(r, answer) == req' = [req EXCEPT ![r] = Idle(answer = "exhausted")]

ChallengeRounds == 3
SubmitRounds == 5

\* Mutant: as many turns as a request needs that meets no other.
RoundsAlone(kind) == IF kind = "challenge" THEN 1 ELSE 3

Rounds(kind) == IF kind = "challenge" THEN ChallengeRounds ELSE SubmitRounds

\* The next turn of the handler's loop, or ErrTransitionConflict after the last.
NextRound(r) ==
    IF req[r].round < Rounds(req[r].kind)
    THEN req' = [At(r, "get") EXCEPT ![r].round = @ + 1, ![r].t = 0, ![r].seen = None]
    ELSE Done(r, "exhausted")

Args(kind) ==
    CASE kind = "begin" -> Specs
      [] kind = "assert" -> AssertionSets
      [] kind = "consume" -> Subjects
      [] kind = "claim" -> Subjects \X Attempts
      [] OTHER -> {None}

Arrive(r, kind) ==
    /\ req[r].pc = "idle"
    /\ \E arg \in Args(kind), t \in Reading :
         LET clocked == kind \in {"deny", "expire"} IN
         /\ clocked \/ t = now
         /\ req' = [req EXCEPT ![r] =
              [Idle(FALSE) EXCEPT !.kind = kind, !.arg = arg,
                 !.pc = IF kind \in {"deny", "expire", "claim"} THEN kind ELSE "fence",
                 !.t = IF clocked THEN t ELSE 0]]
    /\ UNCHANGED <<now, fenced, authority, row, admission>>

StoreUnchanged == UNCHANGED <<now, fenced, authority, row, admission>>
Environment == UNCHANGED <<now, fenced, authority>>

\* requireUnfencedConsumerScope, the handler's early check; then the code up
\* to the first access to the ceremony.
requireUnfencedConsumerScope(r) ==
    /\ req[r].pc = "fence"
    /\ \/ fenced /\ Done(r, "fenced")
       \/ ~fenced /\ req[r].kind \in {"challenge", "assert"}
          /\ req' = [At(r, "get") EXCEPT ![r].round = 1]
       \/ ~fenced /\ req[r].kind = "begin"
          /\ IF authority THEN \E t \in Reading : GoAt(r, "insert", t)
             ELSE Done(r, "refused")
       \/ ~fenced /\ req[r].kind = "consume"
          /\ \E t \in Reading : GoAt(r, "read", t)
    /\ StoreUnchanged

-----------------------------------------------------------------------------
(* BeginOrResume *)

\* INSERT ... ON CONFLICT DO NOTHING
createHold(r) ==
    /\ req[r].pc = "insert"
    /\ IF row = None
       THEN /\ row' = [state |-> "HOLD_PENDING", spec |-> req[r].arg,
                       hold |-> req[r].t, chal |-> None, verified |-> None,
                       grant |-> None, consumed |-> None,
                       updated |-> req[r].t, expires |-> 0]
            /\ Done(r, "ok")
       ELSE Go(r, "resume") /\ UNCHANGED row
    /\ Environment /\ UNCHANGED admission

resume(r) ==
    /\ req[r].pc = "resume"
    /\ Done(r, IF row.spec = req[r].arg THEN "ok" ELSE "refused")
    /\ StoreUnchanged

-----------------------------------------------------------------------------
(* issueApprovalChallenge and submitApprovalAssertions: Get, then the       *)
(* service operation the state asks for, then Get again.                    *)

getCeremony(r) ==
    /\ req[r].pc = "get"
    /\ IF row = None THEN Done(r, "refused")
       ELSE IF req[r].kind = "challenge"
       THEN CASE row.state = "HOLD_PENDING" -> Go(r, "IssueChallenge")
              [] row.state \in {"EXPIRED", "DENIED"} -> Done(r, "conflict")
              [] OTHER -> Done(r, "ok")
       ELSE CASE row.state = "CHALLENGE_ISSUED" -> Go(r, "VerifyQuorum")
              [] row.state = "QUORUM_VERIFIED" -> Go(r, "IssueGrant")
              [] row.state \in {"GRANT_ISSUED", "CONSUMED"} -> Done(r, "ok")
              [] OTHER -> Done(r, "conflict")
    /\ StoreUnchanged

IssueChallenge(r) ==
    /\ req[r].pc = "IssueChallenge"
    /\ IF row.state # "HOLD_PENDING" THEN NextRound(r)
       ELSE \E t \in Reading :
              IF t < row.hold + MinHold THEN Done(r, "refused")
              ELSE IF row.hold + MaxLifetime <= t THEN NextRound(r)
              ELSE IF ~authority THEN Done(r, "refused")
              ELSE Propose(r, "issueChallenge", t, None)
    /\ StoreUnchanged

issueChallenge(r) ==
    LET t == req[r].t
        until == Smaller(t + ChallengeTTL, row.hold + MaxLifetime)
    IN
    /\ req[r].pc = "issueChallenge"
    /\ IF row.state = "HOLD_PENDING" /\ row.updated <= t
       THEN /\ row' = [row EXCEPT !.state = "CHALLENGE_ISSUED",
                         !.chal = [by |-> r, at |-> t, until |-> until],
                         !.expires = until, !.updated = t]
            /\ Done(r, "ok")
       ELSE NextRound(r) /\ UNCHANGED row
    /\ Environment /\ UNCHANGED admission

\* approvalverify.VerifyQuorum: every assertion is by an authorised key, and
\* no two are by the same principal.
QuorumMet(keys) ==
    /\ Quorum <= Cardinality(keys) /\ Cardinality(keys) <= MaxAssertions
    /\ keys \subseteq Trusted
    /\ \A k, l \in keys : k # l => PrincipalOf[k] # PrincipalOf[l]

VerifyQuorum(r) ==
    /\ req[r].pc = "VerifyQuorum"
    /\ IF row.state # "CHALLENGE_ISSUED" THEN NextRound(r)
       ELSE IF ~authority THEN Done(r, "refused")
       ELSE \E t \in Reading :
              IF row.chal.at <= t /\ t < row.chal.until /\ QuorumMet(req[r].arg)
              THEN Propose(r, "recordQuorum", t, row.chal)
              ELSE Done(r, "refused")
    /\ StoreUnchanged

recordQuorum(r) ==
    LET t == req[r].t IN
    /\ req[r].pc = "recordQuorum"
    /\ IF /\ row.state = "CHALLENGE_ISSUED" /\ row.chal = req[r].seen
          /\ row.expires > t /\ row.updated <= t
       THEN /\ row' = [row EXCEPT !.state = "QUORUM_VERIFIED",
                         !.verified = [keys |-> req[r].arg, at |-> t],
                         !.updated = t]
            /\ NextRound(r) \/ Done(r, "failed")
       ELSE NextRound(r) /\ UNCHANGED row
    /\ Environment /\ UNCHANGED admission

GrantUntil(t) == Smaller(t + GrantTTL, row.chal.until)

IssueGrant(r) ==
    /\ req[r].pc = "IssueGrant"
    /\ IF row.state # "QUORUM_VERIFIED" THEN NextRound(r)
       ELSE \E t \in Reading :
              IF row.verified.at <= t /\ t < GrantUntil(t)
              THEN Propose(r, "issueGrant", t, row.verified.keys)
              ELSE NextRound(r)
    /\ StoreUnchanged

\* Mutant: the UPDATE also matches a row that has its grant.
issueGrantAgain(r) ==
    LET t == req[r].t IN
    /\ req[r].pc = "issueGrant"
    /\ IF /\ row.state \in {"QUORUM_VERIFIED", "GRANT_ISSUED"}
          /\ row.verified.keys = req[r].seen
          /\ row.expires > t /\ row.updated <= t
       THEN /\ row' = [row EXCEPT !.state = "GRANT_ISSUED",
                         !.grant = [by |-> r, at |-> t, until |-> GrantUntil(t)],
                         !.expires = GrantUntil(t), !.updated = t]
            /\ NextRound(r)
       ELSE NextRound(r) /\ UNCHANGED row
    /\ Environment /\ UNCHANGED admission

issueGrant(r) ==
    LET t == req[r].t IN
    /\ req[r].pc = "issueGrant"
    /\ IF /\ row.state = "QUORUM_VERIFIED" /\ row.verified.keys = req[r].seen
          /\ row.expires > t /\ row.updated <= t
       THEN /\ row' = [row EXCEPT !.state = "GRANT_ISSUED",
                         !.grant = [by |-> r, at |-> t, until |-> GrantUntil(t)],
                         !.expires = GrantUntil(t), !.updated = t]
            /\ NextRound(r) \/ Done(r, "failed")
       ELSE NextRound(r) /\ UNCHANGED row
    /\ Environment /\ UNCHANGED admission

-----------------------------------------------------------------------------
(* ConsumeGrant and the dispatch admission *)

\* The service's read; the client presents the one grant there is.
readGrant(r) ==
    /\ req[r].pc = "read"
    /\ IF In("GRANT_ISSUED") /\ row.grant.at <= req[r].t /\ req[r].t < row.grant.until
       THEN Go(r, "consume")
       ELSE Done(r, "refused")
    /\ StoreUnchanged

\* Mutant: consumption relies on the handler's early FENCE check.
consumeGrantEarlyCheck(r) ==
    /\ req[r].pc = "consume"
    /\ \E t \in Reading :
         IF row.state = "GRANT_ISSUED" /\ row.expires > t /\ row.updated <= t
         THEN /\ row' = [row EXCEPT !.state = "CONSUMED", !.updated = t,
                           !.consumed = [by |-> req[r].arg, at |-> t]]
              /\ Done(r, "ok")
         ELSE Done(r, "refused") /\ UNCHANGED row
    /\ Environment /\ UNCHANGED admission

\* PostgresStore.consumeGrant: FENCE, clock, row and UPDATE under the scope
\* lock.
consumeGrant(r) ==
    /\ req[r].pc = "consume"
    /\ IF fenced THEN Done(r, "fenced") /\ UNCHANGED row
       ELSE \E t \in Reading :
              IF row.state = "GRANT_ISSUED" /\ row.expires > t /\ row.updated <= t
              THEN /\ row' = [row EXCEPT !.state = "CONSUMED", !.updated = t,
                                !.consumed = [by |-> req[r].arg, at |-> t]]
                   /\ Done(r, "ok")
              ELSE Done(r, "refused") /\ UNCHANGED row
    /\ Environment /\ UNCHANGED admission

\* Mutant: only the attempt is looked up, not the consumption.
ConsumptionUnclaimedUnchecked(x) == TRUE

\* No other attempt was admitted for this consumption.
ConsumptionUnclaimed(x) == \A y \in Attempts : admission[y] = None

\* claimDispatchAdmission with its seal, under the scope lock: an exact retry
\* returns the stored record, also under FENCE and after expiry.
claimDispatchAdmission(r) ==
    LET subject == req[r].arg[1]
        x == req[r].arg[2]
    IN
    /\ req[r].pc = "claim"
    /\ IF admission[x] # None
       THEN /\ Done(r, IF admission[x].by = subject THEN "ok" ELSE "refused")
            /\ UNCHANGED admission
       ELSE IF fenced THEN Done(r, "fenced") /\ UNCHANGED admission
       ELSE \E t \in Reading :
              IF /\ ConsumptionUnclaimed(x) /\ In("CONSUMED")
                 /\ row.expires > t /\ row.consumed.at <= t
                 /\ row.consumed.by = subject
              THEN /\ admission' = [admission EXCEPT ![x] =
                        [by |-> subject, at |-> t,
                         until |-> Smaller(t + AdmissionTTL, row.grant.until)]]
                   /\ Done(r, "ok")
              ELSE Done(r, "refused") /\ UNCHANGED admission
    /\ Environment /\ UNCHANGED row

-----------------------------------------------------------------------------
(* Deny and Expire: the clock was read before the transaction. *)

\* Mutant: the row's last update is not compared with the clock.
denyAnyTime(r) ==
    /\ req[r].pc = "deny"
    /\ IF row # None /\ row.state \notin Terminal
       THEN row' = [row EXCEPT !.state = "DENIED", !.updated = req[r].t] /\ Done(r, "ok")
       ELSE Done(r, "conflict") /\ UNCHANGED row
    /\ Environment /\ UNCHANGED admission

deny(r) ==
    /\ req[r].pc = "deny"
    /\ IF row # None /\ row.state \notin Terminal /\ row.updated <= req[r].t
       THEN row' = [row EXCEPT !.state = "DENIED", !.updated = req[r].t] /\ Done(r, "ok")
       ELSE Done(r, "conflict") /\ UNCHANGED row
    /\ Environment /\ UNCHANGED admission

expire(r) ==
    /\ req[r].pc = "expire"
    /\ IF /\ row # None /\ row.state \notin Terminal \cup {"HOLD_PENDING"}
          /\ row.expires <= req[r].t /\ row.updated <= req[r].t
       THEN row' = [row EXCEPT !.state = "EXPIRED", !.updated = req[r].t] /\ Done(r, "ok")
       ELSE Done(r, "conflict") /\ UNCHANGED row
    /\ Environment /\ UNCHANGED admission

-----------------------------------------------------------------------------
\* A statement fails or the process dies before its commit.
fail(r) == req[r].pc # "idle" /\ Done(r, "failed") /\ StoreUnchanged

Tick == now < MaxTime /\ now' = now + 1 /\ UNCHANGED <<fenced, authority, row, admission, req>>
Fence == ~fenced /\ fenced' = TRUE /\ UNCHANGED <<now, authority, row, admission, req>>

\* The source moves to another authority snapshot.
RotateAuthority ==
    /\ authority /\ authority' = FALSE
    /\ UNCHANGED <<now, fenced, row, admission, req>>

Init ==
    /\ lag \in Lags
    /\ now = 1 /\ fenced = FALSE /\ authority = TRUE
    /\ row = None
    /\ admission = [x \in Attempts |-> None]
    /\ req = [r \in Requests |-> Idle(FALSE)]

Next ==
    /\ \/ Tick \/ Fence \/ RotateAuthority
       \/ \E r \in Requests :
            \/ \E kind \in Kinds : Arrive(r, kind)
            \/ requireUnfencedConsumerScope(r)
            \/ createHold(r) \/ resume(r)
            \/ getCeremony(r)
            \/ IssueChallenge(r) \/ issueChallenge(r)
            \/ VerifyQuorum(r) \/ recordQuorum(r)
            \/ IssueGrant(r) \/ issueGrant(r)
            \/ readGrant(r) \/ consumeGrant(r)
            \/ claimDispatchAdmission(r)
            \/ deny(r) \/ expire(r) \/ fail(r)
    /\ UNCHANGED lag

Spec == Init /\ [][Next]_vars

-----------------------------------------------------------------------------
(* Properties *)

\* Record.Validate: the artefacts a stored row carries in its state.
Carries(chal, verified, grant, consumed) ==
    /\ (row.chal # None) = chal /\ (row.verified # None) = verified
    /\ (row.grant # None) = grant /\ (row.consumed # None) = consumed

\* The guards of the UPDATEs are enough: although they look at single columns
\* and the clocks of replicas differ, every row they write passes
\* Record.Validate.  The authority chain is complete for the state, in order of
\* time, and inside the window the hold opened.
RowsValidate ==
    row # None =>
      /\ row.hold <= row.updated
      /\ row.chal # None =>
           /\ row.hold + MinHold <= row.chal.at /\ row.chal.at < row.chal.until
           /\ row.chal.until <= row.hold + MaxLifetime
      /\ row.verified # None =>
           /\ row.chal # None /\ QuorumMet(row.verified.keys)
           /\ row.chal.at <= row.verified.at /\ row.verified.at < row.chal.until
      /\ row.grant # None =>
           /\ row.verified # None
           /\ row.verified.at <= row.grant.at /\ row.grant.at < row.grant.until
           /\ row.grant.until <= row.chal.until
      /\ CASE row.state = "HOLD_PENDING" ->
                Carries(FALSE, FALSE, FALSE, FALSE) /\ row.updated = row.hold
           [] row.state = "CHALLENGE_ISSUED" ->
                Carries(TRUE, FALSE, FALSE, FALSE) /\ row.updated = row.chal.at
           [] row.state = "QUORUM_VERIFIED" ->
                Carries(TRUE, TRUE, FALSE, FALSE) /\ row.updated = row.verified.at
           [] row.state = "GRANT_ISSUED" ->
                Carries(TRUE, TRUE, TRUE, FALSE) /\ row.updated = row.grant.at
           [] row.state = "CONSUMED" ->
                /\ Carries(TRUE, TRUE, TRUE, TRUE)
                /\ row.updated = row.consumed.at
                /\ row.grant.at <= row.consumed.at
                /\ row.consumed.at < row.grant.until
           [] row.state = "EXPIRED" ->
                row.chal # None /\ row.consumed = None /\ row.expires <= row.updated
           [] OTHER -> row.consumed = None
      /\ row.expires = IF row.grant # None THEN row.grant.until
                       ELSE IF row.chal # None THEN row.chal.until ELSE 0

\* Authority is written once: whatever stale handlers still hold, the source
\* material, a challenge, a grant or a consumption never changes once stored,
\* and a denied, expired or consumed ceremony never moves again.
AuthorityWrittenOnce ==
    [][row # None =>
         /\ row.state \in Terminal => row' = row
         /\ row'.spec = row.spec /\ row'.hold = row.hold
         /\ row.chal # None => row'.chal = row.chal
         /\ row.verified # None => row'.verified = row.verified
         /\ row.grant # None => row'.grant = row.grant]_vars

Consumed == In("CONSUMED")

\* Under FENCE no grant is consumed and no dispatch is admitted, also by
\* handlers that passed their early FENCE check before it.
FenceFreezesAuthority ==
    [][fenced => (Consumed' => Consumed) /\ admission' = admission]_vars

\* One consumption admits one dispatch attempt, for the workload that consumed
\* the grant, and the admission lies inside the window that the hold opened.
AdmissionWithinCeremony ==
    \A x \in Attempts : admission[x] # None =>
        /\ \A y \in Attempts : admission[y] # None => x = y
        /\ Consumed /\ admission[x].by = row.consumed.by
        /\ row.consumed.at <= admission[x].at
        /\ row.hold + MinHold <= admission[x].at
        /\ admission[x].at < admission[x].until
        /\ admission[x].until <= row.hold + MaxLifetime

\* The handler's turns are enough: when the replicas' clocks agree, a challenge
\* or assertion request runs out of turns only if the ceremony was denied or
\* expired under it or is out of time, never because others advanced it.
OutOfTime ==
    IF row.chal = None THEN row.hold + MaxLifetime <= now ELSE row.chal.until <= now
RetriesSuffice ==
    [][\A r \in Requests :
         lag = 0 /\ req[r].pc # "idle" /\ req'[r].exhausted
         => row.state \in {"EXPIRED", "DENIED"} \/ OutOfTime]_vars
=============================================================================

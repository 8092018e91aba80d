----------------------- MODULE ApprovalCeremonyProofs -----------------------
(***************************************************************************)
(* Proofs that the guards of the ceremony's UPDATEs are enough: whatever   *)
(* stale handlers of whatever replicas still hold, every row they commit   *)
(* passes Record.Validate, authority is written once and frozen by FENCE,  *)
(* and a dispatch is admitted inside the window of its ceremony.  For      *)
(* every set of requests, subjects, attempts and keys, every configuration *)
(* of lifetimes and every skew of the clocks.                              *)
(***************************************************************************)
EXTENDS ApprovalCeremony, TLAPS

-----------------------------------------------------------------------------
(* Records *)

\* The authority chain of a record: in order of time and inside the window that
\* its hold opened.
ChainOK(w) ==
    /\ w.hold <= w.updated
    /\ w.chal # None =>
         /\ w.hold + MinHold <= w.chal.at /\ w.chal.at < w.chal.until
         /\ w.chal.until <= w.hold + MaxLifetime
    /\ w.verified # None =>
         /\ w.chal # None /\ QuorumMet(w.verified.keys)
         /\ w.chal.at <= w.verified.at /\ w.verified.at < w.chal.until
    /\ w.grant # None =>
         /\ w.verified # None
         /\ w.verified.at <= w.grant.at /\ w.grant.at < w.grant.until
         /\ w.grant.until <= w.chal.until
    /\ w.expires = IF w.grant # None THEN w.grant.until
                   ELSE IF w.chal # None THEN w.chal.until ELSE 0

\* What a record carries in its state, and when it was last updated.
StageOK(w) ==
    /\ w.state = "HOLD_PENDING" =>
         /\ w.chal = None /\ w.verified = None /\ w.grant = None /\ w.consumed = None
         /\ w.updated = w.hold
    /\ w.state = "CHALLENGE_ISSUED" =>
         /\ w.chal # None /\ w.verified = None /\ w.grant = None /\ w.consumed = None
         /\ w.updated = w.chal.at
    /\ w.state = "QUORUM_VERIFIED" =>
         /\ w.chal # None /\ w.verified # None /\ w.grant = None /\ w.consumed = None
         /\ w.updated = w.verified.at
    /\ w.state = "GRANT_ISSUED" =>
         /\ w.chal # None /\ w.verified # None /\ w.grant # None /\ w.consumed = None
         /\ w.updated = w.grant.at
    /\ w.state = "CONSUMED" =>
         /\ w.chal # None /\ w.verified # None /\ w.grant # None /\ w.consumed # None
         /\ w.updated = w.consumed.at
         /\ w.grant.at <= w.consumed.at /\ w.consumed.at < w.grant.until
    /\ w.state = "EXPIRED" =>
         w.chal # None /\ w.consumed = None /\ w.expires <= w.updated
    /\ w.state = "DENIED" => w.consumed = None

RecordOK(w) == w \in Records /\ ChainOK(w) /\ StageOK(w)

\* What an update may do to a stored record.
Extends(w, v) ==
    /\ v.state = "HOLD_PENDING" => w.state = "HOLD_PENDING"
    /\ v.state = "CHALLENGE_ISSUED" => w.state \in {"HOLD_PENDING", "CHALLENGE_ISSUED"}
    /\ v.state = "QUORUM_VERIFIED" => w.state \in {"CHALLENGE_ISSUED", "QUORUM_VERIFIED"}
    /\ w.state \in Terminal => v = w
    /\ v.spec = w.spec /\ v.hold = w.hold
    /\ w.chal # None => v.chal = w.chal
    /\ w.verified # None => v.verified = w.verified
    /\ w.grant # None => v.grant = w.grant

\* RowsValidate is RecordOK of the stored row.
LEMMA RecordsValidate ==
    ASSUME row \in Records \cup {None}, row # None => RecordOK(row)
    PROVE  RowsValidate
<1> SUFFICES ASSUME row # None, row \in Records, ChainOK(row), StageOK(row)
             PROVE  RowsValidate
    BY DEF RowsValidate, RecordOK
<1>1. row.state \in States
    BY DEF Records
<1>2. CASE row.state = "HOLD_PENDING"
    BY <1>2 DEF ChainOK, StageOK, RowsValidate, Carries
<1>3. CASE row.state = "CHALLENGE_ISSUED"
    BY <1>3 DEF ChainOK, StageOK, RowsValidate, Carries
<1>4. CASE row.state = "QUORUM_VERIFIED"
    BY <1>4 DEF ChainOK, StageOK, RowsValidate, Carries
<1>5. CASE row.state = "GRANT_ISSUED"
    BY <1>5 DEF ChainOK, StageOK, RowsValidate, Carries
<1>6. CASE row.state = "CONSUMED"
    BY <1>6 DEF ChainOK, StageOK, RowsValidate, Carries
<1>7. CASE row.state = "EXPIRED"
    BY <1>7 DEF ChainOK, StageOK, RowsValidate, Carries
<1>8. CASE row.state = "DENIED"
    BY <1>8 DEF ChainOK, StageOK, RowsValidate, Carries
<1> QED
    BY <1>1, <1>2, <1>3, <1>4, <1>5, <1>6, <1>7, <1>8 DEF States

\* The hold that createHold inserts.
LEMMA HoldWritten ==
    ASSUME NEW s \in Specs, NEW t \in Nat
    PROVE  RecordOK([state |-> "HOLD_PENDING", spec |-> s, hold |-> t,
                     chal |-> None, verified |-> None, grant |-> None,
                     consumed |-> None, updated |-> t, expires |-> 0])
BY DEF RecordOK, Records, States, ChainOK, StageOK

\* issueChallenge: the window of a challenge lies in that of the hold.
LEMMA ChallengeWritten ==
    ASSUME NEW w, RecordOK(w), w.state = "HOLD_PENDING", NEW r \in Requests,
           NEW t \in Nat, w.hold + MinHold <= t, t < w.hold + MaxLifetime,
           NEW v, v = [w EXCEPT !.state = "CHALLENGE_ISSUED",
                         !.chal = [by |-> r, at |-> t,
                                   until |-> Smaller(t + ChallengeTTL, w.hold + MaxLifetime)],
                         !.expires = Smaller(t + ChallengeTTL, w.hold + MaxLifetime),
                         !.updated = t]
    PROVE  RecordOK(v) /\ Extends(w, v)
<1> DEFINE until == Smaller(t + ChallengeTTL, w.hold + MaxLifetime)
           chal == [by |-> r, at |-> t, until |-> until]
<1>1. w \in Records /\ w.hold \in Nat /\ ChainOK(w) /\ StageOK(w)
    BY DEF RecordOK, Records
<1>2. until \in Nat /\ t < until /\ until <= w.hold + MaxLifetime
    BY <1>1, CeremonyConfig DEF Smaller
<1> HIDE DEF until
<1>3. /\ chal \in Challenges /\ chal # None
      /\ chal.at = t /\ chal.until = until
    BY <1>2, NoneAssumption DEF Challenges
<1> HIDE DEF chal
<1>4. /\ v \in Records /\ v.state = "CHALLENGE_ISSUED" /\ v.chal = chal
      /\ v.expires = until /\ v.updated = t /\ v.hold = w.hold /\ v.spec = w.spec
      /\ v.verified = None /\ v.grant = None /\ v.consumed = None
    BY <1>1, <1>2, <1>3 DEF Records, States, StageOK, until, chal
<1>5. ChainOK(v) /\ StageOK(v)
    BY <1>1, <1>2, <1>3, <1>4, CeremonyConfig DEF ChainOK, StageOK
<1> QED
    BY <1>1, <1>4, <1>5 DEF RecordOK, Extends, StageOK, Terminal

\* recordQuorum: a quorum inside the window of the challenge.
LEMMA QuorumWritten ==
    ASSUME NEW w, RecordOK(w), w.state = "CHALLENGE_ISSUED",
           NEW keys \in AssertionSets, QuorumMet(keys),
           NEW t \in Nat, w.expires > t, w.updated <= t,
           NEW v, v = [w EXCEPT !.state = "QUORUM_VERIFIED",
                         !.verified = [keys |-> keys, at |-> t], !.updated = t]
    PROVE  RecordOK(v) /\ Extends(w, v)
<1> DEFINE verified == [keys |-> keys, at |-> t]
<1>1. w \in Records /\ w.hold \in Nat /\ w.chal \in Challenges /\ ChainOK(w) /\ StageOK(w)
    BY DEF RecordOK, Records, StageOK
<1>2. /\ verified \in Verifications /\ verified # None
      /\ verified.at = t /\ verified.keys = keys
    BY NoneAssumption DEF Verifications
<1> HIDE DEF verified
<1>3. /\ v \in Records /\ v.state = "QUORUM_VERIFIED" /\ v.verified = verified
      /\ v.updated = t /\ v.hold = w.hold /\ v.spec = w.spec /\ v.chal = w.chal
      /\ v.expires = w.expires /\ v.grant = None /\ v.consumed = None
    BY <1>1, <1>2 DEF Records, States, StageOK, verified
<1>4. w.chal.at \in Nat /\ w.chal.until \in Nat /\ w.chal.at <= t /\ t < w.chal.until
    BY <1>1 DEF Challenges, ChainOK, StageOK
<1>5. ChainOK(v) /\ StageOK(v)
    BY <1>1, <1>2, <1>3, <1>4, CeremonyConfig DEF ChainOK, StageOK
<1> QED
    BY <1>1, <1>3, <1>5 DEF RecordOK, Extends, StageOK, Terminal

\* issueGrant: a grant ends with its challenge at the latest.
LEMMA GrantWritten ==
    ASSUME NEW w, RecordOK(w), w.state = "QUORUM_VERIFIED", NEW r \in Requests,
           NEW t \in Nat, w.expires > t, w.updated <= t,
           NEW until, until = Smaller(t + GrantTTL, w.chal.until),
           NEW v, v = [w EXCEPT !.state = "GRANT_ISSUED",
                         !.grant = [by |-> r, at |-> t, until |-> until],
                         !.expires = until, !.updated = t]
    PROVE  RecordOK(v) /\ Extends(w, v)
<1> DEFINE grant == [by |-> r, at |-> t, until |-> until]
<1>1. /\ w \in Records /\ w.hold \in Nat /\ w.chal \in Challenges
      /\ w.verified \in Verifications /\ ChainOK(w) /\ StageOK(w)
    BY DEF RecordOK, Records, StageOK
<1>2. w.chal.at \in Nat /\ w.chal.until \in Nat /\ w.verified.at \in Nat /\ t < w.chal.until
    BY <1>1 DEF Challenges, Verifications, ChainOK, StageOK
<1>3. until \in Nat /\ t < until /\ until <= w.chal.until
    BY <1>2, CeremonyConfig DEF Smaller
<1>4. /\ grant \in Challenges /\ grant # None
      /\ grant.at = t /\ grant.until = until
    BY <1>3, NoneAssumption DEF Challenges
<1> HIDE DEF grant
<1>5. /\ v \in Records /\ v.state = "GRANT_ISSUED" /\ v.verified = w.verified
      /\ v.updated = t /\ v.hold = w.hold /\ v.spec = w.spec /\ v.chal = w.chal
      /\ v.expires = until /\ v.grant = grant /\ v.consumed = None
    BY <1>1, <1>3, <1>4 DEF Records, States, StageOK, grant
<1>6. ChainOK(v) /\ StageOK(v)
    BY <1>1, <1>2, <1>3, <1>4, <1>5, CeremonyConfig DEF ChainOK, StageOK
<1> QED
    BY <1>1, <1>5, <1>6 DEF RecordOK, Extends, StageOK, Terminal

\* consumeGrant: a grant is consumed while it lasts.
LEMMA ConsumptionWritten ==
    ASSUME NEW w, RecordOK(w), w.state = "GRANT_ISSUED", NEW s \in Subjects,
           NEW t \in Nat, w.expires > t, w.updated <= t,
           NEW v, v = [w EXCEPT !.state = "CONSUMED", !.updated = t,
                         !.consumed = [by |-> s, at |-> t]]
    PROVE  RecordOK(v) /\ Extends(w, v)
<1> DEFINE consumed == [by |-> s, at |-> t]
<1>1. /\ w \in Records /\ w.hold \in Nat /\ w.chal \in Challenges
      /\ w.verified \in Verifications /\ w.grant \in Challenges
      /\ ChainOK(w) /\ StageOK(w)
    BY DEF RecordOK, Records, StageOK
<1>2. /\ consumed \in Consumptions /\ consumed # None /\ consumed.at = t
    BY NoneAssumption DEF Consumptions
<1> HIDE DEF consumed
<1>3. /\ v \in Records /\ v.state = "CONSUMED" /\ v.verified = w.verified
      /\ v.updated = t /\ v.hold = w.hold /\ v.spec = w.spec /\ v.chal = w.chal
      /\ v.expires = w.expires /\ v.grant = w.grant /\ v.consumed = consumed
    BY <1>1, <1>2 DEF Records, States, StageOK, consumed
<1>4. /\ w.chal.at \in Nat /\ w.chal.until \in Nat /\ w.verified.at \in Nat
      /\ w.grant.at \in Nat /\ w.grant.until \in Nat /\ t < w.grant.until
      /\ w.hold <= w.updated /\ w.updated \in Nat
    BY <1>1 DEF Records, Challenges, Verifications, ChainOK, StageOK
<1>5. ChainOK(v) /\ StageOK(v)
    BY <1>1, <1>2, <1>3, <1>4, CeremonyConfig DEF ChainOK, StageOK
<1> QED
    BY <1>1, <1>3, <1>5 DEF RecordOK, Extends, StageOK, Terminal

\* deny and expire: the ceremony ends, its artefacts stay.
LEMMA EndWritten ==
    ASSUME NEW w, RecordOK(w), w.state \notin Terminal, NEW t \in Nat, w.updated <= t,
           NEW end \in {"DENIED", "EXPIRED"},
           end = "EXPIRED" => w.state # "HOLD_PENDING" /\ w.expires <= t,
           NEW v, v = [w EXCEPT !.state = end, !.updated = t]
    PROVE  RecordOK(v) /\ Extends(w, v)
<1>1. w \in Records /\ w.hold \in Nat /\ ChainOK(w) /\ StageOK(w)
    BY DEF RecordOK, Records
<1>2. /\ v \in Records /\ v.state = end /\ v.verified = w.verified
      /\ v.updated = t /\ v.hold = w.hold /\ v.spec = w.spec /\ v.chal = w.chal
      /\ v.expires = w.expires /\ v.grant = w.grant /\ v.consumed = w.consumed
    BY <1>1 DEF Records, States
<1>3. /\ w.consumed = None /\ w.updated \in Nat
      /\ w.state # "HOLD_PENDING" => w.chal # None
    BY <1>1 DEF Records, States, StageOK, Terminal
<1>4. ChainOK(v) /\ StageOK(v)
    BY <1>1, <1>2, <1>3 DEF ChainOK, StageOK
<1> QED
    BY <1>2, <1>4 DEF RecordOK, Extends
-----------------------------------------------------------------------------
(* Requests and the inductive invariant *)

PCs == {"idle", "fence", "insert", "resume", "get", "IssueChallenge", "issueChallenge",
        "VerifyQuorum", "recordQuorum", "IssueGrant", "issueGrant", "read", "consume",
        "claim", "deny", "expire"}
Seen == Challenges \cup AssertionSets \cup {None}
RequestRecords ==
    [pc : PCs, kind : Kinds \cup {None},
     arg : Specs \cup AssertionSets \cup Subjects \cup (Subjects \X Attempts) \cup {None},
     round : Nat, t : Nat, seen : Seen, exhausted : BOOLEAN]

\* The handler a program counter belongs to.
OfHandler(n) ==
    /\ n.pc # "idle" => n.kind \in Kinds /\ n.arg \in Args(n.kind)
    /\ n.pc \in {"insert", "resume"} => n.kind = "begin"
    /\ n.pc = "get" => n.kind \in {"challenge", "assert"}
    /\ n.pc \in {"IssueChallenge", "issueChallenge"} => n.kind = "challenge"
    /\ n.pc \in {"VerifyQuorum", "recordQuorum", "IssueGrant", "issueGrant"}
         => n.kind = "assert"
    /\ n.pc \in {"read", "consume"} => n.kind = "consume"
    /\ n.pc = "claim" => n.kind = "claim"

FoundRow == {"resume", "IssueChallenge", "issueChallenge", "VerifyQuorum",
             "recordQuorum", "IssueGrant", "issueGrant", "consume"}

\* What a handler has established and will not look at again when it writes: that
\* there is a row, the age of its hold, the quorum, and that its time has been.
Established(n) ==
    /\ n.t <= now
    /\ n.pc \in FoundRow => row # None
    /\ n.pc = "issueChallenge" =>
         row.hold + MinHold <= n.t /\ n.t < row.hold + MaxLifetime
    /\ n.pc = "recordQuorum" => QuorumMet(n.arg)

CeremonyInv ==
    /\ now \in Nat
    /\ row \in Records \cup {None}
    /\ row # None => RecordOK(row) /\ row.updated <= now
    /\ admission \in [Attempts -> Admissions \cup {None}]
    /\ req \in [Requests -> RequestRecords]
    /\ \A r \in Requests : OfHandler(req[r]) /\ Established(req[r])
    /\ AdmissionWithinCeremony

\* What a step may do to the store.
StoreStep ==
    /\ now' \in Nat /\ now <= now'
    /\ row' \in Records \cup {None}
    /\ row' # None => RecordOK(row') /\ row'.updated <= now'
    /\ row # None => row' # None /\ Extends(row, row')
    /\ admission' \in [Attempts -> Admissions \cup {None}]
    /\ AdmissionWithinCeremony'

\* What a step may do to request r.
MovesTo(r, pc, round, t, seen) ==
    \E n \in RequestRecords :
        /\ req' = [req EXCEPT ![r] = n]
        /\ n.kind = req[r].kind /\ n.arg = req[r].arg /\ n.exhausted = req[r].exhausted
        /\ n.pc = pc /\ n.round = round /\ n.t = t /\ n.seen = seen
Ends(r, exhausted) == req' = [req EXCEPT ![r] = Idle(exhausted)]

-----------------------------------------------------------------------------
(* What a step does to the store *)

\* Nothing is written.
LEMMA NothingWritten ==
    ASSUME CeremonyInv, now' \in Nat, now <= now', UNCHANGED <<row, admission>>
    PROVE  StoreStep
<1>1. row # None => row.updated <= now'
    BY DEF CeremonyInv, Records
<1> QED
    BY <1>1 DEF CeremonyInv, StoreStep, Extends, AdmissionWithinCeremony, Consumed, In

\* A row is inserted or updated: an admitted dispatch pins a consumed ceremony,
\* which no update touches.
LEMMA RowWritten ==
    ASSUME CeremonyInv, UNCHANGED <<now, admission>>,
           RecordOK(row'), row'.updated <= now,
           row # None => Extends(row, row')
    PROVE  StoreStep
<1>1. row' \in Records /\ row' # None
    BY NoneAssumption DEF RecordOK
<1>2. AdmissionWithinCeremony'
    <2>1. CASE \A x \in Attempts : admission[x] = None
        BY <2>1 DEF AdmissionWithinCeremony
    <2>2. CASE \E x \in Attempts : admission[x] # None
        <3>1. row # None /\ row.state = "CONSUMED"
            BY <2>2 DEF CeremonyInv, AdmissionWithinCeremony, Consumed, In
        <3>2. row' = row
            BY <3>1 DEF Extends, Terminal
        <3> QED
            BY <3>2 DEF CeremonyInv, AdmissionWithinCeremony, Consumed, In
    <2> QED
        BY <2>1, <2>2
<1> QED
    BY <1>1, <1>2 DEF CeremonyInv, StoreStep

-----------------------------------------------------------------------------
(* What a step does to the requests *)

\* The moves of a request.
LEMMA Moves ==
    ASSUME CeremonyInv, NEW r \in Requests
    PROVE  /\ \A pc \in PCs : Go(r, pc) =>
                MovesTo(r, pc, req[r].round, req[r].t, req[r].seen)
           /\ \A pc \in PCs, t \in Nat : GoAt(r, pc, t) =>
                MovesTo(r, pc, req[r].round, t, req[r].seen)
           /\ \A pc \in PCs, t \in Nat, seen \in Seen : Propose(r, pc, t, seen) =>
                MovesTo(r, pc, req[r].round, t, seen)
           /\ req' = [At(r, "get") EXCEPT ![r].round = 1] =>
                MovesTo(r, "get", 1, req[r].t, req[r].seen)
           /\ NextRound(r) =>
                \/ MovesTo(r, "get", req[r].round + 1, 0, None)
                \/ Ends(r, TRUE)
           /\ \A answer : Done(r, answer) => \E e \in BOOLEAN : Ends(r, e)
<1>1. req \in [Requests -> RequestRecords] /\ req[r] \in RequestRecords
    BY DEF CeremonyInv
<1>2. ASSUME NEW pc \in PCs, Go(r, pc)
      PROVE  MovesTo(r, pc, req[r].round, req[r].t, req[r].seen)
    <2> DEFINE n == [req[r] EXCEPT !.pc = pc]
    <2>1. req' = [req EXCEPT ![r] = n]
        BY <1>1, <1>2 DEF Go, At
    <2>2. /\ n \in RequestRecords /\ n.kind = req[r].kind /\ n.arg = req[r].arg
          /\ n.exhausted = req[r].exhausted
          /\ n.pc = pc /\ n.round = req[r].round /\ n.t = req[r].t /\ n.seen = req[r].seen
        BY <1>1 DEF RequestRecords
    <2> QED
        BY <2>1, <2>2 DEF MovesTo
<1>3. ASSUME NEW pc \in PCs, NEW t \in Nat, GoAt(r, pc, t)
      PROVE  MovesTo(r, pc, req[r].round, t, req[r].seen)
    <2> DEFINE n == [req[r] EXCEPT !.pc = pc, !.t = t]
    <2>1. req' = [req EXCEPT ![r] = n]
        BY <1>1, <1>3 DEF GoAt, At
    <2>2. /\ n \in RequestRecords /\ n.kind = req[r].kind /\ n.arg = req[r].arg
          /\ n.exhausted = req[r].exhausted
          /\ n.pc = pc /\ n.round = req[r].round /\ n.t = t /\ n.seen = req[r].seen
        BY <1>1 DEF RequestRecords
    <2> QED
        BY <2>1, <2>2 DEF MovesTo
<1>4. ASSUME NEW pc \in PCs, NEW t \in Nat, NEW seen \in Seen, Propose(r, pc, t, seen)
      PROVE  MovesTo(r, pc, req[r].round, t, seen)
    <2> DEFINE n == [req[r] EXCEPT !.pc = pc, !.t = t, !.seen = seen]
    <2>1. req' = [req EXCEPT ![r] = n]
        BY <1>1, <1>4 DEF Propose, At
    <2>2. /\ n \in RequestRecords /\ n.kind = req[r].kind /\ n.arg = req[r].arg
          /\ n.exhausted = req[r].exhausted
          /\ n.pc = pc /\ n.round = req[r].round /\ n.t = t /\ n.seen = seen
        BY <1>1 DEF RequestRecords
    <2> QED
        BY <2>1, <2>2 DEF MovesTo
<1>5. ASSUME req' = [At(r, "get") EXCEPT ![r].round = 1]
      PROVE  MovesTo(r, "get", 1, req[r].t, req[r].seen)
    <2> DEFINE n == [req[r] EXCEPT !.pc = "get", !.round = 1]
    <2>1. req' = [req EXCEPT ![r] = n]
        BY <1>1, <1>5 DEF At
    <2>2. /\ n \in RequestRecords /\ n.kind = req[r].kind /\ n.arg = req[r].arg
          /\ n.exhausted = req[r].exhausted
          /\ n.pc = "get" /\ n.round = 1 /\ n.t = req[r].t /\ n.seen = req[r].seen
        BY <1>1 DEF RequestRecords, PCs
    <2> QED
        BY <2>1, <2>2 DEF MovesTo
<1>6. ASSUME NEW answer, Done(r, answer)
      PROVE  \E e \in BOOLEAN : Ends(r, e)
    BY <1>6 DEF Done, Ends
<1>7. ASSUME NextRound(r)
      PROVE  \/ MovesTo(r, "get", req[r].round + 1, 0, None)
             \/ Ends(r, TRUE)
    <2>1. CASE Done(r, "exhausted")
        <3>1. ("exhausted" = "exhausted") = TRUE
            OBVIOUS
        <3> QED
            BY <2>1, <3>1 DEF Done, Ends
    <2>2. CASE req' = [At(r, "get") EXCEPT ![r].round = @ + 1, ![r].t = 0, ![r].seen = None]
        <3> DEFINE next == req[r].round + 1
                   n == [req[r] EXCEPT !.pc = "get", !.round = next, !.t = 0, !.seen = None]
        <3>1. next \in Nat /\ req' = [req EXCEPT ![r] = n]
            BY <1>1, <2>2 DEF At, RequestRecords
        <3> HIDE DEF next
        <3>2. /\ n \in RequestRecords /\ n.kind = req[r].kind /\ n.arg = req[r].arg
              /\ n.exhausted = req[r].exhausted
              /\ n.pc = "get" /\ n.round = next /\ n.t = 0 /\ n.seen = None
            BY <1>1, <3>1 DEF RequestRecords, PCs, Seen
        <3> QED
            BY <3>1, <3>2 DEF MovesTo, next
    <2> QED
        BY <1>7, <2>1, <2>2 DEF NextRound
<1> QED
    BY <1>2, <1>3, <1>4, <1>5, <1>6, <1>7

\* The requests that take no step keep what they established: a hold never moves.
LEMMA RequestsKept ==
    ASSUME CeremonyInv, StoreStep, NEW r \in Requests,
           NEW n \in RequestRecords, req' = [req EXCEPT ![r] = n],
           OfHandler(n), Established(n)'
    PROVE  CeremonyInv'
<1>1. req \in [Requests -> RequestRecords]
    BY DEF CeremonyInv
<1>2. /\ req' \in [Requests -> RequestRecords] /\ req'[r] = n
      /\ \A q \in Requests \ {r} : req'[q] = req[q]
    BY <1>1
<1>3. ASSUME NEW q \in Requests \ {r}
      PROVE  OfHandler(req[q])' /\ Established(req[q])'
    <2>1. req'[q] = req[q] /\ OfHandler(req[q]) /\ Established(req[q])
        BY <1>2 DEF CeremonyInv
    <2>2. OfHandler(req[q])'
        BY <2>1 DEF OfHandler
    <2>3. row # None => row' # None /\ row'.hold = row.hold
        BY DEF StoreStep, Extends
    <2>4. req[q].t <= now'
        BY <2>1 DEF CeremonyInv, StoreStep, Established, RequestRecords
    <2>5. Established(req[q])'
        BY <2>1, <2>3, <2>4 DEF Established, FoundRow
    <2> QED
        BY <2>2, <2>5
<1>4. OfHandler(req[r])' /\ Established(req[r])'
    BY <1>2 DEF OfHandler, Established
<1> QED
    BY <1>2, <1>3, <1>4 DEF CeremonyInv, StoreStep

\* A request that ends.
LEMMA EndKept ==
    ASSUME CeremonyInv, StoreStep, NEW r \in Requests, NEW e \in BOOLEAN, Ends(r, e)
    PROVE  CeremonyInv'
<1>1. Idle(e) \in RequestRecords /\ Idle(e).pc = "idle" /\ Idle(e).t = 0
    BY DEF Idle, RequestRecords, PCs, Seen
<1>2. PICK n \in RequestRecords : n = Idle(e)
    BY <1>1
<1>3. OfHandler(n) /\ Established(n)'
    BY <1>1, <1>2 DEF OfHandler, Established, FoundRow, StoreStep
<1> QED
    BY <1>2, <1>3, RequestsKept DEF Ends

\* A request that moves on within its handler.
LEMMA MoveKept ==
    ASSUME CeremonyInv, StoreStep, NEW r \in Requests, req[r].pc # "idle",
           NEW pc \in PCs \ {"idle"}, NEW round, NEW t \in Nat, NEW seen, t <= now,
           MovesTo(r, pc, round, t, seen),
           pc \in {"insert", "resume"} => req[r].kind = "begin",
           pc = "get" => req[r].kind \in {"challenge", "assert"},
           pc \in {"IssueChallenge", "issueChallenge"} => req[r].kind = "challenge",
           pc \in {"VerifyQuorum", "recordQuorum", "IssueGrant", "issueGrant"}
             => req[r].kind = "assert",
           pc \in {"read", "consume"} => req[r].kind = "consume",
           pc = "claim" => req[r].kind = "claim",
           pc \in FoundRow => row # None,
           pc = "issueChallenge" =>
             row.hold + MinHold <= t /\ t < row.hold + MaxLifetime,
           pc = "recordQuorum" => QuorumMet(req[r].arg)
    PROVE  CeremonyInv'
<1>1. PICK n \in RequestRecords :
        /\ req' = [req EXCEPT ![r] = n]
        /\ n.kind = req[r].kind /\ n.arg = req[r].arg /\ n.exhausted = req[r].exhausted
        /\ n.pc = pc /\ n.round = round /\ n.t = t /\ n.seen = seen
    BY DEF MovesTo
<1>2. OfHandler(n)
    BY <1>1 DEF CeremonyInv, OfHandler
<1>3. Established(n)'
    BY <1>1 DEF CeremonyInv, Established, FoundRow, StoreStep, Extends
<1> QED
    BY <1>1, <1>2, <1>3, RequestsKept

\* A request that starts its next turn or runs out of turns.
LEMMA NextRoundKept ==
    ASSUME CeremonyInv, StoreStep, NEW r \in Requests, req[r].pc # "idle",
           req[r].kind \in {"challenge", "assert"}, NextRound(r)
    PROVE  CeremonyInv'
<1>1. CASE MovesTo(r, "get", req[r].round + 1, 0, None)
    BY <1>1, MoveKept DEF CeremonyInv, PCs, FoundRow
<1>2. CASE Ends(r, TRUE)
    BY <1>2, EndKept
<1> QED
    BY <1>1, <1>2, Moves
-----------------------------------------------------------------------------
(* The steps of the handlers *)

\* Readings are times that have been.
LEMMA ReadingPast ==
    ASSUME CeremonyInv, NEW t \in Reading
    PROVE  t \in Nat /\ t <= now
BY DEF CeremonyInv, Reading

\* So are the times that requests have read.
LEMMA ClockPast ==
    ASSUME CeremonyInv, NEW r \in Requests
    PROVE  req[r].t \in Nat /\ req[r].t <= now
BY DEF CeremonyInv, RequestRecords, Established

\* What the requests of each kind carry.
LEMMA ArgsOf ==
    /\ Args("begin") = Specs /\ Args("assert") = AssertionSets
    /\ Args("consume") = Subjects /\ Args("claim") = Subjects \X Attempts
    /\ Args("challenge") = {None} /\ Args("deny") = {None} /\ Args("expire") = {None}
BY DEF Args

\* A request arrives.
LEMMA ArriveStep ==
    ASSUME CeremonyInv, NEW r \in Requests, NEW kind \in Kinds, Arrive(r, kind)
    PROVE  StoreStep /\ CeremonyInv'
<1>1. StoreStep
    BY NothingWritten DEF Arrive, CeremonyInv
<1>2. PICK arg \in Args(kind), t \in Reading :
        req' = [req EXCEPT ![r] =
          [Idle(FALSE) EXCEPT !.kind = kind, !.arg = arg,
             !.pc = IF kind \in {"deny", "expire", "claim"} THEN kind ELSE "fence",
             !.t = IF kind \in {"deny", "expire"} THEN t ELSE 0]]
    BY DEF Arrive
<1> DEFINE pc == IF kind \in {"deny", "expire", "claim"} THEN kind ELSE "fence"
           at == IF kind \in {"deny", "expire"} THEN t ELSE 0
<1>3. PICK n : n = [Idle(FALSE) EXCEPT !.kind = kind, !.arg = arg, !.pc = pc, !.t = at]
    OBVIOUS
<1>4. at \in Nat /\ at <= now
    BY ReadingPast DEF CeremonyInv
<1>5. /\ pc \in {"fence", "deny", "expire", "claim"}
      /\ pc = "claim" => kind = "claim"
    OBVIOUS
<1> HIDE DEF pc, at
<1>6. arg \in Specs \cup AssertionSets \cup Subjects \cup (Subjects \X Attempts) \cup {None}
    BY ArgsOf DEF Kinds
<1>7. n \in RequestRecords /\ n.kind = kind /\ n.arg = arg /\ n.pc = pc /\ n.t = at
    BY <1>3, <1>4, <1>5, <1>6 DEF Idle, RequestRecords, PCs, Seen
<1>8. OfHandler(n) /\ Established(n)'
    BY <1>4, <1>5, <1>7 DEF OfHandler, Established, FoundRow, Arrive
<1> QED
    BY <1>1, <1>2, <1>3, <1>7, <1>8, RequestsKept DEF pc, at

\* The early FENCE check and what follows it.
LEMMA FenceCheckStep ==
    ASSUME CeremonyInv, NEW r \in Requests, requireUnfencedConsumerScope(r)
    PROVE  StoreStep /\ CeremonyInv'
<1>1. StoreStep /\ req[r].pc = "fence"
    BY NothingWritten DEF requireUnfencedConsumerScope, StoreUnchanged, CeremonyInv
<1>2. CASE \E answer : Done(r, answer)
    BY <1>1, <1>2, Moves, EndKept
<1>3. CASE /\ req[r].kind \in {"challenge", "assert"}
           /\ req' = [At(r, "get") EXCEPT ![r].round = 1]
    <2>1. MovesTo(r, "get", 1, req[r].t, req[r].seen)
        BY <1>3, Moves
    <2> QED
        BY <1>1, <1>3, <2>1, ReadingPast, ClockPast, MoveKept DEF PCs, FoundRow
<1>4. CASE req[r].kind = "begin" /\ \E t \in Reading : GoAt(r, "insert", t)
    <2>1. PICK t \in Reading : MovesTo(r, "insert", req[r].round, t, req[r].seen)
        BY <1>4, Moves, ReadingPast DEF PCs
    <2> QED
        BY <1>1, <1>4, <2>1, ReadingPast, ClockPast, MoveKept DEF PCs, FoundRow
<1>5. CASE req[r].kind = "consume" /\ \E t \in Reading : GoAt(r, "read", t)
    <2>1. PICK t \in Reading : MovesTo(r, "read", req[r].round, t, req[r].seen)
        BY <1>5, Moves, ReadingPast DEF PCs
    <2> QED
        BY <1>1, <1>5, <2>1, ReadingPast, ClockPast, MoveKept DEF PCs, FoundRow
<1> QED
    BY <1>2, <1>3, <1>4, <1>5 DEF requireUnfencedConsumerScope

\* createHold
LEMMA CreateHoldStep ==
    ASSUME CeremonyInv, NEW r \in Requests, createHold(r)
    PROVE  StoreStep /\ CeremonyInv'
<1>1. /\ req[r].pc = "insert" /\ req[r].kind = "begin" /\ req[r].arg \in Specs
      /\ req[r].t \in Nat
    BY ArgsOf DEF createHold, CeremonyInv, OfHandler, RequestRecords
<1>2. CASE row = None
    <2>1. RecordOK(row') /\ UNCHANGED <<now, admission>> /\ \E answer : Done(r, answer)
        BY <1>1, <1>2, HoldWritten DEF createHold, Environment
    <2>2. row'.updated = req[r].t
        BY <1>2 DEF createHold
    <2>3. StoreStep
        BY <1>2, <2>1, <2>2, ClockPast, RowWritten
    <2> QED
        BY <2>1, <2>3, Moves, EndKept
<1>3. CASE row # None
    <2>1. StoreStep /\ Go(r, "resume")
        BY <1>3, NothingWritten DEF createHold, Environment, CeremonyInv
    <2>2. MovesTo(r, "resume", req[r].round, req[r].t, req[r].seen)
        BY <2>1, Moves DEF PCs
    <2> QED
        BY <1>1, <1>3, <2>1, <2>2, ReadingPast, ClockPast, MoveKept DEF PCs
<1> QED
    BY <1>2, <1>3

\* A step that ends the request and writes nothing: resume, and every failure.
LEMMA EndStep ==
    ASSUME CeremonyInv, NEW r \in Requests, NEW answer, Done(r, answer), StoreUnchanged
    PROVE  StoreStep /\ CeremonyInv'
<1>1. StoreStep
    BY NothingWritten DEF StoreUnchanged, CeremonyInv
<1> QED
    BY <1>1, Moves, EndKept

\* Get, and the operation its state asks for.
LEMMA GetStep ==
    ASSUME CeremonyInv, NEW r \in Requests, getCeremony(r)
    PROVE  StoreStep /\ CeremonyInv'
<1>1. /\ req[r].pc = "get" /\ req[r].kind \in {"challenge", "assert"} /\ StoreUnchanged
    BY DEF getCeremony, CeremonyInv, OfHandler
<1>2. StoreStep
    BY <1>1, NothingWritten DEF StoreUnchanged, CeremonyInv
<1>3. CASE \E answer : Done(r, answer)
    BY <1>1, <1>3, EndStep
<1>4. ASSUME row # None,
             NEW pc \in {"IssueChallenge", "VerifyQuorum", "IssueGrant"}, Go(r, pc),
             (pc = "IssueChallenge") = (req[r].kind = "challenge")
      PROVE  CeremonyInv'
    <2>1. MovesTo(r, pc, req[r].round, req[r].t, req[r].seen)
        BY <1>4, Moves DEF PCs
    <2> QED
        BY <1>1, <1>2, <1>4, <2>1, ReadingPast, ClockPast, MoveKept DEF PCs
<1>5. CASE row # None /\ req[r].kind = "challenge"
    <2>1. Go(r, "IssueChallenge") \/ \E answer : Done(r, answer)
        BY <1>5 DEF getCeremony
    <2> QED
        BY <1>2, <1>3, <1>4, <1>5, <2>1
<1>6. CASE row # None /\ req[r].kind = "assert"
    <2>1. Go(r, "VerifyQuorum") \/ Go(r, "IssueGrant") \/ \E answer : Done(r, answer)
        BY <1>6 DEF getCeremony
    <2> QED
        BY <1>2, <1>3, <1>4, <1>6, <2>1
<1> QED
    BY <1>1, <1>3, <1>5, <1>6 DEF getCeremony

\* The service operations that read the row and the clock and propose an update.
LEMMA ProposeStep ==
    ASSUME CeremonyInv, NEW r \in Requests,
           IssueChallenge(r) \/ VerifyQuorum(r) \/ IssueGrant(r)
    PROVE  StoreStep /\ CeremonyInv'
<1>1. /\ req[r].pc \in {"IssueChallenge", "VerifyQuorum", "IssueGrant"}
      /\ row # None /\ StoreUnchanged
      /\ req[r].kind = IF req[r].pc = "IssueChallenge" THEN "challenge" ELSE "assert"
    BY DEF CeremonyInv, OfHandler, Established, FoundRow, IssueChallenge, VerifyQuorum, IssueGrant
<1>2. StoreStep
    BY <1>1, NothingWritten DEF StoreUnchanged, CeremonyInv
<1>3. CASE \E answer : Done(r, answer)
    BY <1>1, <1>3, EndStep
<1>4. CASE NextRound(r)
    BY <1>1, <1>2, <1>4, NextRoundKept
<1>5. CASE /\ IssueChallenge(r)
           /\ \E t \in Reading : /\ ~(t < row.hold + MinHold) /\ ~(row.hold + MaxLifetime <= t)
                                 /\ Propose(r, "issueChallenge", t, None)
    <2>1. PICK t \in Reading : /\ ~(t < row.hold + MinHold) /\ ~(row.hold + MaxLifetime <= t)
                               /\ Propose(r, "issueChallenge", t, None)
        BY <1>5
    <2>2. row.hold + MinHold <= t /\ t < row.hold + MaxLifetime
        BY <1>1, <2>1, ReadingPast, CeremonyConfig DEF CeremonyInv, Records
    <2>3. MovesTo(r, "issueChallenge", req[r].round, t, None)
        BY <2>1, Moves, ReadingPast DEF PCs, Seen
    <2>4. req[r].kind = "challenge"
        BY <1>1, <1>5 DEF IssueChallenge
    <2> QED
        BY <1>1, <1>2, <2>2, <2>3, <2>4, ReadingPast, ClockPast, MoveKept DEF PCs
<1>6. CASE /\ VerifyQuorum(r) /\ row.state = "CHALLENGE_ISSUED"
           /\ \E t \in Reading : QuorumMet(req[r].arg) /\ Propose(r, "recordQuorum", t, row.chal)
    <2>1. PICK t \in Reading : QuorumMet(req[r].arg) /\ Propose(r, "recordQuorum", t, row.chal)
        BY <1>6
    <2>2. row.chal \in Seen
        BY <1>1 DEF CeremonyInv, Records, Seen
    <2>3. MovesTo(r, "recordQuorum", req[r].round, t, row.chal)
        BY <2>1, <2>2, Moves, ReadingPast DEF PCs
    <2>4. req[r].kind = "assert"
        BY <1>1, <1>6 DEF VerifyQuorum
    <2> QED
        BY <1>1, <1>2, <2>1, <2>3, <2>4, ReadingPast, ClockPast, MoveKept DEF PCs
<1>7. CASE /\ IssueGrant(r) /\ row.state = "QUORUM_VERIFIED"
           /\ \E t \in Reading : Propose(r, "issueGrant", t, row.verified.keys)
    <2>1. PICK t \in Reading : Propose(r, "issueGrant", t, row.verified.keys)
        BY <1>7
    <2>2. row.verified.keys \in Seen
        BY <1>1, <1>7 DEF CeremonyInv, RecordOK, StageOK, Records, Verifications, Seen
    <2>3. MovesTo(r, "issueGrant", req[r].round, t, row.verified.keys)
        BY <2>1, <2>2, Moves, ReadingPast DEF PCs
    <2>4. req[r].kind = "assert"
        BY <1>1, <1>7 DEF IssueGrant
    <2> QED
        BY <1>1, <1>2, <2>3, <2>4, ReadingPast, ClockPast, MoveKept DEF PCs
<1>8. CASE IssueChallenge(r)
    BY <1>3, <1>4, <1>5, <1>8 DEF IssueChallenge
<1>9. CASE VerifyQuorum(r)
    BY <1>3, <1>4, <1>6, <1>9 DEF VerifyQuorum
<1>10. CASE IssueGrant(r)
    BY <1>3, <1>4, <1>7, <1>10 DEF IssueGrant
<1> QED
    BY <1>8, <1>9, <1>10
\* The guarded UPDATEs of a challenge, a quorum and a grant.
LEMMA UpdateStep ==
    ASSUME CeremonyInv, NEW r \in Requests,
           issueChallenge(r) \/ recordQuorum(r) \/ issueGrant(r)
    PROVE  StoreStep /\ CeremonyInv'
<1> DEFINE t == req[r].t
<1>1. /\ req[r].pc \in {"issueChallenge", "recordQuorum", "issueGrant"}
      /\ row # None /\ RecordOK(row) /\ t \in Nat /\ UNCHANGED <<now, admission>>
      /\ req[r].kind \in {"challenge", "assert"}
    BY DEF CeremonyInv, OfHandler, Established, FoundRow, RequestRecords, Environment,
           issueChallenge, recordQuorum, issueGrant
<1>2. CASE NextRound(r) /\ UNCHANGED row
    <2>1. StoreStep
        BY <1>1, <1>2, NothingWritten DEF CeremonyInv
    <2> QED
        BY <1>1, <1>2, <2>1, NextRoundKept
<1>3. ASSUME RecordOK(row'), Extends(row, row'), row'.updated = t,
             NextRound(r) \/ \E answer : Done(r, answer)
      PROVE  StoreStep /\ CeremonyInv'
    <2>1. StoreStep
        BY <1>1, <1>3, ClockPast, RowWritten
    <2> QED
        BY <1>1, <1>3, <2>1, NextRoundKept, Moves, EndKept
<1>4. CASE issueChallenge(r)
    <2>1. row.hold + MinHold <= t /\ t < row.hold + MaxLifetime
        BY <1>4 DEF CeremonyInv, Established, issueChallenge
    <2>2. CASE row.state = "HOLD_PENDING" /\ row.updated <= t
        <3>1. RecordOK(row') /\ Extends(row, row')
            BY <1>1, <1>4, <2>1, <2>2, ChallengeWritten DEF issueChallenge
        <3>2. row'.updated = t
            BY <1>1, <1>4, <2>1, <2>2 DEF issueChallenge, RecordOK, Records
        <3> QED
            BY <1>3, <1>4, <2>2, <3>1, <3>2 DEF issueChallenge
    <2> QED
        BY <1>2, <1>4, <2>2 DEF issueChallenge
<1>5. CASE recordQuorum(r)
    <2>1. QuorumMet(req[r].arg) /\ req[r].arg \in AssertionSets
        BY <1>5, ArgsOf DEF CeremonyInv, OfHandler, Established, recordQuorum
    <2>2. CASE /\ row.state = "CHALLENGE_ISSUED" /\ row.chal = req[r].seen
               /\ row.expires > t /\ row.updated <= t
        <3>1. RecordOK(row') /\ Extends(row, row')
            BY <1>1, <1>5, <2>1, <2>2, QuorumWritten DEF recordQuorum
        <3>2. row'.updated = t
            BY <1>1, <1>5, <2>1, <2>2 DEF recordQuorum, RecordOK, Records
        <3> QED
            BY <1>3, <1>5, <2>2, <3>1, <3>2 DEF recordQuorum
    <2> QED
        BY <1>2, <1>5, <2>2 DEF recordQuorum
<1>6. CASE issueGrant(r)
    <2>1. CASE /\ row.state = "QUORUM_VERIFIED" /\ row.verified.keys = req[r].seen
               /\ row.expires > t /\ row.updated <= t
        <3>1. RecordOK(row') /\ Extends(row, row')
            BY <1>1, <1>6, <2>1, GrantWritten DEF issueGrant, GrantUntil
        <3>2. row'.updated = t
            BY <1>1, <1>6, <2>1 DEF issueGrant, GrantUntil, RecordOK, Records
        <3> QED
            BY <1>3, <1>6, <2>1, <3>1, <3>2 DEF issueGrant
    <2> QED
        BY <1>2, <1>6, <2>1 DEF issueGrant
<1> QED
    BY <1>4, <1>5, <1>6

\* The service's read before the consumption.
LEMMA ReadGrantStep ==
    ASSUME CeremonyInv, NEW r \in Requests, readGrant(r)
    PROVE  StoreStep /\ CeremonyInv'
<1>1. req[r].pc = "read" /\ req[r].kind = "consume" /\ StoreUnchanged
    BY DEF readGrant, CeremonyInv, OfHandler
<1>2. CASE \E answer : Done(r, answer)
    BY <1>1, <1>2, EndStep
<1>3. CASE In("GRANT_ISSUED") /\ Go(r, "consume")
    <2>1. StoreStep /\ row # None
        BY <1>1, <1>3, NothingWritten DEF In, StoreUnchanged, CeremonyInv
    <2>2. MovesTo(r, "consume", req[r].round, req[r].t, req[r].seen)
        BY <1>3, Moves DEF PCs
    <2> QED
        BY <1>1, <2>1, <2>2, ReadingPast, ClockPast, MoveKept DEF PCs
<1> QED
    BY <1>2, <1>3 DEF readGrant

\* A row is updated and the request ends, or nothing is written and it ends.
LEMMA UpdateAndEnd ==
    ASSUME CeremonyInv, NEW r \in Requests, NEW answer, Done(r, answer),
           UNCHANGED <<now, admission>>,
           \/ UNCHANGED row
           \/ row # None /\ RecordOK(row') /\ row'.updated <= now /\ Extends(row, row')
    PROVE  StoreStep /\ CeremonyInv'
<1>1. StoreStep
    BY NothingWritten, RowWritten DEF CeremonyInv
<1> QED
    BY <1>1, Moves, EndKept

\* consumeGrant, under the scope lock.
LEMMA ConsumeStep ==
    ASSUME CeremonyInv, NEW r \in Requests, consumeGrant(r)
    PROVE  StoreStep /\ CeremonyInv'
<1>1. /\ req[r].arg \in Subjects /\ row # None /\ RecordOK(row)
      /\ UNCHANGED <<now, admission>>
    BY ArgsOf DEF consumeGrant, CeremonyInv, OfHandler, Established, FoundRow, Environment
<1>2. CASE UNCHANGED row /\ \E answer : Done(r, answer)
    BY <1>1, <1>2, UpdateAndEnd
<1>3. CASE \E t \in Reading :
             /\ row.state = "GRANT_ISSUED" /\ row.expires > t /\ row.updated <= t
             /\ row' = [row EXCEPT !.state = "CONSUMED", !.updated = t,
                          !.consumed = [by |-> req[r].arg, at |-> t]]
             /\ Done(r, "ok")
    <2>1. RecordOK(row') /\ Extends(row, row')
        BY <1>1, <1>3, ConsumptionWritten, ReadingPast
    <2>2. row'.updated <= now
        BY <1>1, <1>3, ReadingPast DEF RecordOK, Records
    <2> QED
        BY <1>1, <1>3, <2>1, <2>2, UpdateAndEnd
<1> QED
    BY <1>2, <1>3 DEF consumeGrant

\* deny and expire, whose clock was read before the transaction.
LEMMA DenyExpireStep ==
    ASSUME CeremonyInv, NEW r \in Requests, deny(r) \/ expire(r)
    PROVE  StoreStep /\ CeremonyInv'
<1>1. UNCHANGED <<now, admission>> /\ req[r].t \in Nat /\ (row # None => RecordOK(row))
    BY DEF deny, expire, Environment, CeremonyInv, RequestRecords
<1>2. CASE UNCHANGED row /\ \E answer : Done(r, answer)
    BY <1>1, <1>2, UpdateAndEnd
<1>3. CASE /\ row # None /\ row.state \notin Terminal /\ row.updated <= req[r].t
           /\ row' = [row EXCEPT !.state = "DENIED", !.updated = req[r].t]
           /\ Done(r, "ok")
    <2>1. RecordOK(row') /\ Extends(row, row')
        BY <1>1, <1>3, EndWritten, ClockPast
    <2>2. row'.updated <= now
        BY <1>1, <1>3, ClockPast DEF RecordOK, Records
    <2> QED
        BY <1>1, <1>3, <2>1, <2>2, UpdateAndEnd
<1>4. CASE /\ row # None /\ row.state \notin Terminal \cup {"HOLD_PENDING"}
           /\ row.expires <= req[r].t /\ row.updated <= req[r].t
           /\ row' = [row EXCEPT !.state = "EXPIRED", !.updated = req[r].t]
           /\ Done(r, "ok")
    <2>1. RecordOK(row') /\ Extends(row, row')
        BY <1>1, <1>4, EndWritten, ClockPast
    <2>2. row'.updated <= now
        BY <1>1, <1>4, ClockPast DEF RecordOK, Records
    <2> QED
        BY <1>1, <1>4, <2>1, <2>2, UpdateAndEnd
<1> QED
    BY <1>2, <1>3, <1>4 DEF deny, expire

\* The dispatch admission: one for the consumption, inside the grant's window.
LEMMA ClaimStep ==
    ASSUME CeremonyInv, NEW r \in Requests, claimDispatchAdmission(r)
    PROVE  StoreStep /\ CeremonyInv'
<1> DEFINE subject == req[r].arg[1]
           x == req[r].arg[2]
<1>1. subject \in Subjects /\ x \in Attempts /\ UNCHANGED <<now, row>>
    BY ArgsOf DEF claimDispatchAdmission, CeremonyInv, OfHandler, Environment
<1>2. CASE UNCHANGED admission /\ \E answer : Done(r, answer)
    BY <1>1, <1>2, UpdateAndEnd
<1>3. ASSUME NEW t \in Reading, ConsumptionUnclaimed(x), In("CONSUMED"),
             row.expires > t, row.consumed.at <= t, row.consumed.by = subject,
             admission' = [admission EXCEPT ![x] =
                 [by |-> subject, at |-> t,
                  until |-> Smaller(t + AdmissionTTL, row.grant.until)]],
             Done(r, "ok")
      PROVE  StoreStep /\ CeremonyInv'
    <2> DEFINE until == Smaller(t + AdmissionTTL, row.grant.until)
               a == [by |-> subject, at |-> t, until |-> until]
    <2>1. /\ row # None /\ row.state = "CONSUMED" /\ row \in Records /\ ChainOK(row)
          /\ StageOK(row) /\ t \in Nat
        BY <1>3, ReadingPast DEF In, CeremonyInv, RecordOK
    <2>2. /\ row.chal \in Challenges /\ row.verified \in Verifications
          /\ row.grant \in Challenges /\ row.consumed \in Consumptions
          /\ row.hold \in Nat /\ row.expires = row.grant.until
        BY <2>1 DEF Records, StageOK, ChainOK
    <2>3. /\ row.chal.at \in Nat /\ row.chal.until \in Nat /\ row.verified.at \in Nat
          /\ row.grant.at \in Nat /\ row.grant.until \in Nat /\ row.consumed.at \in Nat
        BY <2>2 DEF Challenges, Verifications, Consumptions
    <2>4. until \in Nat /\ t < until /\ until <= row.grant.until
        BY <1>3, <2>1, <2>2, <2>3, CeremonyConfig DEF Smaller
    <2> HIDE DEF until
    <2>5. a \in Admissions /\ a.by = subject /\ a.at = t /\ a.until = until
        BY <1>1, <2>1, <2>4 DEF Admissions
    <2> HIDE DEF a
    <2>6. /\ admission' \in [Attempts -> Admissions \cup {None}] /\ admission'[x] = a
          /\ \A y \in Attempts : admission'[y] # None => y = x
        BY <1>1, <1>3, <2>5 DEF CeremonyInv, ConsumptionUnclaimed, a, until
    <2>7. /\ row.hold + MinHold <= t /\ until <= row.hold + MaxLifetime
        BY <1>3, <2>1, <2>2, <2>3, <2>4, CeremonyConfig DEF ChainOK, StageOK
    <2>8. AdmissionWithinCeremony'
        BY <1>1, <1>3, <2>4, <2>5, <2>6, <2>7 DEF AdmissionWithinCeremony, Consumed, In
    <2>9. StoreStep
        BY <1>1, <2>6, <2>8 DEF StoreStep, CeremonyInv, Extends
    <2> QED
        BY <1>3, <2>9, Moves, EndKept
<1> QED
    BY <1>2, <1>3 DEF claimDispatchAdmission

-----------------------------------------------------------------------------
(* The theorems *)

\* The invariant holds before the first request.
LEMMA CeremonyInit == Init => CeremonyInv
<1> SUFFICES ASSUME Init PROVE CeremonyInv
    OBVIOUS
<1>1. /\ Idle(FALSE) \in RequestRecords /\ Idle(FALSE).pc = "idle" /\ Idle(FALSE).t = 0
    BY DEF Idle, RequestRecords, PCs, Seen
<1>2. /\ req \in [Requests -> RequestRecords]
      /\ \A r \in Requests : OfHandler(req[r]) /\ Established(req[r])
    <2>1. 0 <= now
        BY DEF Init
    <2> QED
        BY <1>1, <2>1 DEF Init, OfHandler, Established, FoundRow
<1> QED
    BY <1>2 DEF Init, CeremonyInv, AdmissionWithinCeremony

\* Every step keeps the invariant and does to the store what it may.
LEMMA CeremonyStep ==
    ASSUME CeremonyInv, [Next]_vars
    PROVE  StoreStep /\ CeremonyInv'
<1>1. CASE Tick \/ Fence \/ RotateAuthority \/ UNCHANGED vars
    <2>1. StoreStep /\ UNCHANGED <<row, req, admission>>
        BY <1>1, NothingWritten DEF Tick, Fence, RotateAuthority, vars, CeremonyInv
    <2>2. ASSUME NEW r \in Requests
          PROVE  OfHandler(req[r])' /\ Established(req[r])'
        <3>1. req'[r] = req[r] /\ OfHandler(req[r]) /\ Established(req[r])
            BY <2>1 DEF CeremonyInv
        <3>2. req[r].t <= now'
            BY <2>1, ClockPast DEF StoreStep, CeremonyInv
        <3> QED
            BY <2>1, <3>1, <3>2 DEF OfHandler, Established
    <2> QED
        BY <2>1, <2>2 DEF StoreStep, CeremonyInv
<1>2. ASSUME NEW r \in Requests,
             \/ \E kind \in Kinds : Arrive(r, kind)
             \/ requireUnfencedConsumerScope(r)
             \/ createHold(r) \/ resume(r)
             \/ getCeremony(r)
             \/ IssueChallenge(r) \/ issueChallenge(r)
             \/ VerifyQuorum(r) \/ recordQuorum(r)
             \/ IssueGrant(r) \/ issueGrant(r)
             \/ readGrant(r) \/ consumeGrant(r)
             \/ claimDispatchAdmission(r)
             \/ deny(r) \/ expire(r) \/ fail(r)
      PROVE  StoreStep /\ CeremonyInv'
    <2>1. CASE resume(r) \/ fail(r)
        BY <2>1, EndStep DEF resume, fail
    <2> QED
        BY <1>2, <2>1, ArriveStep, FenceCheckStep, CreateHoldStep, GetStep, ProposeStep,
           UpdateStep, ReadGrantStep, ConsumeStep, ClaimStep, DenyExpireStep
<1> QED
    BY <1>1, <1>2 DEF Next

\* The invariant of the ceremony.
THEOREM CeremonyInvariant == Spec => []CeremonyInv
<1>1. CeremonyInv /\ [Next]_vars => CeremonyInv'
    BY CeremonyStep
<1> QED
    BY <1>1, CeremonyInit, PTL DEF Spec

\* Whatever the clocks of the replicas say, every row the guarded UPDATEs write
\* passes Record.Validate.
THEOREM CeremonyRowsValidate == Spec => []RowsValidate
<1>1. CeremonyInv => RowsValidate
    BY RecordsValidate DEF CeremonyInv
<1> QED
    BY <1>1, CeremonyInvariant, PTL

\* One consumption admits one attempt, for its own workload and in its window.
THEOREM CeremonyAdmission == Spec => []AdmissionWithinCeremony
<1>1. CeremonyInv => AdmissionWithinCeremony
    BY DEF CeremonyInv
<1> QED
    BY <1>1, CeremonyInvariant, PTL

\* No stale handler replaces authority that is stored or moves a ceremony that
\* ended.
THEOREM CeremonyAuthorityWrittenOnce == Spec => AuthorityWrittenOnce
<1>1. CeremonyInv /\ [Next]_vars =>
        [row # None =>
         /\ row.state \in Terminal => row' = row
         /\ row'.spec = row.spec /\ row'.hold = row.hold
         /\ row.chal # None => row'.chal = row.chal
         /\ row.verified # None => row'.verified = row.verified
         /\ row.grant # None => row'.grant = row.grant]_vars
    BY CeremonyStep DEF StoreStep, Extends
<1> QED
    BY <1>1, CeremonyInvariant, PTL DEF Spec, AuthorityWrittenOnce
-----------------------------------------------------------------------------
(* FENCE *)

\* Only consumeGrant makes a ceremony consumed and only claimDispatchAdmission
\* admits, and both look at FENCE in their own transaction.
LEMMA FenceHolds ==
    ASSUME CeremonyInv, [Next]_vars, fenced
    PROVE  (Consumed' => Consumed) /\ admission' = admission
<1>1. CASE UNCHANGED row
    <2>1. admission' = admission
        BY <1>1
        DEF Next, vars, Tick, Fence, RotateAuthority, Arrive, requireUnfencedConsumerScope,
            createHold, resume, getCeremony, IssueChallenge, issueChallenge, VerifyQuorum,
            recordQuorum, IssueGrant, issueGrant, readGrant, consumeGrant, deny, expire,
            fail, claimDispatchAdmission, StoreUnchanged
    <2> QED
        BY <1>1, <2>1 DEF Consumed, In
<1>2. CASE ~UNCHANGED row
    <2>1. PICK r \in Requests :
            \/ createHold(r) \/ issueChallenge(r) \/ recordQuorum(r) \/ issueGrant(r)
            \/ deny(r) \/ expire(r)
        BY <1>2
        DEF Next, vars, Tick, Fence, RotateAuthority, Arrive, requireUnfencedConsumerScope,
            resume, getCeremony, IssueChallenge, VerifyQuorum, IssueGrant, readGrant,
            consumeGrant, fail, claimDispatchAdmission, StoreUnchanged
    <2>2. /\ row # None => row \in Records
          /\ row = None => req[r].pc \notin FoundRow
        BY DEF CeremonyInv, Established
    <2>3. row'.state # "CONSUMED" /\ admission' = admission
        <3>1. CASE createHold(r)
            BY <1>2, <3>1 DEF createHold
        <3>2. CASE issueChallenge(r)
            BY <1>2, <2>2, <3>2 DEF issueChallenge, Records, FoundRow
        <3>3. CASE recordQuorum(r)
            BY <1>2, <2>2, <3>3 DEF recordQuorum, Records, FoundRow
        <3>4. CASE issueGrant(r)
            BY <1>2, <2>2, <3>4 DEF issueGrant, Records, FoundRow
        <3>5. CASE deny(r) \/ expire(r)
            BY <1>2, <2>2, <3>5 DEF deny, expire, Records
        <3> QED
            BY <2>1, <3>1, <3>2, <3>3, <3>4, <3>5
    <2> QED
        BY <2>3 DEF Consumed, In
<1> QED
    BY <1>1, <1>2

\* Under FENCE no grant is consumed and no dispatch is admitted, whichever
\* handlers passed their early check before it.
THEOREM CeremonyFence == Spec => FenceFreezesAuthority
<1>1. CeremonyInv /\ [Next]_vars =>
        [fenced => (Consumed' => Consumed) /\ admission' = admission]_vars
    BY FenceHolds
<1> QED
    BY <1>1, CeremonyInvariant, PTL DEF Spec, FenceFreezesAuthority

-----------------------------------------------------------------------------
(* The turns of the handlers *)

Late == row # None /\ OutOfTime

\* What the turns a request has used up say of the ceremony, when clocks agree:
\* a turn is repeated only after the ceremony moved on or ran out of time, so the
\* third turn of a challenge and the fifth of a submission are never needed.
TurnOK(n) ==
    /\ n.pc # "idle" => ~n.exhausted
    /\ n.pc \in {"get", "IssueChallenge", "issueChallenge"} /\ n.kind = "challenge"
       /\ n.round >= 2 =>
         row # None /\ (Late \/ (n.pc = "get" /\ row.state # "HOLD_PENDING"))
    /\ n.pc \in {"VerifyQuorum", "recordQuorum"} => row.state # "HOLD_PENDING"
    /\ n.pc \in {"IssueGrant", "issueGrant"} =>
         row.state \notin {"HOLD_PENDING", "CHALLENGE_ISSUED"}
    /\ n.pc \in {"get", "VerifyQuorum", "recordQuorum", "IssueGrant", "issueGrant"}
       /\ n.kind = "assert" =>
         /\ n.round >= 2 => row # None
              /\ (Late \/ (/\ n.pc \in {"get", "IssueGrant", "issueGrant"}
                           /\ row.state \notin {"HOLD_PENDING", "CHALLENGE_ISSUED"}))
         /\ n.round >= 3 =>
              Late \/ (/\ n.pc = "get"
                       /\ row.state \notin {"HOLD_PENDING", "CHALLENGE_ISSUED",
                                            "QUORUM_VERIFIED"})
    /\ n.pc = "recordQuorum" =>
         row.chal # None /\ n.seen = row.chal /\ row.chal.at <= n.t /\ n.t < row.chal.until
    /\ n.pc = "issueGrant" =>
         /\ row.verified # None /\ n.seen = row.verified.keys
         /\ row.verified.at <= n.t /\ n.t < row.chal.until

TurnInv == lag = 0 => \A r \in Requests : TurnOK(req[r])

\* What a step of Next may do to the turns: an exhausted request is out of time.
ExhaustedLate ==
    \A r \in Requests : lag = 0 /\ req[r].pc # "idle" /\ req'[r].exhausted => OutOfTime

\* A ceremony that is out of time stays so: a challenge issued late ends with the
\* window of its hold.
LEMMA LateStays ==
    ASSUME CeremonyInv, StoreStep, Late
    PROVE  Late'
<1>1. /\ row \in Records /\ row' \in Records /\ row # None /\ row' # None
      /\ row'.hold = row.hold /\ (row.chal # None => row'.chal = row.chal)
      /\ ChainOK(row') /\ now \in Nat /\ now' \in Nat /\ now <= now'
    BY DEF Late, CeremonyInv, StoreStep, Extends, RecordOK
<1>2. /\ row.hold \in Nat
      /\ row'.chal # None => row'.chal.until \in Nat
    BY <1>1 DEF Records, Challenges
<1>3. CASE row'.chal = None
    BY <1>1, <1>2, <1>3, CeremonyConfig DEF Late, OutOfTime
<1>4. CASE row'.chal # None /\ row.chal = None
    BY <1>1, <1>2, <1>4, CeremonyConfig DEF Late, OutOfTime, ChainOK
<1>5. CASE row'.chal # None /\ row.chal # None
    BY <1>1, <1>2, <1>5, CeremonyConfig DEF Late, OutOfTime
<1> QED
    BY <1>3, <1>4, <1>5

\* What the turns of a request say stays true.
LEMMA TurnStays ==
    ASSUME CeremonyInv, StoreStep, NEW n \in RequestRecords, TurnOK(n), OfHandler(n),
           n.pc \in FoundRow => row # None
    PROVE  TurnOK(n)'
<1>1. /\ Late => Late'
      /\ row # None => row' # None /\ Extends(row, row')
    BY LateStays DEF StoreStep
<1>2. n.pc \in {"VerifyQuorum", "recordQuorum"} => row'.state # "HOLD_PENDING"
    BY <1>1 DEF TurnOK, FoundRow, Extends
<1>3. n.pc \in {"IssueGrant", "issueGrant"} =>
        row'.state \notin {"HOLD_PENDING", "CHALLENGE_ISSUED"}
    BY <1>1 DEF TurnOK, FoundRow, Extends
<1>4. /\ n.pc = "recordQuorum" =>
           /\ row'.chal # None /\ n.seen = row'.chal
           /\ row'.chal.at <= n.t /\ n.t < row'.chal.until
      /\ n.pc = "issueGrant" =>
           /\ row'.verified # None /\ n.seen = row'.verified.keys
           /\ row'.verified.at <= n.t /\ n.t < row'.chal.until
    <2>1. row # None /\ row.verified # None => row.chal # None
        BY DEF CeremonyInv, RecordOK, ChainOK
    <2> QED
        BY <1>1, <2>1 DEF TurnOK, FoundRow, Extends
<1>5. n.pc \in {"get", "IssueChallenge", "issueChallenge"} /\ n.kind = "challenge"
       /\ n.round >= 2 =>
         row' # None /\ (Late' \/ (n.pc = "get" /\ row'.state # "HOLD_PENDING"))
    BY <1>1 DEF TurnOK, Extends
<1>6. n.pc \in {"get", "VerifyQuorum", "recordQuorum", "IssueGrant", "issueGrant"}
       /\ n.kind = "assert" =>
         /\ n.round >= 2 => row' # None
              /\ (Late' \/ (/\ n.pc \in {"get", "IssueGrant", "issueGrant"}
                            /\ row'.state \notin {"HOLD_PENDING", "CHALLENGE_ISSUED"}))
    BY <1>1 DEF TurnOK, Extends
<1>7. n.pc \in {"get", "VerifyQuorum", "recordQuorum", "IssueGrant", "issueGrant"}
       /\ n.kind = "assert" /\ n.round >= 3 =>
              Late' \/ (/\ n.pc = "get"
                        /\ row'.state \notin {"HOLD_PENDING", "CHALLENGE_ISSUED",
                                              "QUORUM_VERIFIED"})
    <2>1. n.round >= 3 => n.round >= 2
        BY DEF RequestRecords
    <2> QED
        BY <1>1, <1>6, <2>1 DEF TurnOK, Extends
<1> QED
    BY <1>2, <1>3, <1>4, <1>5, <1>6, <1>7 DEF TurnOK

\* The requests that take no step keep their turns.
LEMMA TurnsKept ==
    ASSUME CeremonyInv, StoreStep, TurnInv, UNCHANGED lag, NEW r \in Requests,
           NEW n \in RequestRecords, req' = [req EXCEPT ![r] = n],
           lag = 0 => TurnOK(n)',
           lag = 0 /\ req[r].pc # "idle" /\ n.exhausted => OutOfTime
    PROVE  TurnInv' /\ ExhaustedLate
<1>1. /\ req'[r] = n
      /\ \A q \in Requests \ {r} : req'[q] = req[q]
    BY DEF CeremonyInv
<1>2. ASSUME lag = 0, NEW q \in Requests
      PROVE  TurnOK(req[q])' /\ (req[q].pc # "idle" /\ req'[q].exhausted => OutOfTime)
    <2>1. CASE q = r
        BY <1>1, <1>2, <2>1 DEF TurnOK
    <2>2. CASE q # r
        <3>1. /\ TurnOK(req[q]) /\ OfHandler(req[q])
              /\ req[q].pc \in FoundRow => row # None
            BY <1>2 DEF TurnInv, CeremonyInv, Established
        <3>2. PICK m \in RequestRecords : m = req[q]
            BY DEF CeremonyInv
        <3>3. TurnOK(m)'
            BY <3>1, <3>2, TurnStays
        <3>4. TurnOK(req[q])'
            BY <1>1, <2>2, <3>2, <3>3 DEF TurnOK
        <3> QED
            BY <1>1, <2>2, <3>1, <3>4 DEF TurnOK
    <2> QED
        BY <2>1, <2>2
<1> QED
    BY <1>2 DEF TurnInv, ExhaustedLate

\* A request that ends with an answer.
LEMMA TurnEnds ==
    ASSUME CeremonyInv, StoreStep, TurnInv, UNCHANGED lag, NEW r \in Requests,
           NEW answer, Done(r, answer),
           answer = "exhausted" /\ lag = 0 => OutOfTime
    PROVE  TurnInv' /\ ExhaustedLate
<1>1. PICK e \in BOOLEAN : /\ req' = [req EXCEPT ![r] = Idle(e)]
                           /\ e => answer = "exhausted"
    BY DEF Done
<1>2. Idle(e) \in RequestRecords /\ Idle(e).pc = "idle" /\ (Idle(e).exhausted => e)
    BY DEF Idle, RequestRecords, PCs, Seen
<1>3. PICK n \in RequestRecords : n = Idle(e)
    BY <1>2
<1>4. TurnOK(n)'
    BY <1>2, <1>3 DEF TurnOK
<1> QED
    BY <1>1, <1>2, <1>3, <1>4, TurnsKept

\* A request that moves on: what its new place asks for.
LEMMA TurnMoves ==
    ASSUME CeremonyInv, StoreStep, TurnInv, UNCHANGED lag, NEW r \in Requests,
           req[r].pc # "idle", NEW pc \in PCs \ {"idle"}, NEW round, NEW t, NEW seen,
           MovesTo(r, pc, round, t, seen),
           \A n \in RequestRecords :
             /\ lag = 0 /\ ~n.exhausted /\ n.kind = req[r].kind
             /\ n.pc = pc /\ n.round = round /\ n.t = t /\ n.seen = seen
             => TurnOK(n)'
    PROVE  TurnInv' /\ ExhaustedLate
<1>1. PICK n \in RequestRecords :
        /\ req' = [req EXCEPT ![r] = n]
        /\ n.kind = req[r].kind /\ n.arg = req[r].arg /\ n.exhausted = req[r].exhausted
        /\ n.pc = pc /\ n.round = round /\ n.t = t /\ n.seen = seen
    BY DEF MovesTo
<1>2. lag = 0 => ~n.exhausted
    BY <1>1 DEF TurnInv, TurnOK
<1>3. lag = 0 => TurnOK(n)'
    BY <1>1, <1>2
<1> QED
    BY <1>1, <1>2, <1>3, TurnsKept

\* A request whose turn failed: the ceremony is out of time or has moved on.
LEMMA NextTurn ==
    ASSUME CeremonyInv, StoreStep, TurnInv, UNCHANGED lag, NEW r \in Requests,
           req[r].pc \in {"IssueChallenge", "issueChallenge", "VerifyQuorum",
                          "recordQuorum", "IssueGrant", "issueGrant"},
           NextRound(r),
           lag = 0 => Late \/
             /\ row'.state # "HOLD_PENDING"
             /\ req[r].kind = "assert" => row'.state # "CHALLENGE_ISSUED"
             /\ req[r].kind = "assert" /\ req[r].round >= 2 =>
                  row'.state # "QUORUM_VERIFIED"
    PROVE  TurnInv' /\ ExhaustedLate
<1>1. /\ row # None /\ row' # None /\ req[r].kind \in {"challenge", "assert"}
      /\ req[r].round \in Nat
    BY DEF CeremonyInv, Established, OfHandler, FoundRow, StoreStep, RequestRecords
<1>2. CASE req[r].round < Rounds(req[r].kind)
    <2>1. MovesTo(r, "get", req[r].round + 1, 0, None)
        <3>1. MovesTo(r, "get", req[r].round + 1, 0, None) \/ Ends(r, TRUE)
            BY Moves
        <3>2. req[r] \in RequestRecords /\ req \in [Requests -> RequestRecords]
            BY DEF CeremonyInv
        <3> DEFINE next == req[r].round + 1
                   n == [req[r] EXCEPT !.pc = "get", !.round = next, !.t = 0, !.seen = None]
        <3>3. next \in Nat /\ req' = [req EXCEPT ![r] = n]
            BY <1>2, <3>2 DEF NextRound, At, RequestRecords
        <3> HIDE DEF next
        <3>4. req'[r].pc = "get"
            BY <3>2, <3>3 DEF RequestRecords
        <3>5. Ends(r, TRUE) => req'[r].pc = "idle"
            BY <3>2 DEF Ends, Idle
        <3> QED
            BY <3>1, <3>4, <3>5
    <2>2. ASSUME NEW n \in RequestRecords,
                 lag = 0, ~n.exhausted, n.kind = req[r].kind, n.pc = "get",
                 n.round = req[r].round + 1
          PROVE  TurnOK(n)'
        <3>1. CASE Late
            BY <1>1, <2>2, <3>1, LateStays DEF TurnOK
        <3>2. CASE ~Late
            <4>1. /\ row'.state # "HOLD_PENDING"
                  /\ req[r].kind = "assert" => row'.state # "CHALLENGE_ISSUED"
                  /\ req[r].kind = "assert" /\ n.round >= 3 => row'.state # "QUORUM_VERIFIED"
                BY <1>1, <2>2, <3>2
            <4> QED
                BY <1>1, <2>2, <4>1 DEF TurnOK
        <3> QED
            BY <3>1, <3>2
    <2> QED
        BY <2>1, <2>2, TurnMoves DEF PCs
<1>3. CASE ~(req[r].round < Rounds(req[r].kind))
    <2>1. Done(r, "exhausted")
        BY <1>3 DEF NextRound
    <2>2. req[r].round >= 2 /\ (req[r].kind = "assert" => req[r].round >= 3)
        BY <1>1, <1>3 DEF Rounds, ChallengeRounds, SubmitRounds
    <2>3. /\ req[r].pc \in {"IssueChallenge", "issueChallenge"} => req[r].kind = "challenge"
          /\ req[r].pc \notin {"IssueChallenge", "issueChallenge"} => req[r].kind = "assert"
        BY DEF CeremonyInv, OfHandler
    <2>4. lag = 0 => OutOfTime
        BY <2>2, <2>3 DEF TurnInv, TurnOK, Late
    <2> QED
        BY <2>1, <2>4, TurnEnds
<1> QED
    BY <1>2, <1>3

\* Steps that are no turn of a loop.
LEMMA OutsideTurns ==
    ASSUME CeremonyInv, StoreStep, TurnInv, UNCHANGED lag, NEW r \in Requests,
           \/ \E kind \in Kinds : Arrive(r, kind)
           \/ requireUnfencedConsumerScope(r)
           \/ createHold(r) \/ resume(r) \/ readGrant(r) \/ consumeGrant(r)
           \/ claimDispatchAdmission(r) \/ deny(r) \/ expire(r) \/ fail(r)
    PROVE  TurnInv' /\ ExhaustedLate
<1>1. CASE \E answer : answer # "exhausted" /\ Done(r, answer)
    BY <1>1, TurnEnds
<1>2. ASSUME req[r].pc # "idle", NEW pc \in {"insert", "resume", "read", "consume"},
             NEW round, NEW t, NEW seen, MovesTo(r, pc, round, t, seen)
      PROVE  TurnInv' /\ ExhaustedLate
    <2>1. ASSUME NEW n \in RequestRecords, ~n.exhausted, n.pc = pc
          PROVE  TurnOK(n)'
        BY <2>1 DEF TurnOK
    <2> QED
        BY <1>2, <2>1, TurnMoves DEF PCs
<1>3. CASE \E kind \in Kinds : Arrive(r, kind)
    <2>1. PICK kind \in Kinds : Arrive(r, kind)
        BY <1>3
    <2>2. PICK arg \in Args(kind), t \in Reading :
            req' = [req EXCEPT ![r] =
              [Idle(FALSE) EXCEPT !.kind = kind, !.arg = arg,
                 !.pc = IF kind \in {"deny", "expire", "claim"} THEN kind ELSE "fence",
                 !.t = IF kind \in {"deny", "expire"} THEN t ELSE 0]]
        BY <2>1 DEF Arrive
    <2> DEFINE pc == IF kind \in {"deny", "expire", "claim"} THEN kind ELSE "fence"
               at == IF kind \in {"deny", "expire"} THEN t ELSE 0
    <2>3. PICK n : n = [Idle(FALSE) EXCEPT !.kind = kind, !.arg = arg, !.pc = pc, !.t = at]
        OBVIOUS
    <2>4. at \in Nat /\ pc \in {"fence", "deny", "expire", "claim"}
        BY ReadingPast
    <2> HIDE DEF pc, at
    <2>5. arg \in Specs \cup AssertionSets \cup Subjects \cup (Subjects \X Attempts) \cup {None}
        BY ArgsOf DEF Kinds
    <2>6. n \in RequestRecords /\ n.pc = pc /\ ~n.exhausted
        BY <2>3, <2>4, <2>5 DEF Idle, RequestRecords, PCs, Seen
    <2>7. TurnOK(n)'
        BY <2>4, <2>6 DEF TurnOK
    <2> QED
        BY <2>2, <2>3, <2>6, <2>7, TurnsKept DEF pc, at
<1>4. CASE requireUnfencedConsumerScope(r)
    <2>1. req[r].pc = "fence"
        BY <1>4 DEF requireUnfencedConsumerScope
    <2>2. CASE req' = [At(r, "get") EXCEPT ![r].round = 1]
        <3>1. MovesTo(r, "get", 1, req[r].t, req[r].seen)
            BY <2>2, Moves
        <3>2. ASSUME NEW n \in RequestRecords, ~n.exhausted, n.pc = "get", n.round = 1
              PROVE  TurnOK(n)'
            BY <3>2 DEF TurnOK
        <3> QED
            BY <2>1, <3>1, <3>2, TurnMoves DEF PCs
    <2>3. CASE \E t \in Reading : GoAt(r, "insert", t) \/ GoAt(r, "read", t)
        <3>1. PICK t \in Reading, pc \in {"insert", "read"} :
                MovesTo(r, pc, req[r].round, t, req[r].seen)
            BY <2>3, Moves, ReadingPast DEF PCs
        <3> QED
            BY <1>2, <2>1, <3>1
    <2> QED
        BY <1>1, <1>4, <2>2, <2>3 DEF requireUnfencedConsumerScope
<1>5. CASE createHold(r)
    <2>1. CASE Go(r, "resume") /\ req[r].pc = "insert"
        <3>1. MovesTo(r, "resume", req[r].round, req[r].t, req[r].seen)
            BY <2>1, Moves DEF PCs
        <3> QED
            BY <1>2, <2>1, <3>1
    <2> QED
        BY <1>1, <1>5, <2>1 DEF createHold
<1>6. CASE readGrant(r)
    <2>1. CASE Go(r, "consume") /\ req[r].pc = "read"
        <3>1. MovesTo(r, "consume", req[r].round, req[r].t, req[r].seen)
            BY <2>1, Moves DEF PCs
        <3> QED
            BY <1>2, <2>1, <3>1
    <2> QED
        BY <1>1, <1>6, <2>1 DEF readGrant
<1>7. CASE resume(r) \/ consumeGrant(r) \/ claimDispatchAdmission(r) \/ deny(r)
           \/ expire(r) \/ fail(r)
    BY <1>1, <1>7 DEF resume, consumeGrant, claimDispatchAdmission, deny, expire, fail
<1> QED
    BY <1>3, <1>4, <1>5, <1>6, <1>7

\* Get: a repeated turn finds the ceremony moved on, and answers, or late.
LEMMA GetTurn ==
    ASSUME CeremonyInv, StoreStep, TurnInv, UNCHANGED lag, NEW r \in Requests,
           getCeremony(r)
    PROVE  TurnInv' /\ ExhaustedLate
<1>1. /\ req[r].pc = "get" /\ req[r].kind \in {"challenge", "assert"} /\ row' = row
      /\ req[r] \in RequestRecords /\ req[r].round \in Nat
      /\ lag = 0 => TurnOK(req[r])
    BY DEF getCeremony, CeremonyInv, OfHandler, StoreUnchanged, RequestRecords, TurnInv
<1>2. CASE \E answer : answer # "exhausted" /\ Done(r, answer)
    BY <1>2, TurnEnds
<1>3. ASSUME row # None,
             NEW pc \in {"IssueChallenge", "VerifyQuorum", "IssueGrant"}, Go(r, pc),
             pc = "IssueChallenge" => row.state = "HOLD_PENDING" /\ req[r].kind = "challenge",
             pc = "VerifyQuorum" => row.state = "CHALLENGE_ISSUED" /\ req[r].kind = "assert",
             pc = "IssueGrant" => row.state = "QUORUM_VERIFIED" /\ req[r].kind = "assert"
      PROVE  TurnInv' /\ ExhaustedLate
    <2>1. MovesTo(r, pc, req[r].round, req[r].t, req[r].seen)
        BY <1>3, Moves DEF PCs
    <2>2. ASSUME NEW n \in RequestRecords,
                 lag = 0, ~n.exhausted, n.kind = req[r].kind, n.pc = pc,
                 n.round = req[r].round
          PROVE  TurnOK(n)'
        <3>1. /\ pc \in {"IssueChallenge", "VerifyQuorum"} /\ n.round >= 2 => Late'
              /\ n.round >= 3 => Late'
            <4>1. n.round >= 3 => n.round >= 2
                BY DEF RequestRecords
            <4> QED
                BY <1>1, <1>3, <2>2, <4>1, LateStays DEF TurnOK
        <3>2. row' # None /\ row'.state = row.state
            BY <1>1, <1>3
        <3> QED
            BY <1>3, <2>2, <3>1, <3>2 DEF TurnOK
    <2> QED
        BY <1>1, <2>1, <2>2, TurnMoves DEF PCs
<1>4. CASE row # None /\ req[r].kind = "challenge"
    <2>1. \/ row.state = "HOLD_PENDING" /\ Go(r, "IssueChallenge")
          \/ \E answer : answer # "exhausted" /\ Done(r, answer)
        BY <1>4 DEF getCeremony
    <2> QED
        BY <1>2, <1>3, <1>4, <2>1
<1>5. CASE row # None /\ req[r].kind = "assert"
    <2>1. \/ row.state = "CHALLENGE_ISSUED" /\ Go(r, "VerifyQuorum")
          \/ row.state = "QUORUM_VERIFIED" /\ Go(r, "IssueGrant")
          \/ \E answer : answer # "exhausted" /\ Done(r, answer)
        BY <1>5 DEF getCeremony
    <2> QED
        BY <1>2, <1>3, <1>5, <2>1
<1> QED
    BY <1>1, <1>2, <1>4, <1>5 DEF getCeremony

\* The turn of a challenge.
LEMMA ChallengeTurn ==
    ASSUME CeremonyInv, StoreStep, TurnInv, UNCHANGED lag, NEW r \in Requests,
           IssueChallenge(r) \/ issueChallenge(r)
    PROVE  TurnInv' /\ ExhaustedLate
<1>1. /\ req[r].pc \in {"IssueChallenge", "issueChallenge"} /\ req[r].kind = "challenge"
      /\ row # None /\ row \in Records /\ RecordOK(row)
      /\ lag = 0 => TurnOK(req[r])
    BY DEF IssueChallenge, issueChallenge, CeremonyInv, OfHandler, Established, FoundRow,
           TurnInv
<1>2. CASE \E answer : answer # "exhausted" /\ Done(r, answer)
    BY <1>2, TurnEnds
<1>3. CASE NextRound(r) /\ UNCHANGED row /\ row.state # "HOLD_PENDING"
    BY <1>1, <1>3, NextTurn
<1>4. CASE IssueChallenge(r)
    <2>1. CASE \E t \in Reading : row.hold + MaxLifetime <= t /\ NextRound(r)
               /\ row.state = "HOLD_PENDING"
        <3>1. lag = 0 => Late
            BY <1>1, <2>1 DEF Late, OutOfTime, Reading, CeremonyInv, RecordOK, StageOK
        <3> QED
            BY <1>1, <2>1, <3>1, NextTurn
    <2>2. CASE \E t \in Reading : Propose(r, "issueChallenge", t, None)
        <3>1. PICK t \in Reading : MovesTo(r, "issueChallenge", req[r].round, t, None)
            BY <2>2, Moves, ReadingPast DEF PCs, Seen
        <3>2. ASSUME NEW n \in RequestRecords,
                     lag = 0, ~n.exhausted, n.kind = req[r].kind, n.pc = "issueChallenge",
                     n.round = req[r].round
              PROVE  TurnOK(n)'
            <4>1. n.round >= 2 => Late' /\ row' # None
                BY <1>1, <1>4, <3>2, LateStays DEF TurnOK, StoreStep, IssueChallenge
            <4> QED
                BY <1>1, <3>2, <4>1 DEF TurnOK
        <3> QED
            BY <1>1, <3>1, <3>2, TurnMoves DEF PCs
    <2> QED
        BY <1>2, <1>3, <1>4, <2>1, <2>2 DEF IssueChallenge, StoreUnchanged
<1>5. CASE issueChallenge(r)
    <2>1. row.state = "HOLD_PENDING" => row.updated <= req[r].t
        <3>1. row.hold + MinHold <= req[r].t /\ req[r].t \in Nat /\ row.hold \in Nat
            BY <1>5, <1>1, ClockPast DEF CeremonyInv, Established, issueChallenge, Records
        <3> QED
            BY <1>1, <3>1, CeremonyConfig DEF RecordOK, StageOK
    <2> QED
        BY <1>2, <1>3, <1>5, <2>1 DEF issueChallenge
<1> QED
    BY <1>4, <1>5

\* The turn that verifies a quorum.
LEMMA QuorumTurn ==
    ASSUME CeremonyInv, StoreStep, TurnInv, UNCHANGED lag, NEW r \in Requests,
           VerifyQuorum(r) \/ recordQuorum(r)
    PROVE  TurnInv' /\ ExhaustedLate
<1>1. /\ req[r].pc \in {"VerifyQuorum", "recordQuorum"} /\ req[r].kind = "assert"
      /\ row # None /\ row \in Records /\ RecordOK(row)
      /\ lag = 0 => TurnOK(req[r])
    BY DEF VerifyQuorum, recordQuorum, CeremonyInv, OfHandler, Established, FoundRow,
           TurnInv
<1>2. lag = 0 => row.state # "HOLD_PENDING" /\ (req[r].round >= 2 => Late)
    BY <1>1 DEF TurnOK
<1>3. CASE \E answer : answer # "exhausted" /\ Done(r, answer)
    BY <1>3, TurnEnds
<1>4. CASE NextRound(r) /\ UNCHANGED row /\ (lag = 0 => row.state # "CHALLENGE_ISSUED")
    BY <1>1, <1>2, <1>4, NextTurn
<1>5. CASE VerifyQuorum(r)
    <2>1. CASE \E t \in Reading : /\ row.state = "CHALLENGE_ISSUED"
                                  /\ row.chal.at <= t /\ t < row.chal.until
                                  /\ Propose(r, "recordQuorum", t, row.chal)
        <3>1. PICK t \in Reading : /\ row.state = "CHALLENGE_ISSUED"
                                   /\ row.chal.at <= t /\ t < row.chal.until
                                   /\ Propose(r, "recordQuorum", t, row.chal)
            BY <2>1
        <3>2. row.chal # None /\ row.chal \in Seen /\ row' = row
            BY <1>1, <1>5, <3>1
            DEF RecordOK, StageOK, Records, Seen, VerifyQuorum, StoreUnchanged
        <3>3. MovesTo(r, "recordQuorum", req[r].round, t, row.chal)
            BY <3>1, <3>2, Moves, ReadingPast DEF PCs
        <3>4. ASSUME NEW n \in RequestRecords,
                     lag = 0, ~n.exhausted, n.kind = req[r].kind, n.pc = "recordQuorum",
                     n.round = req[r].round, n.t = t, n.seen = row.chal
              PROVE  TurnOK(n)'
            <4>1. /\ n.round >= 2 => Late' /\ row' # None
                  /\ n.round >= 3 => n.round >= 2
                BY <1>1, <1>2, <3>2, <3>4, LateStays DEF RequestRecords
            <4>2. row'.state # "HOLD_PENDING"
                BY <3>1, <3>2
            <4> QED
                BY <1>1, <3>1, <3>2, <3>4, <4>1, <4>2 DEF TurnOK
        <3> QED
            BY <1>1, <3>3, <3>4, TurnMoves DEF PCs
    <2> QED
        BY <1>3, <1>4, <1>5, <2>1 DEF VerifyQuorum, StoreUnchanged
<1>6. CASE recordQuorum(r)
    <2>1. lag = 0 /\ row.state = "CHALLENGE_ISSUED" =>
            /\ row.chal = req[r].seen /\ row.expires > req[r].t /\ row.updated <= req[r].t
        <3>1. req[r].pc = "recordQuorum"
            BY <1>6 DEF recordQuorum
        <3>2. ASSUME lag = 0, row.state = "CHALLENGE_ISSUED"
              PROVE  row.chal # None /\ row.grant = None /\ row.updated = row.chal.at
            BY <1>1, <3>2 DEF RecordOK, StageOK
        <3>3. row.chal # None => row.chal.until \in Nat /\ req[r].t \in Nat
            BY <1>1, ClockPast DEF Records, Challenges
        <3> QED
            BY <1>1, <3>1, <3>2, <3>3 DEF RecordOK, ChainOK, TurnOK
    <2>2. CASE row' = [row EXCEPT !.state = "QUORUM_VERIFIED",
                         !.verified = [keys |-> req[r].arg, at |-> req[r].t],
                         !.updated = req[r].t] /\ NextRound(r)
        <3>1. row'.state = "QUORUM_VERIFIED"
            BY <1>1, <2>2 DEF Records
        <3> QED
            BY <1>1, <1>2, <2>2, <3>1, NextTurn
    <2> QED
        BY <1>3, <1>4, <1>6, <2>1, <2>2 DEF recordQuorum
<1> QED
    BY <1>5, <1>6

\* The turn that issues the grant.
LEMMA GrantTurn ==
    ASSUME CeremonyInv, StoreStep, TurnInv, UNCHANGED lag, NEW r \in Requests,
           IssueGrant(r) \/ issueGrant(r)
    PROVE  TurnInv' /\ ExhaustedLate
<1>1. /\ req[r].pc \in {"IssueGrant", "issueGrant"} /\ req[r].kind = "assert"
      /\ row # None /\ row \in Records /\ RecordOK(row)
      /\ lag = 0 => TurnOK(req[r])
    BY DEF IssueGrant, issueGrant, CeremonyInv, OfHandler, Established, FoundRow, TurnInv
<1>2. lag = 0 => /\ row.state \notin {"HOLD_PENDING", "CHALLENGE_ISSUED"}
                 /\ req[r].round >= 3 => Late
    BY <1>1 DEF TurnOK
<1>3. CASE \E answer : answer # "exhausted" /\ Done(r, answer)
    BY <1>3, TurnEnds
<1>4. CASE NextRound(r) /\ UNCHANGED row /\ (lag = 0 => row.state # "QUORUM_VERIFIED")
    BY <1>1, <1>2, <1>4, NextTurn
<1>5. row.state = "QUORUM_VERIFIED" =>
        /\ row.chal # None /\ row.verified # None /\ row.grant = None
        /\ row.chal.until \in Nat /\ row.verified.at \in Nat
        /\ row.updated = row.verified.at /\ row.updated <= now /\ now \in Nat
        /\ row.expires = row.chal.until /\ row.verified.keys \in Seen
    BY <1>1
    DEF CeremonyInv, RecordOK, ChainOK, StageOK, Records, Challenges, Verifications, Seen
<1>6. CASE IssueGrant(r)
    <2>1. CASE /\ row.state = "QUORUM_VERIFIED" /\ NextRound(r)
               /\ \E t \in Reading : ~(row.verified.at <= t /\ t < GrantUntil(t))
        <3>1. lag = 0 => Late
            <4> SUFFICES ASSUME lag = 0 PROVE Late
                OBVIOUS
            <4>1. ~(row.verified.at <= now /\ now < GrantUntil(now))
                BY <1>5, <2>1 DEF Reading
            <4>2. row.chal.until <= now
                BY <1>5, <2>1, <4>1, CeremonyConfig DEF GrantUntil, Smaller
            <4> QED
                BY <1>1, <1>5, <2>1, <4>2 DEF Late, OutOfTime
        <3> QED
            BY <1>1, <2>1, <3>1, NextTurn
    <2>2. CASE \E t \in Reading : /\ row.state = "QUORUM_VERIFIED"
                                  /\ row.verified.at <= t /\ t < GrantUntil(t)
                                  /\ Propose(r, "issueGrant", t, row.verified.keys)
        <3>1. PICK t \in Reading : /\ row.state = "QUORUM_VERIFIED"
                                   /\ row.verified.at <= t /\ t < GrantUntil(t)
                                   /\ Propose(r, "issueGrant", t, row.verified.keys)
            BY <2>2
        <3>2. t < row.chal.until /\ row' = row /\ req[r].pc = "IssueGrant"
            BY <1>5, <1>6, <3>1, ReadingPast, CeremonyConfig
            DEF GrantUntil, Smaller, IssueGrant, StoreUnchanged
        <3>3. MovesTo(r, "issueGrant", req[r].round, t, row.verified.keys)
            BY <1>5, <3>1, Moves, ReadingPast DEF PCs
        <3>4. ASSUME NEW n \in RequestRecords,
                     lag = 0, ~n.exhausted, n.kind = req[r].kind, n.pc = "issueGrant",
                     n.round = req[r].round, n.t = t, n.seen = row.verified.keys
              PROVE  TurnOK(n)'
            <4>1. n.round >= 3 => Late'
                BY <1>2, <3>4, LateStays
            <4>2. row'.state \notin {"HOLD_PENDING", "CHALLENGE_ISSUED"} /\ row' # None
                BY <1>1, <3>1, <3>2
            <4> QED
                BY <1>5, <3>1, <3>2, <3>4, <4>1, <4>2 DEF TurnOK
        <3> QED
            BY <1>1, <3>3, <3>4, TurnMoves DEF PCs
    <2> QED
        BY <1>4, <1>6, <2>1, <2>2 DEF IssueGrant, StoreUnchanged
<1>7. CASE issueGrant(r)
    <2>1. lag = 0 /\ row.state = "QUORUM_VERIFIED" =>
            /\ row.verified.keys = req[r].seen
            /\ row.expires > req[r].t /\ row.updated <= req[r].t
        <3>1. req[r].pc = "issueGrant"
            BY <1>7 DEF issueGrant
        <3> QED
            BY <1>1, <1>5, <3>1, ClockPast DEF TurnOK
    <2>2. CASE \E g, e : /\ row' = [row EXCEPT !.state = "GRANT_ISSUED", !.grant = g,
                                     !.expires = e, !.updated = req[r].t]
                         /\ NextRound(r)
        <3>1. row'.state = "GRANT_ISSUED"
            BY <1>1, <2>2 DEF Records
        <3> QED
            BY <1>1, <1>2, <2>2, <3>1, NextTurn
    <2> QED
        BY <1>3, <1>4, <1>7, <2>1, <2>2 DEF issueGrant
<1> QED
    BY <1>6, <1>7

\* Every step keeps what the turns say.
LEMMA TurnStep ==
    ASSUME CeremonyInv, TurnInv, [Next]_vars
    PROVE  TurnInv' /\ ExhaustedLate
<1>1. StoreStep
    BY CeremonyStep
<1>2. UNCHANGED lag
    BY DEF Next, vars
<1>3. CASE Tick \/ Fence \/ RotateAuthority \/ UNCHANGED vars
    <2>1. UNCHANGED req
        BY <1>3 DEF Tick, Fence, RotateAuthority, vars
    <2>2. ASSUME lag = 0, NEW q \in Requests
          PROVE  TurnOK(req[q])' /\ (req[q].pc # "idle" => ~req'[q].exhausted)
        <3>1. /\ TurnOK(req[q]) /\ OfHandler(req[q])
              /\ req[q].pc \in FoundRow => row # None
            BY <2>2 DEF TurnInv, CeremonyInv, Established
        <3>2. PICK m \in RequestRecords : m = req[q]
            BY DEF CeremonyInv
        <3>3. TurnOK(m)'
            BY <1>1, <3>1, <3>2, TurnStays
        <3> QED
            BY <2>1, <3>1, <3>2, <3>3 DEF TurnOK
    <2> QED
        BY <1>2, <2>2 DEF TurnInv, ExhaustedLate
<1> QED
    BY <1>1, <1>2, <1>3, OutsideTurns, GetTurn, ChallengeTurn, QuorumTurn, GrantTurn DEF Next

\* When the replicas' clocks agree, the turns of issueApprovalChallenge and
\* submitApprovalAssertions are enough: who runs out of them is out of time.
THEOREM CeremonyRetriesSuffice == Spec => RetriesSuffice
<1>1. Init => TurnInv
    BY DEF Init, Idle, TurnInv, TurnOK
<1>2. CeremonyInv /\ TurnInv /\ [Next]_vars => TurnInv'
    BY TurnStep
<1>3. CeremonyInv /\ TurnInv /\ [Next]_vars =>
        [\A r \in Requests :
           lag = 0 /\ req[r].pc # "idle" /\ req'[r].exhausted
           => row.state \in {"EXPIRED", "DENIED"} \/ OutOfTime]_vars
    BY TurnStep DEF ExhaustedLate
<1>4. Spec => []TurnInv
    BY <1>1, <1>2, CeremonyInvariant, PTL DEF Spec
<1> QED
    BY <1>3, <1>4, CeremonyInvariant, PTL DEF Spec, RetriesSuffice
=============================================================================

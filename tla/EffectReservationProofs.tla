----------------------- MODULE EffectReservationProofs -----------------------
(***************************************************************************)
(* Proofs that the durable effect boundary keeps its promises for any set  *)
(* of admissions, references, commands and release windows, and with no    *)
(* bound on time, on FENCE epochs or on release revisions but the named    *)
(* constants.                                                              *)
(***************************************************************************)
EXTENDS EffectReservation, TLAPS

-----------------------------------------------------------------------------
(* Sequences and records *)

\* insertEffectReservationEvent and the disposition insert append one row and
\* leave the rows before it alone.
LEMMA AppendFacts ==
    ASSUME NEW S, NEW s \in Seq(S), NEW e \in S
    PROVE  /\ Append(s, e) \in Seq(S)
           /\ Len(Append(s, e)) = Len(s) + 1
           /\ Append(s, e)[Len(s) + 1] = e
           /\ \A k \in 1..Len(s) : Append(s, e)[k] = s[k]
    OBVIOUS

\* The last row of a non-empty stream is a row of it.
LEMMA LastFacts ==
    ASSUME NEW S, NEW s \in Seq(S), s # <<>>
    PROVE  Len(s) \in 1..Len(s) /\ Len(s) \in Nat /\ s[Len(s)] \in S
    OBVIOUS

\* What transitionEffectReservation writes is an event, with the fields the
\* code assigns and the rest copied from the current event.
LEMMA SuccessorFacts ==
    ASSUME NEW current \in Event, NEW meta \in Meta, now \in Nat,
           NEW state \in {"STARTED", "NOT_STARTED", "UNCERTAIN"}
    PROVE  LET e == Successor(current, state, meta) IN
           /\ e \in Event
           /\ e.state = state
           /\ e.admittedAt = current.admittedAt
           /\ state = "UNCERTAIN" => e.startedAt = current.startedAt
           /\ current.state = "STARTED" =>
                /\ e.exec = preserveEffectReference(current.exec, meta.exec)
                /\ e.intent = preserveEffectReference(current.intent, meta.intent)
                /\ e.effect = preserveEffectReference(current.effect, meta.effect)
<1> DEFINE Ref(old, new) == IF current.state = "STARTED"
                            THEN preserveEffectReference(old, new) ELSE new
           started == CASE state = "STARTED" -> now
                        [] state = "NOT_STARTED" -> 0
                        [] OTHER -> current.startedAt
           x == Ref(current.exec, meta.exec)
           i == Ref(current.intent, meta.intent)
           f == Ref(current.effect, meta.effect)
<1>1. /\ x \in OptExec /\ i \in OptIntent /\ f \in OptEffect
      /\ meta.reason \in OptReason
    BY DEF preserveEffectReference, Event, Meta
<1>2. started \in Nat
    <2>1. current.startedAt \in Nat
        BY DEF Event
    <2> QED
        BY <2>1
<1>3. state \in States
    BY DEF States
<1>4. Successor(current, state, meta) =
        [current EXCEPT !.state = state, !.at = now, !.reason = meta.reason,
                        !.exec = x, !.intent = i, !.effect = f,
                        !.startedAt = started]
    BY DEF Successor
<1>5. state = "UNCERTAIN" => started = current.startedAt
    OBVIOUS
<1> HIDE DEF x, i, f, started
<1>6. /\ Successor(current, state, meta) \in Event
      /\ Successor(current, state, meta).state = state
      /\ Successor(current, state, meta).admittedAt = current.admittedAt
      /\ Successor(current, state, meta).startedAt = started
      /\ Successor(current, state, meta).exec = x
      /\ Successor(current, state, meta).intent = i
      /\ Successor(current, state, meta).effect = f
    BY <1>1, <1>2, <1>3, <1>4 DEF Event
<1> QED
    BY <1>5, <1>6 DEF x, i, f

\* What closeEffectReservation writes is an event that names the acknowledged
\* execution.
LEMMA CompletedFacts ==
    ASSUME NEW current \in Event, NEW k \in Ack, now \in Nat
    PROVE  LET e == CompletedEvent(current, k) IN
           /\ e \in Event
           /\ e.state = "COMPLETED" /\ e.prior = current.state
           /\ e.startedAt = current.startedAt /\ e.at = now
           /\ e.exec = k.exec /\ e.intent = k.intent /\ e.effect = k.effect
           /\ e.outcome = k.outcome /\ e.recon = k.recon
    BY DEF CompletedEvent, Event, Ack, States, Outcomes,
           OptExec, OptIntent, OptEffect, OptReason, OptRef

-----------------------------------------------------------------------------
(* Type correctness *)

\* The first database state has the types.
LEMMA TypeInit == Init => TypeOK
    BY BoundsAssumption DEF Init, TypeOK, Release

\* The clock, FENCE, the registry, key rotation and claimed admissions write
\* rows of their types and no reservation, disposition or closure.
LEMMA TypeEnvironment ==
    ASSUME TypeOK, Environment
    PROVE  TypeOK' /\ UNCHANGED <<events, disps, closure>>
<1>1. CASE Tick
    BY <1>1 DEF Tick, TypeOK
<1>2. CASE Fence
    BY <1>2, BoundsAssumption DEF Fence, TypeOK
<1>3. ASSUME NEW key \in ReleaseKeys, AppendRelease(key)
      PROVE  TypeOK' /\ UNCHANGED <<events, disps, closure>>
    <2>1. release' \in Release
        <3>1. CASE \E w \in Windows :
                      release' = [rev |-> release.rev + 1, state |-> "certified",
                                  from |-> w[1], until |-> w[2], key |-> key]
            BY <3>1, BoundsAssumption DEF TypeOK, Release
        <3>2. CASE release' = [release EXCEPT !.rev = @ + 1, !.state = "revoked",
                                              !.until = 0, !.key = key]
            <4>1. release \in Release /\ release.rev + 1 \in Nat
                BY DEF TypeOK, Release
            <4>2. release' = [rev |-> release.rev + 1, state |-> "revoked",
                              from |-> release.from, until |-> 0, key |-> key]
                BY <3>2, <4>1 DEF Release
            <4> QED
                BY <4>1, <4>2 DEF Release
        <3>3. \/ \E w \in Windows :
                    release' = [rev |-> release.rev + 1, state |-> "certified",
                                from |-> w[1], until |-> w[2], key |-> key]
              \/ release' = [release EXCEPT !.rev = @ + 1, !.state = "revoked",
                                            !.until = 0, !.key = key]
            BY <1>3, Zenon DEF AppendRelease
        <3> QED
            BY <3>1, <3>2, <3>3
    <2> QED
        BY <1>3, <2>1 DEF AppendRelease, TypeOK
<1>4. ASSUME NEW key \in Keys, DisableKey(key)
      PROVE  TypeOK' /\ UNCHANGED <<events, disps, closure>>
    BY <1>4 DEF DisableKey, TypeOK
<1>5. ASSUME NEW a \in Admissions, claimDispatchAdmission(a)
      PROVE  TypeOK' /\ UNCHANGED <<events, disps, closure>>
    <2>1. PICK rev \in 1..release.rev, ttl \in 1..AdmissionTTL :
            admission' = [admission EXCEPT ![a] =
                [rev |-> rev, issuedAt |-> now, expiresAt |-> now + ttl]]
        BY <1>5 DEF claimDispatchAdmission
    <2>2. [rev |-> rev, issuedAt |-> now, expiresAt |-> now + ttl] \in Admission
        BY BoundsAssumption DEF TypeOK, Release, Admission
    <2> QED
        BY <1>5, <2>1, <2>2 DEF claimDispatchAdmission, TypeOK
<1> QED
    BY <1>1, <1>2, <1>3, <1>4, <1>5 DEF Environment

\* An event appended to one stream keeps the streams typed, extends that one
\* and leaves the others.
LEMMA InsertEventFacts ==
    ASSUME TypeOK, NEW a \in Admissions, NEW e \in Event, insertEvent(a, e)
    PROVE  /\ events' \in [Admissions -> Seq(Event)]
           /\ events'[a] = Append(events[a], e)
           /\ \A b \in Admissions \ {a} : events'[b] = events[b]
<1>1. Append(events[a], e) \in Seq(Event)
    BY AppendFacts DEF TypeOK
<1> QED
    BY <1>1 DEF insertEvent, TypeOK

\* Admit appends a well-typed ADMITTED event.
LEMMA AdmittedFacts ==
    ASSUME TypeOK
    PROVE  AdmittedEvent \in Event /\ AdmittedEvent.state = "ADMITTED"
    BY DEF AdmittedEvent, TypeOK, Event, States, OptExec, OptIntent, OptEffect,
           OptReason, OptRef

\* A committed transition had a current event.
LEMMA TransitionFacts ==
    ASSUME TypeOK, NEW a \in Admissions, NEW meta \in Meta,
           NEW state \in {"STARTED", "NOT_STARTED", "UNCERTAIN"},
           Transition(a, state, meta)
    PROVE  /\ events[a] # <<>> /\ Current(a) \in Event
           /\ Successor(Current(a), state, meta) \in Event
           /\ insertEvent(a, Successor(Current(a), state, meta))
           /\ UNCHANGED <<now, fence, release, enabled, admission, disps, closure>>
<1>1. events[a] # <<>>
    BY DEF Transition, transitionOutcome
<1>2. Current(a) \in Event
    BY <1>1, LastFacts DEF TypeOK, Current
<1>3. now \in Nat
    BY DEF TypeOK
<1> QED
    BY <1>1, <1>2, <1>3, SuccessorFacts DEF Transition

\* A recorded command is typed and extends the chain of its admission.
LEMMA RecordFacts ==
    ASSUME TypeOK, NEW a \in Admissions, Record(a)
    PROVE  \E c \in Disposition, expiresAt \in Nat :
              /\ recordEffectDisposition(a, c, expiresAt)
              /\ disps' \in [Admissions -> Seq(Disposition)]
              /\ disps'[a] = Append(disps[a], c)
              /\ \A b \in Admissions \ {a} : disps'[b] = disps[b]
<1>1. PICK id \in CommandIds, epoch \in 1..MaxEpoch, seq \in 1..Len(events[a]),
           dseq \in 1..MaxDispositions, prev \in CommandIds \cup {None},
           action \in Actions, ref \in Refs, expiresAt \in {now, now + 1} :
         recordEffectDisposition(a,
            [id |-> id, epoch |-> epoch, seq |-> seq, head |-> events[a][seq],
             dseq |-> dseq, prev |-> prev, action |-> action, ref |-> ref],
            expiresAt)
    BY DEF Record
<1> DEFINE c == [id |-> id, epoch |-> epoch, seq |-> seq, head |-> events[a][seq],
                 dseq |-> dseq, prev |-> prev, action |-> action, ref |-> ref]
<1>2. events[a] \in Seq(Event) /\ events[a][seq] \in Event
    BY DEF TypeOK
<1>3. c \in Disposition
    BY <1>2, BoundsAssumption DEF Disposition
<1>4. expiresAt \in Nat
    BY DEF TypeOK
<1>5. recordEffectDisposition(a, c, expiresAt)
    BY <1>1
<1> HIDE DEF c
<1>6. Append(disps[a], c) \in Seq(Disposition)
    BY <1>3, AppendFacts DEF TypeOK
<1>7. disps' = [disps EXCEPT ![a] = Append(@, c)]
    BY <1>5 DEF recordEffectDisposition
<1> QED
    BY <1>3, <1>4, <1>5, <1>6, <1>7 DEF TypeOK

\* A committed close had a current STARTED or UNCERTAIN event and writes a
\* typed closure with its COMPLETED event.
LEMMA CloseFacts ==
    ASSUME TypeOK, NEW a \in Admissions, NEW k \in Ack, NEW observedAt,
           closeEffectReservation(a, k, observedAt)
    PROVE  /\ events[a] # <<>> /\ Current(a) \in Event
           /\ CompletedEvent(Current(a), k) \in Event
           /\ closure' \in [Admissions -> Closure \cup {None}]
           /\ closure'[a] = [ack |-> k, seq |-> Len(events[a]),
                             head |-> Current(a), closedAt |-> now]
           /\ \A b \in Admissions \ {a} : closure'[b] = closure[b]
<1>1. events[a] # <<>> /\ events[a] \in Seq(Event)
    BY DEF closeEffectReservation, TypeOK
<1>2. Current(a) \in Event /\ Len(events[a]) \in Nat
    BY <1>1, LastFacts DEF Current
<1>3. now \in Nat
    BY DEF TypeOK
<1>4. [ack |-> k, seq |-> Len(events[a]), head |-> Current(a), closedAt |-> now]
        \in Closure
    BY <1>2, <1>3 DEF Closure
<1>5. closure' = [closure EXCEPT ![a] =
          [ack |-> k, seq |-> Len(events[a]), head |-> Current(a),
           closedAt |-> now]]
    BY DEF closeEffectReservation
<1>6. closure \in [Admissions -> Closure \cup {None}]
    BY DEF TypeOK
<1> QED
    BY <1>1, <1>2, <1>3, <1>4, <1>5, <1>6, CompletedFacts

\* Every step keeps the types.
LEMMA TypeStep == TypeOK /\ [Next]_vars => TypeOK'
<1> SUFFICES ASSUME TypeOK, [Next]_vars PROVE TypeOK'
    OBVIOUS
<1>1. CASE UNCHANGED vars
    BY <1>1 DEF vars, TypeOK
<1>2. CASE Environment
    BY <1>2, TypeEnvironment
<1>3. ASSUME NEW a \in Admissions, Admit(a) PROVE TypeOK'
    BY <1>3, AdmittedFacts, InsertEventFacts DEF Admit, TypeOK
<1>4. ASSUME NEW a \in Admissions, NEW meta \in Meta,
             NEW state \in {"STARTED", "NOT_STARTED", "UNCERTAIN"},
             Transition(a, state, meta)
      PROVE  TypeOK'
    BY <1>4, TransitionFacts, InsertEventFacts DEF TypeOK
<1>5. ASSUME NEW a \in Admissions, Record(a) PROVE TypeOK'
    BY <1>5, RecordFacts DEF recordEffectDisposition, TypeOK
<1>6. ASSUME NEW a \in Admissions, Close(a) PROVE TypeOK'
    <2>1. PICK k \in Ack, observedAt \in 1..MaxTime :
            closeEffectReservation(a, k, observedAt)
        BY <1>6 DEF Close
    <2>2. insertEvent(a, CompletedEvent(Current(a), k))
        BY <2>1 DEF closeEffectReservation
    <2> QED
        BY <2>1, <2>2, CloseFacts, InsertEventFacts
        DEF closeEffectReservation, TypeOK
<1> QED
    BY <1>1, <1>2, <1>3, <1>4, <1>5, <1>6
    DEF Next, MarkStarted, MarkNotStarted, MarkUncertain

\* The rows of the approval store keep the types of their columns.
THEOREM TypeCorrect == Spec => []TypeOK
    BY TypeInit, TypeStep, PTL DEF Spec

-----------------------------------------------------------------------------
(* What FENCE and revocation stop, and what a close carries out *)

\* Appending one event adds exactly its state to one stream.
LEMMA HasInsert ==
    ASSUME TypeOK, NEW a \in Admissions, NEW e \in Event, insertEvent(a, e),
           NEW b \in Admissions, NEW state
    PROVE  Has(b, state)' => Has(b, state) \/ (b = a /\ e.state = state)
<1>1. CASE b # a
    <2>1. events'[b] = events[b]
        BY <1>1, InsertEventFacts
    <2> QED
        BY <2>1 DEF Has
<1>2. CASE b = a
    <2>1. events'[a] = Append(events[a], e) /\ events[a] \in Seq(Event)
        BY InsertEventFacts DEF TypeOK
    <2>2. \A k \in 1..Len(events'[a]) : k \in 1..Len(events[a]) \/ k = Len(events[a]) + 1
        BY <2>1, AppendFacts
    <2> QED
        BY <1>2, <2>1, <2>2, AppendFacts DEF Has
<1> QED
    BY <1>1, <1>2

\* A committed transition to STARTED passed the interlock.
LEMMA StartInterlock ==
    ASSUME NEW a \in Admissions, NEW meta \in Meta, Transition(a, "STARTED", meta)
    PROVE  StartPermitted(a)
    BY DEF Transition, transitionOutcome

\* Admit and MarkStarted both check FENCE and the release head themselves, so
\* neither commits once the stop is in force.
LEMMA StopStep ==
    ASSUME TypeOK, Next, fence > 0 \/ release.state = "revoked"
    PROVE  NoNewWork
<1>1. CASE Environment
    <2>1. UNCHANGED events
        BY <1>1, TypeEnvironment
    <2> QED
        BY <2>1 DEF NoNewWork, Has
<1>2. ASSUME NEW a \in Admissions, Admit(a) PROVE FALSE
    <2>1. admitOutcome(a) = "ok"
        BY <1>2 DEF Admit
    <2>2. fence = 0 /\ release.state = "certified"
        BY <2>1 DEF admitOutcome, CurrentCertified
    <2> QED
        BY <2>2
<1>3. ASSUME NEW a \in Admissions, NEW meta \in Meta, MarkStarted(a, meta)
      PROVE  FALSE
    BY <1>3, StartInterlock DEF MarkStarted, StartPermitted, CurrentCertified
<1>4. ASSUME NEW a \in Admissions, NEW meta \in Meta,
             NEW state \in {"NOT_STARTED", "UNCERTAIN"}, Transition(a, state, meta)
      PROVE  NoNewWork
    <2>1. now \in Nat
        BY DEF TypeOK
    <2>2. Successor(Current(a), state, meta).state = state
        BY <1>4, <2>1, TransitionFacts, SuccessorFacts
    <2>3. \A b \in Admissions : \A s \in {"ADMITTED", "STARTED"} :
            Has(b, s)' => Has(b, s)
        BY <1>4, <2>2, TransitionFacts, HasInsert
    <2> QED
        BY <2>3 DEF NoNewWork
<1>5. ASSUME NEW a \in Admissions, Record(a) PROVE NoNewWork
    BY <1>5, RecordFacts DEF recordEffectDisposition, NoNewWork, Has
<1>6. ASSUME NEW a \in Admissions, Close(a) PROVE NoNewWork
    <2>1. PICK k \in Ack, observedAt \in 1..MaxTime :
            closeEffectReservation(a, k, observedAt)
        BY <1>6 DEF Close
    <2>2. insertEvent(a, CompletedEvent(Current(a), k))
        BY <2>1 DEF closeEffectReservation
    <2>3. CompletedEvent(Current(a), k).state = "COMPLETED"
        BY <2>1, CloseFacts, CompletedFacts DEF TypeOK
    <2>4. \A b \in Admissions : \A s \in {"ADMITTED", "STARTED"} :
            Has(b, s)' => Has(b, s)
        BY <2>1, <2>2, <2>3, CloseFacts, HasInsert
    <2> QED
        BY <2>4 DEF NoNewWork
<1> QED
    BY <1>1, <1>2, <1>3, <1>4, <1>5, <1>6 DEF Next, MarkNotStarted, MarkUncertain

\* Once FENCE or a revocation has committed, no admission and no start does.
THEOREM StopFreezes == Spec => StopFreezesWork
<1>1. TypeOK /\ [Next]_vars =>
        [fence > 0 \/ release.state = "revoked" => NoNewWork]_vars
    BY StopStep
<1> QED
    BY <1>1, TypeCorrect, PTL DEF Spec, StopFreezesWork

\* The step that completes a stream is its close.
LEMMA CompletedWriter ==
    ASSUME TypeOK, [Next]_vars, NEW a \in Admissions,
           Has(a, "COMPLETED")', ~Has(a, "COMPLETED")
    PROVE  \E k \in Ack, observedAt \in 1..MaxTime :
              closeEffectReservation(a, k, observedAt)
<1>1. CASE UNCHANGED vars
    BY <1>1 DEF vars, Has
<1>2. CASE Environment
    BY <1>2, TypeEnvironment DEF Has
<1>3. ASSUME NEW b \in Admissions, Admit(b) PROVE FALSE
    BY <1>3, AdmittedFacts, HasInsert DEF Admit
<1>4. ASSUME NEW b \in Admissions, NEW meta \in Meta,
             NEW state \in {"STARTED", "NOT_STARTED", "UNCERTAIN"},
             Transition(b, state, meta)
      PROVE  FALSE
    <2>1. now \in Nat
        BY DEF TypeOK
    <2>2. Successor(Current(b), state, meta).state = state
        BY <1>4, <2>1, TransitionFacts, SuccessorFacts
    <2> QED
        BY <1>4, <2>2, TransitionFacts, HasInsert
<1>5. ASSUME NEW b \in Admissions, Record(b) PROVE FALSE
    BY <1>5, RecordFacts DEF recordEffectDisposition, Has
<1>6. ASSUME NEW b \in Admissions, Close(b)
      PROVE  \E k \in Ack, observedAt \in 1..MaxTime :
                closeEffectReservation(a, k, observedAt)
    <2>1. PICK k \in Ack, observedAt \in 1..MaxTime :
            closeEffectReservation(b, k, observedAt)
        BY <1>6 DEF Close
    <2>2. insertEvent(b, CompletedEvent(Current(b), k))
        BY <2>1 DEF closeEffectReservation
    <2>3. a = b
        BY <2>1, <2>2, CloseFacts, HasInsert
    <2> QED
        BY <2>1, <2>3
<1> QED
    BY <1>1, <1>2, <1>3, <1>4, <1>5, <1>6
    DEF Next, MarkStarted, MarkNotStarted, MarkUncertain

\* A close checks the latest disposition against the head and the FENCE it
\* reads in its own transaction.
LEMMA CloseStep ==
    ASSUME TypeOK, [Next]_vars, fence > 0, NEW a \in Admissions,
           Has(a, "COMPLETED")', ~Has(a, "COMPLETED")
    PROVE  CarriesOutInstruction(a)
<1>1. PICK k \in Ack, observedAt \in 1..MaxTime :
        closeEffectReservation(a, k, observedAt)
    BY CompletedWriter
<1>2. closure'[a].ack = k
    <2>1. closure'[a] = [ack |-> k, seq |-> Len(events[a]),
                         head |-> Current(a), closedAt |-> now]
        BY <1>1, CloseFacts, Zenon
    <2> QED
        BY <2>1
<1>3. effectAcknowledgementMatchesDisposition(a, k, Len(events[a]), TRUE)
    BY <1>1 DEF closeEffectReservation
<1> QED
    BY <1>2, <1>3 DEF effectAcknowledgementMatchesDisposition,
                      CarriesOutInstruction, Current

\* Under FENCE a close carries out the latest instruction for its exact head.
THEOREM CloseObeys == Spec => CloseObeysInstruction
<1>1. TypeOK /\ [Next]_vars =>
        [\A a \in Admissions :
            Has(a, "COMPLETED")' /\ ~Has(a, "COMPLETED") /\ fence > 0
                => CarriesOutInstruction(a)]_vars
    BY CloseStep
<1> QED
    BY <1>1, TypeCorrect, PTL DEF Spec, CloseObeysInstruction

-----------------------------------------------------------------------------
(* The streams: every stored event is valid, terminal events are last, and  *)
(* an event past ADMITTED hands its execution on.                           *)

\* The strengthening: every event passes Validate at its position against an
\* admission that is persisted, and NOT_STARTED and COMPLETED end a stream.
StreamsValid ==
    \A a \in Admissions :
        /\ events[a] # <<>> => admission[a] # None
        /\ \A k \in 1..Len(events[a]) : ValidEvent(a, k, events[a][k])
        /\ \A k \in 1..(Len(events[a]) - 1) :
              events[a][k].state \notin {"NOT_STARTED", "COMPLETED"}

\* What an event appended after c may not change.
Linked(c, e) ==
    /\ e.exec = c.exec /\ e.intent = c.intent /\ e.startedAt = c.startedAt
    /\ c.effect # None => e.effect = c.effect
    /\ e.state # "NOT_STARTED"

\* The form of every step that touches a stream.
Extends(a, e) ==
    /\ insertEvent(a, e)
    /\ UNCHANGED admission
    /\ admission[a] # None
    /\ ValidEvent(a, Len(events[a]) + 1, e)
    /\ events[a] # <<>> =>
          /\ Current(a).state \notin {"NOT_STARTED", "COMPLETED"}
          /\ Current(a).state # "ADMITTED" => Linked(Current(a), e)

\* The form of every step that touches none.
KeepsStreams ==
    /\ UNCHANGED events
    /\ \A a \in Admissions : admission[a] # None => admission'[a] = admission[a]

\* A transition from STARTED keeps the references: preserveEffectReference.
LEMMA TransitionExtends ==
    ASSUME TypeOK, StreamsValid, NEW a \in Admissions, NEW meta \in Meta,
           NEW state \in {"STARTED", "NOT_STARTED", "UNCERTAIN"},
           Transition(a, state, meta)
    PROVE  Extends(a, Successor(Current(a), state, meta))
<1> DEFINE e == Successor(Current(a), state, meta)
<1>1. transitionOutcome(a, state, meta) = "ok"
    BY DEF Transition
<1>2. /\ events[a] # <<>> /\ Current(a) \in Event /\ now \in Nat
      /\ insertEvent(a, e) /\ UNCHANGED admission
    BY TransitionFacts DEF TypeOK
<1>3. Current(a).state \notin {"NOT_STARTED", "UNCERTAIN", "COMPLETED"}
    BY <1>1 DEF transitionOutcome
<1>4. ValidEvent(a, Len(events[a]) + 1, e)
    BY <1>1 DEF transitionOutcome
<1>5. admission[a] # None
    BY <1>2 DEF StreamsValid
<1>6. ASSUME Current(a).state # "ADMITTED" PROVE Linked(Current(a), e)
    <2>1. Current(a).state = "STARTED"
        BY <1>2, <1>3, <1>6 DEF Event, States
    <2>2. state = "UNCERTAIN"
        BY <1>1, <2>1 DEF transitionOutcome
    <2>3. /\ Preservable(Current(a).exec, meta.exec, FALSE)
          /\ Preservable(Current(a).intent, meta.intent, FALSE)
          /\ Preservable(Current(a).effect, meta.effect, TRUE)
        BY <1>1, <2>1, <2>2 DEF transitionOutcome
    <2>4. /\ e.state = state
          /\ e.startedAt = Current(a).startedAt
          /\ e.exec = preserveEffectReference(Current(a).exec, meta.exec)
          /\ e.intent = preserveEffectReference(Current(a).intent, meta.intent)
          /\ e.effect = preserveEffectReference(Current(a).effect, meta.effect)
        BY <1>2, <2>1, <2>2, SuccessorFacts
    <2> HIDE DEF e
    <2> QED
        BY <2>2, <2>3, <2>4 DEF Linked, Preservable, preserveEffectReference
<1> QED
    BY <1>2, <1>3, <1>4, <1>5, <1>6 DEF Extends

\* A close acknowledges the execution, intent and effect of the event it closes.
LEMMA CloseExtends ==
    ASSUME TypeOK, StreamsValid, NEW a \in Admissions, NEW k \in Ack,
           NEW observedAt, closeEffectReservation(a, k, observedAt)
    PROVE  Extends(a, CompletedEvent(Current(a), k))
<1> DEFINE e == CompletedEvent(Current(a), k)
<1>1. /\ events[a] # <<>> /\ Current(a) \in Event /\ now \in Nat
    BY CloseFacts DEF TypeOK
<1>2. /\ Current(a).state \in {"STARTED", "UNCERTAIN"}
      /\ effectAcknowledgementMatchesReservation(k, Current(a))
      /\ ValidEvent(a, Len(events[a]) + 1, e)
      /\ insertEvent(a, e) /\ UNCHANGED admission
    BY DEF closeEffectReservation
<1>3. admission[a] # None
    BY <1>1 DEF StreamsValid
<1>4. Linked(Current(a), e)
    BY <1>1, <1>2, CompletedFacts
    DEF Linked, effectAcknowledgementMatchesReservation
<1> QED
    BY <1>1, <1>2, <1>3, <1>4 DEF Extends

\* The first event of a stream is a valid ADMITTED event.
LEMMA AdmitExtends ==
    ASSUME TypeOK, NEW a \in Admissions, Admit(a)
    PROVE  Extends(a, AdmittedEvent)
<1>1. admitOutcome(a) = "ok"
    BY DEF Admit
<1>2. /\ events[a] = <<>> /\ admission[a] # None
      /\ admission[a].issuedAt <= now /\ now < admission[a].expiresAt
    BY <1>1 DEF admitOutcome
<1>3. Len(events[a]) + 1 = 1 /\ now \in Nat
    BY <1>2 DEF TypeOK
<1>4. ValidEvent(a, 1, AdmittedEvent)
    BY <1>2, <1>3 DEF ValidEvent, AdmittedEvent, NoCloseMetadata
<1> QED
    BY <1>2, <1>3, <1>4 DEF Extends, Admit

\* Every step extends one stream by a linked event or leaves all streams.
LEMMA StepForms ==
    ASSUME TypeOK, StreamsValid, [Next]_vars
    PROVE  KeepsStreams \/ \E a \in Admissions, e \in Event : Extends(a, e)
<1>1. CASE UNCHANGED vars
    BY <1>1 DEF vars, KeepsStreams
<1>2. CASE Environment
    <2>1. UNCHANGED events
        BY <1>2, TypeEnvironment
    <2>2. ASSUME NEW a \in Admissions, claimDispatchAdmission(a)
          PROVE  \A b \in Admissions : admission[b] # None => admission'[b] = admission[b]
        BY <2>2 DEF claimDispatchAdmission, TypeOK
    <2>3. \A b \in Admissions : admission[b] # None => admission'[b] = admission[b]
        BY <1>2, <2>2 DEF Environment, Tick, Fence, AppendRelease, DisableKey
    <2> QED
        BY <2>1, <2>3 DEF KeepsStreams
<1>3. ASSUME NEW a \in Admissions, Admit(a)
      PROVE  \E e \in Event : Extends(a, e)
    BY <1>3, AdmitExtends, AdmittedFacts
<1>4. ASSUME NEW a \in Admissions, NEW meta \in Meta,
             NEW state \in {"STARTED", "NOT_STARTED", "UNCERTAIN"},
             Transition(a, state, meta)
      PROVE  \E e \in Event : Extends(a, e)
    BY <1>4, TransitionExtends, TransitionFacts
<1>5. ASSUME NEW a \in Admissions, Record(a) PROVE KeepsStreams
    BY <1>5, RecordFacts DEF recordEffectDisposition, KeepsStreams
<1>6. ASSUME NEW a \in Admissions, Close(a)
      PROVE  \E e \in Event : Extends(a, e)
    <2>1. PICK k \in Ack, observedAt \in 1..MaxTime :
            closeEffectReservation(a, k, observedAt)
        BY <1>6 DEF Close
    <2> QED
        BY <2>1, CloseExtends, CloseFacts
<1> QED
    BY <1>1, <1>2, <1>3, <1>4, <1>5, <1>6
    DEF Next, MarkStarted, MarkNotStarted, MarkUncertain

\* An extension writes one new last event and keeps the events before it.
LEMMA ExtendsRows ==
    ASSUME TypeOK, NEW a \in Admissions, NEW e \in Event, Extends(a, e)
    PROVE  /\ Len(events[a]) \in Nat
           /\ Len(events'[a]) = Len(events[a]) + 1
           /\ events'[a][Len(events[a]) + 1] = e
           /\ \A k \in 1..Len(events[a]) : events'[a][k] = events[a][k]
           /\ \A b \in Admissions \ {a} : events'[b] = events[b]
<1>1. events[a] \in Seq(Event)
    BY DEF TypeOK
<1>2. events'[a] = Append(events[a], e)
    BY InsertEventFacts DEF Extends
<1>3. \A b \in Admissions \ {a} : events'[b] = events[b]
    BY InsertEventFacts DEF Extends
<1> QED
    BY <1>1, <1>2, <1>3, AppendFacts

\* Validity of the stored events survives every step.
LEMMA StreamsValidStep ==
    ASSUME TypeOK, StreamsValid, [Next]_vars
    PROVE  StreamsValid'
<1>1. ASSUME KeepsStreams PROVE StreamsValid'
    <2> SUFFICES ASSUME NEW a \in Admissions
                 PROVE  /\ events'[a] # <<>> => admission'[a] # None
                        /\ \A k \in 1..Len(events'[a]) : ValidEvent(a, k, events[a][k])'
                        /\ \A k \in 1..(Len(events'[a]) - 1) :
                             events'[a][k].state \notin {"NOT_STARTED", "COMPLETED"}
        BY DEF StreamsValid
    <2>1. CASE events[a] = <<>>
        BY <1>1, <2>1 DEF KeepsStreams
    <2>2. CASE events[a] # <<>>
        <3>1. admission[a] # None /\ admission'[a] = admission[a] /\ events' = events
            BY <1>1, <2>2 DEF KeepsStreams, StreamsValid
        <3> QED
            BY <3>1 DEF StreamsValid, ValidEvent
    <2> QED
        BY <2>1, <2>2
<1>2. ASSUME NEW a \in Admissions, NEW e \in Event, Extends(a, e)
      PROVE  StreamsValid'
    <2> SUFFICES ASSUME NEW b \in Admissions
                 PROVE  /\ events'[b] # <<>> => admission'[b] # None
                        /\ \A k \in 1..Len(events'[b]) : ValidEvent(b, k, events[b][k])'
                        /\ \A k \in 1..(Len(events'[b]) - 1) :
                             events'[b][k].state \notin {"NOT_STARTED", "COMPLETED"}
        BY DEF StreamsValid
    <2>0. admission' = admission /\ admission[a] # None
        BY <1>2 DEF Extends
    <2>1. CASE b # a
        <3>1. events'[b] = events[b]
            BY <1>2, <2>1, ExtendsRows
        <3> QED
            BY <2>0, <3>1 DEF StreamsValid, ValidEvent
    <2>2. CASE b = a
        <3>1. \A k \in 1..Len(events[a]) : ValidEvent(a, k, events[a][k])'
            <4> TAKE k \in 1..Len(events[a])
            <4>1. events'[a][k] = events[a][k]
                BY <1>2, ExtendsRows
            <4>2. ValidEvent(a, k, events[a][k])
                BY DEF StreamsValid
            <4> QED
                BY <2>0, <4>1, <4>2 DEF ValidEvent
        <3>2. ASSUME NEW k \in 1..Len(events'[a]), k = Len(events[a]) + 1
              PROVE  ValidEvent(a, k, events[a][k])'
            <4>1. events'[a][k] = e /\ ValidEvent(a, k, e)
                BY <1>2, <3>2, ExtendsRows DEF Extends
            <4> QED
                BY <2>0, <4>1 DEF ValidEvent
        <3>3. \A k \in 1..Len(events'[a]) :
                k \in 1..Len(events[a]) \/ k = Len(events[a]) + 1
            BY <1>2, ExtendsRows
        <3>4. \A k \in 1..Len(events'[a]) : ValidEvent(a, k, events[a][k])'
            BY <3>1, <3>2, <3>3
        <3>5. ASSUME NEW k \in 1..(Len(events'[a]) - 1)
              PROVE  events'[a][k].state \notin {"NOT_STARTED", "COMPLETED"}
            <4>1. k \in 1..Len(events[a]) /\ events'[a][k] = events[a][k]
                BY <1>2, ExtendsRows
            <4>2. CASE k = Len(events[a])
                <5>1. events[a] # <<>>
                    BY <4>1, <4>2
                <5> QED
                    BY <1>2, <4>1, <4>2, <5>1 DEF Extends, Current
            <4>3. CASE k # Len(events[a])
                <5>1. k \in 1..(Len(events[a]) - 1)
                    BY <1>2, <4>1, <4>3, ExtendsRows
                <5> QED
                    BY <4>1, <5>1 DEF StreamsValid
            <4> QED
                BY <4>2, <4>3
        <3> QED
            BY <2>0, <2>2, <3>4, <3>5
    <2> QED
        BY <2>1, <2>2
<1> QED
    BY <1>1, <1>2, StepForms

\* A stream that moved past ADMITTED keeps its execution through every step:
\* the link of the new event to the last composes with the links before it.
LEMMA IdentityStep ==
    ASSUME TypeOK, StreamsValid, ExecutionIdentityPreserved, [Next]_vars
    PROVE  ExecutionIdentityPreserved'
<1> DEFINE Kept(adm, x, y) ==
        /\ y.exec = x.exec /\ y.intent = x.intent /\ y.startedAt = x.startedAt
        /\ x.effect # None => y.effect = x.effect
        /\ x.state = "STARTED" =>
             y.startedAt < adm.expiresAt /\ y.state # "NOT_STARTED"
<1>0. \A b \in Admissions : \A i, j \in 1..Len(events[b]) :
        i < j /\ events[b][i].state # "ADMITTED" =>
            Kept(admission[b], events[b][i], events[b][j])
    BY DEF ExecutionIdentityPreserved
<1> SUFFICES ASSUME NEW b \in Admissions,
                    NEW i \in 1..Len(events'[b]), NEW j \in 1..Len(events'[b]),
                    i < j, events'[b][i].state # "ADMITTED"
             PROVE  Kept(admission'[b], events'[b][i], events'[b][j])
    BY DEF ExecutionIdentityPreserved
<1>1. ASSUME KeepsStreams
      PROVE  Kept(admission'[b], events'[b][i], events'[b][j])
    <2>1. events' = events
        BY <1>1 DEF KeepsStreams
    <2>2. events[b] # <<>>
        BY <2>1
    <2>3. admission'[b] = admission[b]
        BY <1>1, <2>2 DEF KeepsStreams, StreamsValid
    <2> QED
        BY <1>0, <2>1, <2>3
<1>2. ASSUME NEW a \in Admissions, NEW e \in Event, Extends(a, e)
      PROVE  Kept(admission'[b], events'[b][i], events'[b][j])
    <2>0. admission' = admission
        BY <1>2 DEF Extends
    <2>1. CASE b # a
        <3>1. events'[b] = events[b]
            BY <1>2, <2>1, ExtendsRows
        <3> QED
            BY <1>0, <2>0, <3>1
    <2>2. CASE b = a
        <3> DEFINE n == Len(events[a])
        <3>1. n \in Nat /\ Len(events'[a]) = n + 1
            BY <1>2, ExtendsRows
        <3>2. i \in 1..n /\ events'[a][i] = events[a][i]
            BY <1>2, <2>2, <3>1, ExtendsRows
        <3>3. CASE j # n + 1
            <4>1. j \in 1..n /\ events'[a][j] = events[a][j]
                BY <1>2, <2>2, <3>1, <3>3, ExtendsRows
            <4> QED
                BY <1>0, <2>0, <2>2, <3>2, <4>1
        <3>4. CASE j = n + 1
            <4>1. events'[a][j] = e
                BY <1>2, <3>4, ExtendsRows
            <4>2. events[a] # <<>> /\ n \in 1..n
                BY <3>1, <3>2
            <4>3. Current(a).state # "ADMITTED"
                <5>1. ValidEvent(a, n, events[a][n])
                    BY <4>2 DEF StreamsValid
                <5>2. events[a][n].state = "ADMITTED" => n = 1
                    BY <5>1 DEF ValidEvent
                <5> QED
                    BY <2>2, <3>1, <3>2, <5>2 DEF Current
            <4>4. Linked(events[a][n], e)
                BY <1>2, <4>2, <4>3 DEF Extends, Current
            <4>5. events[a][i].state = "STARTED" =>
                    events[a][i].startedAt < admission[a].expiresAt
                BY <3>2 DEF StreamsValid, ValidEvent
            <4>6. i = n \/ Kept(admission[a], events[a][i], events[a][n])
                <5>1. i = n \/ i < n
                    BY <3>1, <3>2
                <5> QED
                    BY <1>0, <2>2, <3>2, <4>2, <5>1
            <4>7. Kept(admission[a], events[a][i], e)
                BY <4>4, <4>5, <4>6 DEF Linked
            <4> QED
                BY <2>0, <2>2, <3>2, <4>1, <4>7
        <3> QED
            BY <3>3, <3>4
    <2> QED
        BY <2>1, <2>2
<1> QED
    BY <1>1, <1>2, StepForms

\* Once an execution crossed the start seam, its stream names it to the end.
THEOREM IdentityPreserved == Spec => []ExecutionIdentityPreserved
<1> DEFINE Inv == TypeOK /\ StreamsValid /\ ExecutionIdentityPreserved
<1>1. Init => Inv
    BY TypeInit DEF Init, StreamsValid, ExecutionIdentityPreserved
<1>2. Inv /\ [Next]_vars => Inv'
    BY TypeStep, StreamsValidStep, IdentityStep
<1> QED
    BY <1>1, <1>2, PTL DEF Spec

-----------------------------------------------------------------------------
(* Dispositions and closures verify in every later state *)

\* A step that is not a Record leaves the dispositions.
LEMMA DispositionsWriter ==
    ASSUME TypeOK, [Next]_vars
    PROVE  UNCHANGED disps \/ \E a \in Admissions : Record(a)
<1>1. CASE Environment
    BY <1>1, TypeEnvironment
<1>2. ASSUME NEW a \in Admissions, Close(a) PROVE UNCHANGED disps
    BY <1>2 DEF Close, closeEffectReservation
<1> QED
    BY <1>1, <1>2
    DEF Next, vars, Admit, MarkStarted, MarkNotStarted, MarkUncertain, Transition

\* No step rewrites a stored event.
LEMMA EventsOnlyAppended ==
    ASSUME TypeOK, StreamsValid, [Next]_vars, NEW a \in Admissions
    PROVE  /\ Len(events[a]) \in Nat /\ Len(events'[a]) \in Nat
           /\ Len(events[a]) <= Len(events'[a])
           /\ \A k \in 1..Len(events[a]) : events'[a][k] = events[a][k]
<1>1. ASSUME KeepsStreams
      PROVE  events'[a] = events[a]
    BY <1>1 DEF KeepsStreams
<1>2. Len(events[a]) \in Nat
    BY DEF TypeOK
<1>3. ASSUME NEW b \in Admissions, NEW e \in Event, Extends(b, e)
      PROVE  \/ events'[a] = events[a]
             \/ /\ Len(events'[a]) = Len(events[a]) + 1
                /\ \A k \in 1..Len(events[a]) : events'[a][k] = events[a][k]
    BY <1>3, ExtendsRows
<1> QED
    BY <1>1, <1>2, <1>3, StepForms

\* A disposition stays bound to the event it named.
LEMMA MatchStays ==
    ASSUME TypeOK, StreamsValid, [Next]_vars, NEW a \in Admissions,
           NEW d \in Disposition, CommandMatchesReservation(a, d)
    PROVE  CommandMatchesReservation(a, d)'
<1>1. d.seq \in 1..Len(events[a]) /\ d.head = events[a][d.seq]
    BY DEF CommandMatchesReservation
<1>2. /\ Len(events[a]) \in Nat /\ Len(events'[a]) \in Nat
      /\ Len(events[a]) <= Len(events'[a])
      /\ events'[a][d.seq] = events[a][d.seq]
    BY <1>1, EventsOnlyAppended
<1>3. d.seq \in 1..Len(events'[a])
    BY <1>1, <1>2
<1> QED
    BY <1>1, <1>2, <1>3 DEF CommandMatchesReservation

\* The chain of dispositions verifies after every step: records stay bound to
\* events that are never rewritten, and a new one names its predecessor.
LEMMA DispositionsStep ==
    ASSUME TypeOK, StreamsValid, DispositionsRecoverable, [Next]_vars
    PROVE  DispositionsRecoverable'
<1> DEFINE Chained(chain, d) ==
        d.dseq > 1 => /\ d.dseq - 1 \in 1..Len(chain)
                      /\ chain[d.dseq - 1].id = d.prev
<1>0. \A b \in Admissions : \A k \in 1..Len(disps[b]) :
        /\ disps[b][k] \in Disposition /\ disps[b][k].dseq = k
        /\ ValidCommand(disps[b][k])
        /\ CommandMatchesReservation(b, disps[b][k])
        /\ Chained(disps[b], disps[b][k])
    BY DEF DispositionsRecoverable, verifyEffectDispositionRecord, TypeOK
<1> SUFFICES ASSUME NEW b \in Admissions, NEW k \in 1..Len(disps'[b])
             PROVE  /\ disps'[b][k].dseq = k
                    /\ ValidCommand(disps'[b][k])
                    /\ CommandMatchesReservation(b, disps[b][k])'
                    /\ Chained(disps'[b], disps'[b][k])
    BY DEF DispositionsRecoverable, verifyEffectDispositionRecord, ValidCommand
<1>1. CASE disps'[b] = disps[b]
    <2>1. PICK d \in Disposition : d = disps[b][k]
        BY <1>0, <1>1
    <2>2. CommandMatchesReservation(b, d)
        BY <1>0, <1>1, <2>1
    <2>3. CommandMatchesReservation(b, d)'
        BY <2>2, MatchStays
    <2>4. CommandMatchesReservation(b, disps[b][k])'
        BY <1>1, <2>1, <2>3 DEF CommandMatchesReservation
    <2> QED
        BY <1>0, <1>1, <2>4
<1>2. ASSUME NEW a \in Admissions, Record(a), disps'[b] # disps[b]
      PROVE  /\ disps'[b][k].dseq = k
             /\ ValidCommand(disps'[b][k])
             /\ CommandMatchesReservation(b, disps[b][k])'
             /\ Chained(disps'[b], disps'[b][k])
    <2>1. PICK c \in Disposition, expiresAt \in Nat :
              /\ recordEffectDisposition(a, c, expiresAt)
              /\ disps'[a] = Append(disps[a], c)
              /\ \A x \in Admissions \ {a} : disps'[x] = disps[x]
        BY <1>2, RecordFacts
    <2>2. b = a
        BY <1>2, <2>1
    <2> DEFINE n == Len(disps[b])
    <2>3. /\ n \in Nat /\ Len(disps'[b]) = n + 1 /\ disps'[b][n + 1] = c
          /\ \A x \in 1..n : disps'[b][x] = disps[b][x]
        BY <2>1, <2>2, AppendFacts DEF TypeOK
    <2>4. /\ ValidCommand(c) /\ CommandMatchesReservation(b, c)
          /\ c.dseq = n + 1
          /\ c.prev = IF disps[b] = <<>> THEN None ELSE LastDisposition(b).id
        BY <2>1, <2>2 DEF recordEffectDisposition
    <2>5. CASE k = n + 1
        <3>1. disps'[b][k] = c
            BY <2>3, <2>5
        <3>2. CommandMatchesReservation(b, c)'
            BY <2>4, MatchStays
        <3>3. CommandMatchesReservation(b, disps[b][k])'
            BY <3>1, <3>2 DEF CommandMatchesReservation
        <3>4. Chained(disps'[b], c)
            <4>1. ASSUME n + 1 > 1
                  PROVE  n \in 1..(n + 1) /\ disps'[b][n].id = c.prev
                <5>1. n \in 1..n /\ disps[b] # <<>>
                    BY <2>3, <4>1 DEF TypeOK
                <5> QED
                    BY <2>3, <2>4, <5>1 DEF LastDisposition
            <4>2. n + 1 - 1 = n
                BY <2>3
            <4> QED
                BY <2>3, <2>4, <4>1, <4>2
        <3> QED
            BY <2>4, <2>5, <3>1, <3>3, <3>4
    <2>6. CASE k # n + 1
        <3>1. k \in 1..n /\ disps'[b][k] = disps[b][k]
            BY <2>3, <2>6
        <3>2. PICK d \in Disposition : d = disps[b][k]
            BY <1>0, <3>1
        <3>3. CommandMatchesReservation(b, d)'
            BY <1>0, <3>1, <3>2, MatchStays
        <3>4. CommandMatchesReservation(b, disps[b][k])'
            BY <3>1, <3>2, <3>3 DEF CommandMatchesReservation
        <3>5. Chained(disps'[b], d)
            <4>1. Chained(disps[b], d)
                BY <1>0, <3>1, <3>2
            <4> QED
                BY <2>3, <4>1 DEF Disposition
        <3> QED
            BY <1>0, <3>1, <3>2, <3>4, <3>5
    <2> QED
        BY <2>5, <2>6
<1> QED
    BY <1>1, <1>2, DispositionsWriter

\* Every recorded instruction verifies, as one unbroken chain, ever after.
THEOREM DispositionsStayRecoverable == Spec => []DispositionsRecoverable
<1> DEFINE Inv == TypeOK /\ StreamsValid /\ DispositionsRecoverable
<1>1. Init => Inv
    BY TypeInit DEF Init, StreamsValid, DispositionsRecoverable
<1>2. Inv /\ [Next]_vars => Inv'
    BY TypeStep, StreamsValidStep, DispositionsStep
<1> QED
    BY <1>1, <1>2, PTL DEF Spec

\* A completed stream is at its end: COMPLETED is its last event, so neither
\* the stream, its dispositions nor its closure change any more.
LEMMA CompletedIsFinal ==
    ASSUME TypeOK, StreamsValid, [Next]_vars, NEW a \in Admissions,
           Has(a, "COMPLETED")
    PROVE  /\ events'[a] = events[a] /\ disps'[a] = disps[a]
           /\ closure'[a] = closure[a]
<1>1. PICK k \in 1..Len(events[a]) : events[a][k].state = "COMPLETED"
    BY DEF Has
<1>2. k = Len(events[a]) /\ events[a] # <<>>
    <2>1. Len(events[a]) \in Nat
        BY DEF TypeOK
    <2>2. k \notin 1..(Len(events[a]) - 1)
        BY <1>1 DEF StreamsValid
    <2> QED
        BY <1>1, <2>1, <2>2
<1>3. Current(a).state = "COMPLETED"
    BY <1>1, <1>2 DEF Current
<1>4. CASE UNCHANGED vars
    BY <1>4 DEF vars
<1>5. CASE Environment
    BY <1>5, TypeEnvironment
<1>6. ASSUME NEW b \in Admissions, Admit(b)
      PROVE  events'[a] = events[a] /\ UNCHANGED <<disps, closure>>
    <2>1. b # a
        BY <1>2, <1>6 DEF Admit, admitOutcome
    <2> QED
        BY <1>6, <2>1, AdmittedFacts, InsertEventFacts DEF Admit
<1>7. ASSUME NEW b \in Admissions, NEW meta \in Meta,
             NEW state \in {"STARTED", "NOT_STARTED", "UNCERTAIN"},
             Transition(b, state, meta)
      PROVE  events'[a] = events[a] /\ UNCHANGED <<disps, closure>>
    <2>1. b # a
        BY <1>2, <1>3, <1>7 DEF Transition, transitionOutcome
    <2> QED
        BY <1>7, <2>1, TransitionFacts, InsertEventFacts
<1>8. ASSUME NEW b \in Admissions, Record(b)
      PROVE  disps'[a] = disps[a] /\ UNCHANGED <<events, closure>>
    <2>1. PICK c \in Disposition, expiresAt \in Nat :
              /\ recordEffectDisposition(b, c, expiresAt)
              /\ \A x \in Admissions \ {b} : disps'[x] = disps[x]
        BY <1>8, RecordFacts
    <2>2. b # a
        BY <1>3, <2>1 DEF recordEffectDisposition
    <2> QED
        BY <2>1, <2>2 DEF recordEffectDisposition
<1>9. ASSUME NEW b \in Admissions, Close(b)
      PROVE  /\ events'[a] = events[a] /\ closure'[a] = closure[a]
             /\ UNCHANGED disps
    <2>1. PICK ack \in Ack, observedAt \in 1..MaxTime :
            closeEffectReservation(b, ack, observedAt)
        BY <1>9 DEF Close
    <2>2. /\ insertEvent(b, CompletedEvent(Current(b), ack))
          /\ UNCHANGED disps
          /\ Current(b).state \in {"STARTED", "UNCERTAIN"}
        BY <2>1 DEF closeEffectReservation
    <2>3. b # a
        BY <1>3, <2>2
    <2> QED
        BY <2>1, <2>2, <2>3, CloseFacts, InsertEventFacts
<1> QED
    BY <1>4, <1>5, <1>6, <1>7, <1>8, <1>9
    DEF Next, MarkStarted, MarkNotStarted, MarkUncertain

\* The closure a close writes verifies in the state it leaves: what the close
\* checked against the FENCE in force implies what recovery checks without it.
LEMMA CloseVerifies ==
    ASSUME TypeOK, StreamsValid, DispositionsRecoverable,
           NEW a \in Admissions, NEW k \in Ack, NEW observedAt,
           closeEffectReservation(a, k, observedAt), [Next]_vars
    PROVE  verifyEffectClosureRecord(a)'
<1>0. PICK n \in Nat, e \in Event :
        n = Len(events[a]) /\ e = CompletedEvent(Current(a), k)
    <2>1. Len(events[a]) \in Nat
        BY DEF TypeOK
    <2>2. CompletedEvent(Current(a), k) \in Event
        BY CloseFacts, Zenon
    <2> QED
        BY <2>1, <2>2
<1>1. /\ events[a] # <<>> /\ Current(a) \in Event /\ now \in Nat
      /\ events[a] \in Seq(Event)
    BY CloseFacts DEF TypeOK
<1>2. /\ Current(a).state \in {"STARTED", "UNCERTAIN"}
      /\ effectAcknowledgementMatchesReservation(k, Current(a))
      /\ effectAcknowledgementMatchesDisposition(a, k, n, TRUE)
      /\ disps' = disps
    BY <1>0 DEF closeEffectReservation
<1>3. /\ n \in Nat /\ Len(events'[a]) = n + 1 /\ events'[a][n + 1] = e
      /\ \A i \in 1..n : events'[a][i] = events[a][i]
    BY <1>0, CloseExtends, ExtendsRows
<1>4. n >= 2 /\ n \in 1..n /\ n + 1 - 1 = n
    <2>1. n \in 1..n
        BY <1>0, <1>1, LastFacts
    <2>2. ValidEvent(a, n, Current(a))
        BY <1>0, <2>1 DEF StreamsValid, Current
    <2>3. n >= 2
        BY <1>2, <2>2 DEF ValidEvent
    <2> QED
        BY <1>3, <2>1, <2>3
<1>5. events'[a][n] = Current(a)
    BY <1>0, <1>3, <1>4 DEF Current
<1>6. closure'[a] = [ack |-> k, seq |-> n, head |-> Current(a), closedAt |-> now]
    BY <1>0, CloseFacts, Zenon
<1>7. closure'[a] # None
    <2>1. closure'[a] \in Closure
        BY <1>1, <1>3, <1>6 DEF Closure
    <2> QED
        BY <2>1, NoRowAssumption
<1>8. IF disps[a] = <<>> THEN k.dispo = None
      ELSE /\ verifyEffectDispositionRecord(a, LastDisposition(a))'
           /\ LastDisposition(a).seq = n /\ LastDisposition(a).head = Current(a)
           /\ LastDisposition(a).action # "HOLD"
           /\ k.dispo = LastDisposition(a).id /\ k.recon = LastDisposition(a).ref
    <2>1. CASE disps[a] = <<>>
        BY <1>2, <2>1 DEF effectAcknowledgementMatchesDisposition
    <2>2. CASE disps[a] # <<>>
        <3>1. /\ LastDisposition(a).seq = n /\ LastDisposition(a).head = Current(a)
              /\ LastDisposition(a).action # "HOLD"
              /\ k.dispo = LastDisposition(a).id /\ k.recon = LastDisposition(a).ref
            BY <1>0, <1>2, <2>2 DEF effectAcknowledgementMatchesDisposition, Current
        <3>2. Len(disps[a]) \in 1..Len(disps[a])
            BY <2>2, LastFacts DEF TypeOK
        <3>3. verifyEffectDispositionRecord(a, LastDisposition(a))'
            BY <1>2, <3>2, DispositionsStep
            DEF DispositionsRecoverable, LastDisposition
        <3> QED
            BY <2>2, <3>1, <3>3
    <2> QED
        BY <2>1, <2>2
<1>9. effectAcknowledgementMatchesDisposition(a, k, n, FALSE)'
    BY <1>2, <1>3, <1>5, <1>8
    DEF effectAcknowledgementMatchesDisposition, LastDisposition
<1>10. Len(events'[a]) = n + 1 /\ Len(events'[a]) >= 3 /\ Len(events'[a]) - 1 = n
    BY <1>3, <1>4
<1>11. /\ effectAcknowledgementMatchesReservation(
            closure[a].ack, events[a][Len(events[a]) - 1])'
       /\ effectAcknowledgementMatchesDisposition(
            a, closure[a].ack, Len(events[a]) - 1, FALSE)'
    <2>1. closure'[a].ack = k
        BY <1>6
    <2> QED
        BY <1>2, <1>5, <1>9, <1>10, <2>1
        DEF effectAcknowledgementMatchesReservation,
            effectAcknowledgementMatchesDisposition
<1>12. /\ closure'[a].head = Current(a) /\ closure'[a].seq = n
       /\ e.prior = Current(a).state
       /\ closure'[a].ack.outcome = e.outcome /\ closure'[a].ack.recon = e.recon
       /\ closure'[a].ack.exec = e.exec /\ closure'[a].ack.intent = e.intent
       /\ closure'[a].ack.effect = e.effect /\ closure'[a].closedAt = e.at
    <2>1. /\ e.prior = Current(a).state /\ e.at = now
          /\ e.exec = k.exec /\ e.intent = k.intent /\ e.effect = k.effect
          /\ e.outcome = k.outcome /\ e.recon = k.recon
        BY <1>0, <1>1, CompletedFacts
    <2> QED
        BY <1>6, <2>1
<1> QED
    BY <1>3, <1>5, <1>7, <1>10, <1>11, <1>12 DEF verifyEffectClosureRecord

\* Closures verify after every step: a closed stream no longer changes, and a
\* close leaves a closure that verifies.
LEMMA ClosureStep ==
    ASSUME TypeOK, StreamsValid, DispositionsRecoverable, ClosureRecoverable,
           [Next]_vars
    PROVE  ClosureRecoverable'
<1> SUFFICES ASSUME NEW a \in Admissions, Has(a, "COMPLETED")'
             PROVE  verifyEffectClosureRecord(a)'
    BY DEF ClosureRecoverable
<1>1. CASE Has(a, "COMPLETED")
    <2>1. verifyEffectClosureRecord(a)
        BY <1>1 DEF ClosureRecoverable
    <2>2. /\ events'[a] = events[a] /\ disps'[a] = disps[a]
          /\ closure'[a] = closure[a]
        BY <1>1, CompletedIsFinal
    <2> QED
        BY <2>1, <2>2
        DEF verifyEffectClosureRecord, effectAcknowledgementMatchesDisposition,
            effectAcknowledgementMatchesReservation, LastDisposition,
            verifyEffectDispositionRecord, CommandMatchesReservation, ValidCommand
<1>2. CASE ~Has(a, "COMPLETED")
    BY <1>2, CompletedWriter, CloseVerifies
<1> QED
    BY <1>1, <1>2

\* Every closed reservation passes recovery's verification ever after.
THEOREM ClosuresStayRecoverable == Spec => []ClosureRecoverable
<1> DEFINE Inv == /\ TypeOK /\ StreamsValid /\ DispositionsRecoverable
                  /\ ClosureRecoverable
<1>1. Init => Inv
    BY TypeInit
    DEF Init, StreamsValid, DispositionsRecoverable, ClosureRecoverable, Has
<1>2. Inv /\ [Next]_vars => Inv'
    BY TypeStep, StreamsValidStep, DispositionsStep, ClosureStep
<1> QED
    BY <1>1, <1>2, PTL DEF Spec

=============================================================================

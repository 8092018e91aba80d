----------------------- MODULE GovernedDispatchProofs -----------------------
(***************************************************************************)
(* Proofs that concurrent governed calls send each approved effect at most *)
(* once and report truthfully, for any number of calls, processes,         *)
(* admissions and faults, and that they implement GovernedEffect.          *)
(*                                                                         *)
(* The store of a call is the store of EffectReservation: every step of    *)
(* DispatchNext is a step of Next or leaves the store alone, so what       *)
(* EffectReservationProofs shows about the streams is used here.           *)
(***************************************************************************)
EXTENDS GovernedDispatch, EffectReservationProofs

-----------------------------------------------------------------------------
(* The inductive invariant *)

Reports == {"not_dispatched", "admitted", "started", "not_started", "uncertain",
            "dispatch_failed", "no_dispatch_proof", "dispatched"}
CallRow == [pc : InFlight \cup {"idle", "returned", "crashed"}, permit : Nat,
            err : BOOLEAN, via : {"none", "replay", "permit", "receipt"},
            report : Reports \cup {"none"}]

\* The second row of a stream decides between start and resolution.
Second(a, state) == Len(events[a]) >= 2 /\ events[a][2].state = state

\* The stream of c's admission names c, with the permit of its row n, as the
\* call that started it.
StartedBy(c, n) ==
    LET a == EffectOf[c] IN
    /\ Second(a, "STARTED")
    /\ events[a][2].exec = n.permit
    /\ events[a][2].intent = c

\* Where a call stands before its request leaves.
Unsent == {"idle", "admit", "nonce", "ready", "resolve", "resolve2", "resolve3",
           "connector", "reject", "start", "denied", "ambiguous", "dispatch"}

\* Where a call still has to resolve a reservation that is ADMITTED.
Resolving == {"nonce", "ready", "resolve", "connector", "reject", "start",
              "denied", "ambiguous"}

\* What a call in row n knows at each point of its program, and what its
\* answer means.
PointOK(c, n) ==
    LET a == EffectOf[c] IN
    /\ n.pc \in InFlight => n.permit \in 1..MaxTime
    /\ n.pc \in InFlight \ {"admit"} => events[a] # <<>>
    /\ n.pc # "returned" => n.report = "none"
    /\ n.pc \in Unsent => c \notin sentBy[a]
    /\ n.pc = "dispatch" \/ c \in sentBy[a] => StartedBy(c, n)
    /\ n.pc \in {"evidence", "recover"} /\ ~n.err => c \in sentBy[a] /\ a \in applied
    /\ n.pc = "seal" => c \in sentBy[a] /\ a \in applied
    /\ n.pc = "afterStart" => Second(a, "STARTED")
    /\ n.report = "dispatched" => c \in sentBy[a] /\ a \in applied
    /\ n.report \in {"not_dispatched", "no_dispatch_proof"} => c \notin sentBy[a]

CallOK(c, n) ==
    /\ PointOK(c, n)
    /\ n.report = "not_started" => Second(EffectOf[c], "NOT_STARTED")

\* A reservation in ADMITTED was admitted in the past, and unless something
\* failed some call is still going to resolve it.
AdmittedOK ==
    \A a \in Admissions : events[a] # <<>> =>
        /\ events[a][1].admittedAt <= now
        /\ faults = 0 /\ Len(events[a]) = 1 =>
             \E c \in Calls : EffectOf[c] = a /\ call[c].pc \in Resolving

\* A completed stream says what the source did, and no call is about to send.
ClosedOK ==
    \A a \in Admissions : Has(a, "COMPLETED") =>
        /\ (Current(a).outcome = "APPLIED") = (a \in applied)
        /\ \A c \in Calls : EffectOf[c] = a => call[c].pc # "dispatch"

DispatchTypes ==
    /\ TypeOK
    /\ now \in 1..MaxTime
    /\ call \in [Calls -> CallRow]
    /\ sentBy \in [Admissions -> SUBSET Calls]
    /\ \A a \in Admissions : \A c \in sentBy[a] : EffectOf[c] = a
    /\ applied \subseteq Admissions
    /\ faults \in Nat

DispatchInv ==
    /\ DispatchTypes
    /\ StreamsValid
    /\ \A c \in Calls : CallOK(c, call[c])
    /\ AdmittedOK
    /\ ClosedOK

-----------------------------------------------------------------------------
(* The streams *)

\* The position of an event in its stream follows from its state.
LEMMA Shape ==
    ASSUME TypeOK, StreamsValid, NEW a \in Admissions
    PROVE  /\ Len(events[a]) \in Nat
           /\ events[a] # <<>> <=> Len(events[a]) >= 1
           /\ \A k \in 1..Len(events[a]) :
                /\ events[a][k] \in Event
                /\ events[a][k].state = "ADMITTED" <=> k = 1
                /\ events[a][k].state = "STARTED" => k = 2
                /\ events[a][k].state = "NOT_STARTED" => k = 2 /\ k = Len(events[a])
                /\ events[a][k].state = "COMPLETED" => k >= 3 /\ k = Len(events[a])
<1>1. events[a] \in Seq(Event)
  BY DEF TypeOK
<1>2. Len(events[a]) \in Nat /\ (events[a] # <<>> <=> Len(events[a]) >= 1)
  BY <1>1
<1>3. ASSUME NEW k \in 1..Len(events[a])
      PROVE  /\ events[a][k] \in Event
             /\ events[a][k].state = "ADMITTED" <=> k = 1
             /\ events[a][k].state = "STARTED" => k = 2
             /\ events[a][k].state = "NOT_STARTED" => k = 2 /\ k = Len(events[a])
             /\ events[a][k].state = "COMPLETED" => k >= 3 /\ k = Len(events[a])
  <2>1. ValidEvent(a, k, events[a][k]) /\ events[a][k] \in Event
    BY <1>1, <1>3 DEF StreamsValid
  <2>2. /\ events[a][k].state = "ADMITTED" <=> k = 1
        /\ events[a][k].state = "STARTED" => k = 2
        /\ events[a][k].state = "NOT_STARTED" => k = 2
        /\ events[a][k].state = "COMPLETED" => k >= 3
    BY <2>1 DEF ValidEvent
  <2>3. k \in 1..(Len(events[a]) - 1) => events[a][k].state \notin {"NOT_STARTED", "COMPLETED"}
    BY DEF StreamsValid
  <2>4. k \notin 1..(Len(events[a]) - 1) => k = Len(events[a])
    BY <1>2, <1>3
  <2>5. QED
    BY <2>1, <2>2, <2>3, <2>4
<1>4. QED
  BY <1>2, <1>3

\* No step rewrites a stored event.
Grows ==
    \A a \in Admissions :
        /\ Len(events[a]) \in Nat /\ Len(events'[a]) \in Nat
        /\ Len(events[a]) <= Len(events'[a])
        /\ \A k \in 1..Len(events[a]) : events'[a][k] = events[a][k]

\* A committed transition appends one row: STARTED and NOT_STARTED as the second
\* row of their stream, STARTED with the references it was given and only while
\* the scope is not fenced.
LEMMA TransitionRow ==
    ASSUME TypeOK, StreamsValid, NEW a \in Admissions, NEW meta \in Meta,
           NEW state \in {"STARTED", "NOT_STARTED", "UNCERTAIN"},
           Transition(a, state, meta)
    PROVE  /\ Next
           /\ UNCHANGED <<now, fence, admission>>
           /\ \A b \in Admissions \ {a} : events'[b] = events[b]
           /\ Len(events[a]) \in {1, 2} /\ Len(events'[a]) = Len(events[a]) + 1
           /\ Len(events[a]) = 2 => events[a][2].state = "STARTED" /\ state = "UNCERTAIN"
           /\ events'[a][Len(events[a]) + 1].state = state
           /\ \A k \in 1..Len(events[a]) : events'[a][k] = events[a][k]
           /\ state = "STARTED" => /\ events'[a][2].exec = meta.exec
                                   /\ events'[a][2].intent = meta.intent
                                   /\ fence = 0
<1> DEFINE e == Successor(Current(a), state, meta)
<1>1. /\ events[a] # <<>> /\ Current(a) \in Event /\ e \in Event
      /\ insertEvent(a, e)
      /\ UNCHANGED <<now, fence, release, enabled, admission, disps, closure>>
  BY TransitionFacts
<1>2. events[a] \in Seq(Event) /\ now \in Nat
  BY DEF TypeOK
<1>3. events'[a] = Append(events[a], e) /\ \A b \in Admissions \ {a} : events'[b] = events[b]
  BY <1>1, InsertEventFacts
<1>4. /\ Len(events'[a]) = Len(events[a]) + 1
      /\ events'[a][Len(events[a]) + 1] = e
      /\ \A k \in 1..Len(events[a]) : events'[a][k] = events[a][k]
  <2> HIDE DEF e
  <2>1. QED
    BY <1>1, <1>2, <1>3, AppendFacts
<1>5. e.state = state
  BY <1>1, <1>2, SuccessorFacts
<1>6. Next
  BY DEF Next, MarkStarted, MarkNotStarted, MarkUncertain
<1>7. /\ Current(a).state \notin {"NOT_STARTED", "UNCERTAIN", "COMPLETED"}
      /\ Current(a).state = "STARTED" => state = "UNCERTAIN"
  BY DEF Transition, transitionOutcome
<1>8. Current(a).state \in States
  BY <1>1 DEF Event
<1>9. Len(events[a]) \in 1..Len(events[a]) /\ Current(a) = events[a][Len(events[a])]
  BY <1>1, <1>2 DEF Current
<1>10. Len(events[a]) \in {1, 2} /\ (Len(events[a]) = 2 => Current(a).state = "STARTED")
  <2>1. Current(a).state = "ADMITTED" \/ Current(a).state = "STARTED"
    BY <1>7, <1>8 DEF States
  <2>2. Current(a).state = "ADMITTED" <=> Len(events[a]) = 1
    <3>1. \A k \in 1..Len(events[a]) : events[a][k].state = "ADMITTED" <=> k = 1
      BY Shape
    <3>2. QED
      BY <1>9, <3>1
  <2>3. Current(a).state = "STARTED" => Len(events[a]) = 2
    BY <1>9, Shape
  <2>4. QED
    BY <2>1, <2>2, <2>3
<1>11. ASSUME state = "STARTED"
       PROVE  e.exec = meta.exec /\ e.intent = meta.intent /\ fence = 0
              /\ Len(events[a]) = 1
  <2>1. Current(a).state # "STARTED" /\ Len(events[a]) = 1
    BY <1>7, <1>10, <1>11
  <2>2. fence = 0
    BY <1>11, StartInterlock DEF StartPermitted
  <2>3. e.exec = meta.exec /\ e.intent = meta.intent
    BY <1>1, <2>1 DEF Successor, Event
  <2>4. QED
    BY <2>1, <2>2, <2>3
<1> HIDE DEF e
<1>12. QED
  BY <1>1, <1>3, <1>4, <1>5, <1>6, <1>7, <1>9, <1>10, <1>11

\* A reservation that is still ADMITTED can always be resolved.
LEMMA AdmittedResolvable ==
    ASSUME TypeOK, StreamsValid, NEW a \in Admissions, NEW meta \in Meta,
           NEW state \in {"NOT_STARTED", "UNCERTAIN"},
           Len(events[a]) = 1, events[a][1].admittedAt <= now,
           meta.reason # None, state = "NOT_STARTED" => meta.exec = None
    PROVE  transitionOutcome(a, state, meta) = "ok"
<1>1. events[a] # <<>> /\ Current(a) = events[a][1] /\ events[a][1] \in Event
  BY Shape DEF Current
<1>2. Current(a).state = "ADMITTED"
  BY <1>1, Shape
<1>3. /\ ValidEvent(a, 1, Current(a)) /\ now \in Nat /\ Current(a) \in Event
      /\ Current(a).admittedAt <= now
  <2>1. ValidEvent(a, 1, events[a][1])
    BY DEF StreamsValid
  <2>2. QED
    BY <1>1, <2>1 DEF TypeOK
<1>4. PICK current : current = Current(a)
  OBVIOUS
<1>5. /\ admission[a].issuedAt <= current.admittedAt
      /\ current.admittedAt < admission[a].expiresAt
      /\ current.startedAt = 0 /\ NoCloseMetadata(current)
  BY <1>2, <1>3, <1>4 DEF ValidEvent
<1>6. PICK e : e = Successor(current, state, meta)
  OBVIOUS
<1>7. /\ e.state = state /\ e.admittedAt = current.admittedAt /\ e.at = now
      /\ e.startedAt = 0 /\ e.reason = meta.reason /\ e.exec = meta.exec
      /\ e.prior = current.prior /\ e.outcome = current.outcome
      /\ e.recon = current.recon
  BY <1>2, <1>3, <1>4, <1>5, <1>6 DEF Successor, Event
<1>8. ValidEvent(a, 2, e)
  BY <1>3, <1>4, <1>5, <1>7 DEF ValidEvent, NoCloseMetadata
<1>9. QED
  BY <1>1, <1>2, <1>4, <1>6, <1>8 DEF transitionOutcome

-----------------------------------------------------------------------------
(* One step of one call *)

\* What a call knows stays true while streams grow and others send.
LEMMA CallStays ==
    ASSUME NEW c \in Calls, NEW n \in CallRow, CallOK(c, n), Grows,
           sentBy[EffectOf[c]] \subseteq sentBy'[EffectOf[c]],
           c \in sentBy'[EffectOf[c]] => c \in sentBy[EffectOf[c]],
           applied \subseteq applied', TypeOK, TypeOK'
    PROVE  CallOK(c, n)'
<1>1. EffectOf[c] \in Admissions
  BY CallsAssumption
<1>2. PICK a \in Admissions : a = EffectOf[c]
  BY <1>1
<1>3. \A st : Second(a, st) => Second(a, st)' /\ events'[a][2] = events[a][2]
  BY DEF Second, Grows
<1>4. events[a] # <<>> => events'[a] # <<>>
  <2>1. events[a] \in Seq(Event) /\ events'[a] \in Seq(Event)
    BY DEF TypeOK
  <2>2. Len(events[a]) <= Len(events'[a])
    BY DEF Grows
  <2>3. QED
    BY <2>1, <2>2
<1>5. StartedBy(c, n) => StartedBy(c, n)'
  BY <1>2, <1>3 DEF StartedBy
<1>6. PointOK(c, n) => PointOK(c, n)'
  BY <1>2, <1>3, <1>4, <1>5 DEF PointOK
<1>7. QED
  BY <1>2, <1>3, <1>6 DEF CallOK

\* What a step of c may do to the network: send the request of c, which the
\* source may apply, unless its stream is completed.
SendsOnly(c) ==
    /\ sentBy' \in [Admissions -> SUBSET Calls]
    /\ \A b \in Admissions :
         /\ sentBy[b] \subseteq sentBy'[b]
         /\ sentBy'[b] \subseteq sentBy[b] \cup (IF b = EffectOf[c] THEN {c} ELSE {})
    /\ applied \subseteq applied' /\ applied' \subseteq applied \cup {EffectOf[c]}
    /\ Has(EffectOf[c], "COMPLETED") => applied' = applied

\* A call moves to row n over a step of the store: what the step must satisfy
\* for the invariant to be preserved.
LEMMA CallKeeps ==
    ASSUME DispatchInv, NEW c \in Calls, NEW n \in CallRow, Goto(c, n),
           [Next]_vars, now' = now, SendsOnly(c), faults' \in Nat,
           CallOK(c, n)',
           \A b \in Admissions : Has(b, "COMPLETED")' => Has(b, "COMPLETED"),
           n.pc = "dispatch" => ~Has(EffectOf[c], "COMPLETED")',
           \A b \in Admissions : events[b] = <<>> /\ events'[b] # <<>> =>
               /\ events'[b][1].admittedAt <= now
               /\ faults' = 0 => EffectOf[c] = b /\ n.pc \in Resolving,
           faults' = 0 =>
               /\ faults = 0
               /\ call[c].pc \in Resolving =>
                    n.pc \in Resolving \/ Len(events'[EffectOf[c]]) # 1
    PROVE  DispatchInv'
<1>1. TypeOK /\ StreamsValid /\ call \in [Calls -> CallRow]
  BY DEF DispatchInv, DispatchTypes
<1>2. TypeOK' /\ StreamsValid' /\ Grows
  BY <1>1, TypeStep, StreamsValidStep, EventsOnlyAppended DEF Grows
<1>3. /\ call' \in [Calls -> CallRow] /\ call'[c] = n
      /\ \A d \in Calls \ {c} : call'[d] = call[d]
  BY <1>1 DEF Goto
<1>4. EffectOf \in [Calls -> Admissions]
  BY CallsAssumption
<1>5. DispatchTypes'
  <2>1. now' \in 1..MaxTime
    BY DEF DispatchInv, DispatchTypes
  <2>2. applied' \subseteq Admissions
    BY <1>4 DEF DispatchInv, DispatchTypes, SendsOnly
  <2>3. ASSUME NEW b \in Admissions, NEW d \in sentBy'[b] PROVE EffectOf[d] = b
    BY <2>3 DEF DispatchInv, DispatchTypes, SendsOnly
  <2>4. sentBy' \in [Admissions -> SUBSET Calls]
    BY DEF SendsOnly
  <2>5. QED
    BY <1>2, <1>3, <2>1, <2>2, <2>3, <2>4 DEF DispatchTypes
<1>6. ASSUME NEW d \in Calls PROVE CallOK(d, call[d])'
  <2>1. CASE d = c
    BY <1>3, <2>1 DEF CallOK, PointOK, StartedBy
  <2>2. CASE d # c
    <3>1. PICK m \in CallRow : m = call[d]
      BY <1>1
    <3>2. CallOK(d, m)
      BY <3>1 DEF DispatchInv
    <3>3. EffectOf[d] \in Admissions
      BY <1>4
    <3>4. /\ sentBy[EffectOf[d]] \subseteq sentBy'[EffectOf[d]]
          /\ d \in sentBy'[EffectOf[d]] => d \in sentBy[EffectOf[d]]
          /\ applied \subseteq applied'
      BY <2>2, <3>3 DEF SendsOnly
    <3>5. CallOK(d, m)'
      BY <1>1, <1>2, <3>2, <3>4, CallStays
    <3>6. call'[d] = m
      BY <1>3, <2>2, <3>1
    <3>7. QED
      BY <3>5, <3>6 DEF CallOK, PointOK, StartedBy
  <2>3. QED
    BY <2>1, <2>2
<1>7. AdmittedOK'
  <2>1. ASSUME NEW b \in Admissions, events'[b] # <<>>
        PROVE  /\ events'[b][1].admittedAt <= now'
               /\ faults' = 0 /\ Len(events'[b]) = 1 =>
                    \E d \in Calls : EffectOf[d] = b /\ call'[d].pc \in Resolving
    <3>1. CASE events[b] = <<>>
      BY <1>3, <2>1, <3>1
    <3>2. CASE events[b] # <<>>
      <4>1. Len(events[b]) >= 1 /\ Len(events[b]) \in Nat
        BY <1>1, <3>2, Shape
      <4>2. events'[b][1] = events[b][1] /\ events[b][1].admittedAt <= now
        BY <1>2, <3>2, <4>1 DEF Grows, DispatchInv, AdmittedOK
      <4>3. ASSUME faults' = 0, Len(events'[b]) = 1
            PROVE  \E d \in Calls : EffectOf[d] = b /\ call'[d].pc \in Resolving
        <5>1. Len(events[b]) = 1 /\ faults = 0
          <6>1. Len(events[b]) <= Len(events'[b])
            BY <1>2 DEF Grows
          <6>2. faults = 0
            BY <4>3
          <6>3. PICK L \in Nat : L = Len(events[b])
            BY <4>1
          <6>4. L <= 1 /\ L >= 1
            BY <4>1, <4>3, <6>1, <6>3
          <6>5. L = 1
            BY <6>4
          <6>6. QED
            BY <6>2, <6>3, <6>5
        <5>2. PICK d \in Calls : EffectOf[d] = b /\ call[d].pc \in Resolving
          BY <3>2, <5>1 DEF DispatchInv, AdmittedOK
        <5>3. call'[d].pc \in Resolving
          BY <1>3, <4>3, <5>2
        <5>4. QED
          BY <5>2, <5>3
      <4>4. QED
        BY <4>2, <4>3
    <3>3. QED
      BY <3>1, <3>2
  <2>2. QED
    BY <2>1 DEF AdmittedOK
<1>8. ClosedOK'
  <2>1. ASSUME NEW b \in Admissions, Has(b, "COMPLETED")'
        PROVE  /\ ((Current(b).outcome = "APPLIED") = (b \in applied))'
               /\ \A d \in Calls : EffectOf[d] = b => call'[d].pc # "dispatch"
    <3>1. Has(b, "COMPLETED")
      BY <2>1
    <3>2. events'[b] = events[b]
      BY <1>1, <3>1, CompletedIsFinal
    <3>3. /\ (Current(b).outcome = "APPLIED") = (b \in applied)
          /\ \A d \in Calls : EffectOf[d] = b => call[d].pc # "dispatch"
      BY <3>1 DEF DispatchInv, ClosedOK
    <3>4. b \in applied' <=> b \in applied
      BY <3>1 DEF SendsOnly
    <3>5. (Current(b).outcome = "APPLIED")' <=> (Current(b).outcome = "APPLIED")
      BY <3>2 DEF Current
    <3>6. ASSUME NEW d \in Calls, EffectOf[d] = b PROVE call'[d].pc # "dispatch"
      BY <1>3, <2>1, <3>3, <3>6
    <3>7. QED
      BY <3>3, <3>4, <3>5, <3>6
  <2>2. QED
    BY <2>1 DEF ClosedOK
<1>9. QED
  BY <1>2, <1>5, <1>6, <1>7, <1>8 DEF DispatchInv

\* A call moves and neither the store nor the network changes.
LEMMA LocalKeeps ==
    ASSUME DispatchInv, NEW c \in Calls, NEW n \in CallRow, Goto(c, n),
           StoreUnchanged, UNCHANGED <<sentBy, applied>>, NoFault \/ Fault,
           CallOK(c, n), n.pc # "dispatch",
           NoFault /\ call[c].pc \in Resolving =>
               n.pc \in Resolving \/ Len(events[EffectOf[c]]) # 1
    PROVE  DispatchInv'
<1>1. events' = events /\ now' = now /\ [Next]_vars
  BY DEF StoreUnchanged, vars
<1>2. faults \in Nat
  BY DEF DispatchInv, DispatchTypes
<1>3. faults' \in Nat /\ (faults' = 0 => faults = 0 /\ NoFault)
  BY <1>2 DEF NoFault, Fault
<1>4. CallOK(c, n)'
  BY <1>1 DEF CallOK, PointOK, StartedBy, Second
<1>5. \A b \in Admissions : Has(b, "COMPLETED")' => Has(b, "COMPLETED")
  BY <1>1 DEF Has
<1>6. SendsOnly(c)
  BY DEF SendsOnly, DispatchInv, DispatchTypes
<1>7. QED
  BY <1>1, <1>3, <1>4, <1>5, <1>6, CallKeeps

\* The rows a call moves to: what At, Failed and Return write.
LEMMA RowFacts ==
    ASSUME NEW c \in Calls, call[c] \in CallRow
    PROVE  /\ \A pc \in InFlight \cup {"crashed"} :
                /\ At(c, pc) \in CallRow /\ At(c, pc).pc = pc
                /\ At(c, pc).permit = call[c].permit
                /\ At(c, pc).err <=> call[c].err
                /\ At(c, pc).report = call[c].report
           /\ \A pc \in InFlight :
                /\ Failed(c, pc) \in CallRow /\ Failed(c, pc).pc = pc
                /\ Failed(c, pc).permit = call[c].permit /\ Failed(c, pc).err
                /\ Failed(c, pc).report = call[c].report
           /\ \A rep \in Reports :
                /\ Return(c, rep) \in CallRow /\ Return(c, rep).pc = "returned"
                /\ Return(c, rep).permit = call[c].permit
                /\ Return(c, rep).report = rep
<1>1. ASSUME NEW pc \in InFlight \cup {"crashed"}
      PROVE  /\ At(c, pc) \in CallRow /\ At(c, pc).pc = pc
             /\ At(c, pc).permit = call[c].permit
             /\ At(c, pc).err <=> call[c].err
             /\ At(c, pc).report = call[c].report
  <2>1. At(c, pc) = [call[c] EXCEPT !.pc = pc]
    BY DEF At
  <2>2. At(c, pc) \in CallRow
    BY <2>1 DEF CallRow
  <2>3. At(c, pc).pc = pc /\ At(c, pc).permit = call[c].permit
        /\ At(c, pc).report = call[c].report
    BY <2>1 DEF CallRow
  <2>4. At(c, pc).err <=> call[c].err
    BY <2>1 DEF CallRow
  <2>5. QED
    BY <2>2, <2>3, <2>4
<1>2. ASSUME NEW pc \in InFlight
      PROVE  /\ Failed(c, pc) \in CallRow /\ Failed(c, pc).pc = pc
             /\ Failed(c, pc).permit = call[c].permit /\ Failed(c, pc).err
             /\ Failed(c, pc).report = call[c].report
  BY DEF Failed, CallRow
<1>3. ASSUME NEW rep \in Reports
      PROVE  /\ Return(c, rep) \in CallRow /\ Return(c, rep).pc = "returned"
             /\ Return(c, rep).permit = call[c].permit
             /\ Return(c, rep).report = rep
  BY DEF Return, CallRow
<1>4. QED
  BY <1>1, <1>2, <1>3

\* A call that has its reservation moves on.
LEMMA MoveOK ==
    ASSUME NEW c \in Calls, CallOK(c, call[c]), NEW n \in CallRow,
           call[c].pc \in InFlight \ {"admit"}, n.pc \in InFlight \ {"admit", "dispatch"},
           n.permit = call[c].permit, n.report = "none",
           n.pc \in Unsent => call[c].pc \in Unsent,
           n.pc \in {"evidence", "recover"} =>
               n.err \/ (c \in sentBy[EffectOf[c]] /\ EffectOf[c] \in applied),
           n.pc = "seal" => c \in sentBy[EffectOf[c]] /\ EffectOf[c] \in applied,
           n.pc = "afterStart" => Second(EffectOf[c], "STARTED")
    PROVE  CallOK(c, n)
<1>1. StartedBy(c, call[c]) => StartedBy(c, n)
  BY DEF StartedBy
<1>2. n.pc # "returned" /\ n.report \notin {"not_started", "dispatched",
                                            "not_dispatched", "no_dispatch_proof"}
  BY DEF InFlight
<1>3. QED
  BY <1>1, <1>2 DEF CallOK, PointOK

\* A call returns: a refusal only before its request has left, "dispatched" only
\* after the source applied it.
LEMMA ReturnOK ==
    ASSUME NEW c \in Calls, CallOK(c, call[c]), NEW n \in CallRow,
           n.pc = "returned", n.permit = call[c].permit,
           n.report = "dispatched" =>
               c \in sentBy[EffectOf[c]] /\ EffectOf[c] \in applied,
           n.report \in {"not_dispatched", "no_dispatch_proof"} => call[c].pc \in Unsent
    PROVE  PointOK(c, n)
<1>1. StartedBy(c, call[c]) => StartedBy(c, n)
  BY DEF StartedBy
<1>2. QED
  BY <1>1 DEF CallOK, PointOK, InFlight, Unsent

\* Every lifecycle call that records a resolution: the store grows by a
\* transition or stays, and without a fault the reservation is no longer ADMITTED.
LEMMA PersistKeeps ==
    ASSUME DispatchInv, NEW c \in Calls, NEW meta \in Meta,
           NEW state \in {"NOT_STARTED", "UNCERTAIN"},
           meta.reason # None, state = "NOT_STARTED" => meta.exec = None,
           NEW s \in CallRow, NEW e \in CallRow,
           Persist(c, state, meta, s, e), LocalUnchanged,
           events[EffectOf[c]] # <<>>,
           s.pc # "dispatch", e.pc # "dispatch",
           PointOK(c, s), s.report = "not_started" => state = "NOT_STARTED",
           CallOK(c, e)
    PROVE  DispatchInv'
<1>1. PICK a \in Admissions : a = EffectOf[c]
  BY CallsAssumption
<1>2. TypeOK /\ StreamsValid /\ faults \in Nat
  BY DEF DispatchInv, DispatchTypes
<1>3. UNCHANGED <<sentBy, applied>>
  BY DEF LocalUnchanged
<1>4. /\ Len(events[a]) \in Nat /\ Len(events[a]) >= 1
      /\ events[a][1].admittedAt <= now
  BY <1>1, <1>2, Shape DEF DispatchInv, AdmittedOK
<1>5. Len(events[a]) = 1 => transitionOutcome(a, state, meta) = "ok"
  BY <1>2, <1>4, AdmittedResolvable
<1>6. ASSUME StoreUnchanged, NEW n \in CallRow, Goto(c, n), CallOK(c, n),
             n.pc # "dispatch", Fault \/ (NoFault /\ Len(events[a]) # 1)
      PROVE  DispatchInv'
  <2>1. NoFault => Len(events[a]) # 1
    BY <1>2, <1>6 DEF NoFault, Fault
  <2>2. QED
    BY <1>1, <1>3, <1>6, <2>1, LocalKeeps
<1>7. ASSUME transitionOutcome(a, state, meta) = "replay"
      PROVE  CallOK(c, s)
  <2>1. Current(a).state = state
    BY <1>7 DEF transitionOutcome
  <2>2. state = "NOT_STARTED" => Second(a, "NOT_STARTED")
    BY <1>2, <1>4, <2>1, Shape DEF Current, Second
  <2>3. QED
    BY <1>1, <2>2 DEF CallOK
<1>8. ASSUME Transition(a, state, meta), NEW n \in CallRow, Goto(c, n),
             n.pc # "dispatch", PointOK(c, n),
             n.report = "not_started" => n = e \/ state = "NOT_STARTED",
             NoFault \/ Fault
      PROVE  DispatchInv'
  <2>1. /\ Next /\ now' = now
        /\ \A b \in Admissions \ {a} : events'[b] = events[b]
        /\ Len(events[a]) \in {1, 2} /\ Len(events'[a]) = Len(events[a]) + 1
        /\ Len(events[a]) = 2 => state = "UNCERTAIN"
        /\ events'[a][Len(events[a]) + 1].state = state
    BY <1>2, <1>8, TransitionRow
  <2>2. TypeOK' /\ Grows
    BY <1>2, <2>1, TypeStep, EventsOnlyAppended DEF Grows
  <2>3. CallOK(c, n)'
    <3>1. EffectOf[c] \in Admissions
      BY <1>1
    <3>2. state = "NOT_STARTED" => Second(a, "NOT_STARTED")'
      <4>1. state = "NOT_STARTED" => Len(events[a]) = 1
        BY <2>1
      <4>2. Len(events[a]) = 1 => Len(events'[a]) = 2 /\ events'[a][2].state = state
        BY <2>1
      <4>3. QED
        BY <4>1, <4>2 DEF Second
    <3>3. CASE n = e
      BY <1>2, <1>3, <2>2, <3>3, CallStays
    <3>4. CASE n # e
      <4>1. PICK m \in CallRow : m = [n EXCEPT !.report = "none"]
        BY <1>8 DEF CallRow
      <4>2. n.report = "not_started" => Second(a, "NOT_STARTED")'
        BY <1>8, <3>2, <3>4
      <4>3. PointOK(c, n)'
        <5>1. \A st : Second(a, st) => Second(a, st)' /\ events'[a][2] = events[a][2]
          BY <2>2 DEF Second, Grows
        <5>2. events'[a] # <<>>
          BY <1>1, <2>1
        <5>3. StartedBy(c, n) => StartedBy(c, n)'
          BY <1>1, <5>1 DEF StartedBy
        <5>4. QED
          BY <1>1, <1>3, <1>8, <5>1, <5>2, <5>3 DEF PointOK
      <4>4. QED
        BY <1>1, <4>2, <4>3 DEF CallOK
    <3>5. QED
      BY <3>3, <3>4
  <2>4. \A b \in Admissions : Has(b, "COMPLETED")' => Has(b, "COMPLETED")
    <3>1. ASSUME NEW b \in Admissions, NEW k \in 1..Len(events'[b]),
                 events'[b][k].state = "COMPLETED"
          PROVE  Has(b, "COMPLETED")
      <4>1. CASE b # a
        BY <2>1, <3>1, <4>1 DEF Has
      <4>2. CASE b = a
        <5>1. k \in 1..Len(events[a]) \/ k = Len(events[a]) + 1
          BY <1>4, <2>1, <3>1, <4>2
        <5>2. k \in 1..Len(events[a])
          BY <2>1, <3>1, <4>2, <5>1
        <5>3. QED
          BY <2>2, <3>1, <4>2, <5>2 DEF Has, Grows
      <4>3. QED
        BY <4>1, <4>2
    <3>2. QED
      BY <3>1 DEF Has
  <2>5. faults' \in Nat /\ (faults' = 0 => faults = 0)
    BY <1>2, <1>8 DEF NoFault, Fault
  <2>6. SendsOnly(c)
    BY <1>3 DEF SendsOnly, DispatchInv, DispatchTypes
  <2>7. \A b \in Admissions : events[b] = <<>> => events'[b] = <<>>
    BY <1>1, <2>1
  <2>8. Len(events'[EffectOf[c]]) # 1
    BY <1>1, <2>1
  <2>9. QED
    BY <1>8, <2>1, <2>3, <2>4, <2>5, <2>6, <2>7, <2>8, CallKeeps
<1>9. CASE Transition(a, state, meta) /\ Goto(c, s) /\ NoFault
  BY <1>8, <1>9
<1>10. CASE Transition(a, state, meta) /\ Goto(c, e) /\ Fault
  BY <1>8, <1>10 DEF CallOK
<1>11. CASE transitionOutcome(a, state, meta) = "replay" /\ Goto(c, s) /\ NoFault
            /\ StoreUnchanged
  BY <1>5, <1>6, <1>7, <1>11
<1>12. CASE transitionOutcome(a, state, meta) \notin {"ok", "replay"} /\ Goto(c, e)
            /\ NoFault /\ StoreUnchanged
  BY <1>5, <1>6, <1>12
<1>13. CASE Goto(c, e) /\ Fault /\ StoreUnchanged
  BY <1>6, <1>13
<1>14. QED
  BY <1>1, <1>9, <1>10, <1>11, <1>12, <1>13 DEF Persist

-----------------------------------------------------------------------------
(* The steps of a call *)

\* The initial states satisfy the invariant.
LEMMA DispatchInvInit == DispatchInit => DispatchInv
<1> SUFFICES ASSUME DispatchInit PROVE DispatchInv
  OBVIOUS
<1>1. Init /\ TypeOK /\ events = [a \in Admissions |-> <<>>] /\ now = 1
  BY TypeInit DEF DispatchInit, Init
<1>2. StreamsValid /\ AdmittedOK /\ ClosedOK
  BY <1>1 DEF StreamsValid, AdmittedOK, ClosedOK, Has
<1>3. PICK n : n = [pc |-> "idle", permit |-> 0, err |-> FALSE, via |-> "none",
                    report |-> "none"]
  OBVIOUS
<1>4. n \in CallRow /\ n.pc = "idle" /\ n.report = "none"
  BY <1>3 DEF CallRow
<1>5. call = [c \in Calls |-> n] /\ sentBy = [a \in Admissions |-> {}]
      /\ applied = {} /\ faults = 0
  BY <1>3 DEF DispatchInit
<1>6. ASSUME NEW c \in Calls PROVE CallOK(c, call[c])
  <2>1. call[c] = n /\ c \notin sentBy[EffectOf[c]]
    BY <1>5, CallsAssumption
  <2>2. QED
    BY <1>4, <2>1 DEF CallOK, PointOK, InFlight
<1>7. DispatchTypes
  BY <1>1, <1>4, <1>5, CallsAssumption, BoundsAssumption DEF DispatchTypes
<1>8. QED
  BY <1>2, <1>6, <1>7 DEF DispatchInv

\* What every call may rely on before its step.
LEMMA CallFacts ==
    ASSUME DispatchInv, NEW c \in Calls
    PROVE  /\ call[c] \in CallRow /\ CallOK(c, call[c]) /\ EffectOf[c] \in Admissions
           /\ call[c].pc # "returned" => call[c].report = "none"
           /\ call[c].pc \in InFlight => call[c].permit \in 1..MaxTime
           /\ call[c].pc \in InFlight \ {"admit"} => events[EffectOf[c]] # <<>>
BY CallsAssumption DEF DispatchInv, DispatchTypes, CallOK, PointOK

\* The metadata of every lifecycle call is typed and names its reason.
LEMMA MetaFacts ==
    ASSUME NEW c \in Calls, NEW reason \in Reasons
    PROVE  /\ Refless(reason) \in Meta /\ Refless(reason).reason # None
           /\ Refless(reason).exec = None
           /\ \A intent \in {None, c} :
                LET m == [Refless(reason) EXCEPT !.intent = intent] IN
                m \in Meta /\ m.reason # None /\ m.exec = None
           /\ call[c].permit \in 1..MaxTime =>
                \A effect \in {None, c} :
                  LET m == Identified(c, reason, effect) IN
                  m \in Meta /\ m.reason # None
<1>1. reason # None /\ c \in Intents /\ c \in Effects
  BY CallsAssumption, NoneAssumption
<1>2. Refless(reason) \in Meta /\ Refless(reason).reason # None
      /\ Refless(reason).exec = None
  BY <1>1 DEF Refless, Meta, OptReason, OptExec, OptIntent, OptEffect
<1>3. ASSUME NEW intent \in {None, c}
      PROVE  LET m == [Refless(reason) EXCEPT !.intent = intent] IN
             m \in Meta /\ m.reason # None /\ m.exec = None
  BY <1>1 DEF Refless, Meta, OptReason, OptExec, OptIntent, OptEffect
<1>4. ASSUME call[c].permit \in 1..MaxTime, NEW effect \in {None, c}
      PROVE  LET m == Identified(c, reason, effect) IN
             m \in Meta /\ m.reason # None
  <2>1. call[c].permit \in Execs
    BY <1>4, CallsAssumption
  <2>2. QED
    BY <1>1, <2>1 DEF Identified, Meta, OptReason, OptExec, OptIntent, OptEffect
<1>5. QED
  BY <1>2, <1>3, <1>4

\* A call that has its reservation goes on locally to another point before its
\* request leaves.
LEMMA BeforeSend ==
    ASSUME DispatchInv, NEW c \in Calls, NEW n \in CallRow, Goto(c, n),
           StoreUnchanged, UNCHANGED <<sentBy, applied>>, NoFault \/ Fault,
           call[c].pc \in (Unsent \cap InFlight) \ {"admit"},
           n.pc \in (Unsent \cap InFlight) \ {"admit", "dispatch"},
           n.permit = call[c].permit, n.report = call[c].report,
           call[c].pc \in Resolving => n.pc \in Resolving
    PROVE  DispatchInv'
<1>1. CallOK(c, call[c]) /\ n.report = "none"
  BY CallFacts DEF InFlight
<1>2. n.pc \notin {"evidence", "recover", "seal", "afterStart"}
  BY DEF Unsent
<1>3. CallOK(c, n)
  BY <1>1, <1>2, MoveOK
<1>4. QED
  BY <1>3, LocalKeeps

\* A call that fails after its reservation was admitted goes on to recover it.
LEMMA FailedOK ==
    ASSUME DispatchInv, NEW c \in Calls, call[c].pc \in InFlight \ {"admit"},
           NEW pc \in {"recover", "markEvidence"}
    PROVE  /\ Failed(c, pc) \in CallRow /\ CallOK(c, Failed(c, pc))
           /\ Failed(c, pc).pc = pc /\ Failed(c, pc).report = "none"
<1>1. /\ call[c] \in CallRow /\ CallOK(c, call[c]) /\ call[c].report = "none"
  BY CallFacts DEF InFlight
<1>2. pc \in InFlight /\ pc \notin Unsent
  BY DEF InFlight, Unsent
<1>3. PICK n : n = Failed(c, pc)
  OBVIOUS
<1>4. n \in CallRow /\ n.pc = pc /\ n.permit = call[c].permit /\ n.err /\ n.report = "none"
  BY <1>1, <1>2, <1>3, RowFacts
<1>5. CallOK(c, n)
  BY <1>1, <1>2, <1>4, MoveOK
<1>6. QED
  BY <1>3, <1>4, <1>5

\* The return of a call that says nothing of what it sent, or refuses before it sent.
LEMMA PlainReturn ==
    ASSUME DispatchInv, NEW c \in Calls,
           NEW rep \in Reports \ {"dispatched"},
           rep \in {"not_dispatched", "no_dispatch_proof"} => call[c].pc \in Unsent
    PROVE  /\ Return(c, rep) \in CallRow /\ PointOK(c, Return(c, rep))
           /\ Return(c, rep).pc = "returned" /\ Return(c, rep).report = rep
           /\ rep # "not_started" => CallOK(c, Return(c, rep))
<1>1. call[c] \in CallRow /\ CallOK(c, call[c])
  BY CallFacts
<1>2. PICK n : n = Return(c, rep)
  OBVIOUS
<1>3. n \in CallRow /\ n.pc = "returned" /\ n.permit = call[c].permit /\ n.report = rep
  BY <1>1, <1>2, RowFacts
<1>4. PointOK(c, n)
  BY <1>1, <1>3, ReturnOK
<1>5. rep # "not_started" => CallOK(c, n)
  BY <1>3, <1>4 DEF CallOK
<1>6. QED
  BY <1>2, <1>3, <1>4, <1>5

\* A call returns locally.
LEMMA ReturnKeeps ==
    ASSUME DispatchInv, NEW c \in Calls, NEW rep \in Reports \ {"dispatched"},
           Goto(c, Return(c, rep)), StoreUnchanged, UNCHANGED <<sentBy, applied>>,
           NoFault \/ Fault, call[c].pc \notin Resolving,
           rep \in {"not_dispatched", "no_dispatch_proof"} => call[c].pc \in Unsent,
           rep = "not_started" => Second(EffectOf[c], "NOT_STARTED")
    PROVE  DispatchInv'
<1>1. PICK n : n = Return(c, rep)
  OBVIOUS
<1>2. n \in CallRow /\ PointOK(c, n) /\ n.pc = "returned" /\ n.report = rep
  BY <1>1, PlainReturn
<1>3. CallOK(c, n)
  BY <1>2 DEF CallOK
<1>4. QED
  BY <1>1, <1>2, <1>3, LocalKeeps

\* The report of a resolved pre-dispatch failure.
LEMMA ResolvedFacts ==
    ASSUME NEW c \in Calls, NEW state, NEW clean
    PROVE  \E rep \in Reports \ {"dispatched", "not_dispatched"} :
              /\ Resolved(c, state, clean) = Return(c, rep)
              /\ rep = "not_started" => state = "NOT_STARTED"
<1>1. PICK rep : rep = CASE call[c].via = "replay" -> dispatchStateForReservation(state)
                         [] call[c].via = "receipt" /\ ~clean -> "uncertain"
                         [] OTHER -> "no_dispatch_proof"
  OBVIOUS
<1>2. \/ call[c].via = "replay" /\ rep = dispatchStateForReservation(state)
      \/ rep = "uncertain" \/ rep = "no_dispatch_proof"
  BY <1>1
<1>3. /\ dispatchStateForReservation(state) \in {"admitted", "started", "not_started",
                                                 "uncertain", "dispatch_failed"}
      /\ dispatchStateForReservation(state) = "not_started" => state = "NOT_STARTED"
  BY DEF dispatchStateForReservation
<1>4. rep \in Reports \ {"dispatched", "not_dispatched"}
      /\ (rep = "not_started" => state = "NOT_STARTED")
  BY <1>2, <1>3 DEF Reports
<1>5. Resolved(c, state, clean) = Return(c, rep)
  BY <1>1 DEF Resolved
<1>6. QED
  BY <1>4, <1>5

\* Admit opens a stream with one row.
LEMMA AdmitRow ==
    ASSUME TypeOK, NEW a \in Admissions, Admit(a)
    PROVE  /\ Next /\ UNCHANGED <<now, fence>>
           /\ events[a] = <<>> /\ Len(events'[a]) = 1 /\ events'[a] # <<>>
           /\ events'[a][1].state = "ADMITTED" /\ events'[a][1].admittedAt = now
           /\ \A b \in Admissions \ {a} : events'[b] = events[b]
<1>1. events[a] = <<>> /\ insertEvent(a, AdmittedEvent) /\ UNCHANGED <<now, fence>>
  BY DEF Admit, admitOutcome
<1>2. PICK e : e = AdmittedEvent
  OBVIOUS
<1>3. e \in Event /\ e.state = "ADMITTED" /\ e.admittedAt = now
  BY <1>2, AdmittedFacts DEF AdmittedEvent
<1>4. events'[a] = Append(events[a], e) /\ \A b \in Admissions \ {a} : events'[b] = events[b]
  BY <1>1, <1>2, <1>3, InsertEventFacts
<1>5. events'[a] = <<e>>
  BY <1>1, <1>4
<1>6. Next
  BY DEF Next
<1>7. QED
  BY <1>1, <1>3, <1>4, <1>5, <1>6

\* BeginGovern.
LEMMA BeginKeeps ==
    ASSUME DispatchInv, NEW c \in Calls, BeginGovern(c)
    PROVE  DispatchInv'
<1>1. /\ call[c].pc = "idle" /\ StoreUnchanged /\ NoFault
      /\ UNCHANGED <<sentBy, applied>>
  BY DEF BeginGovern, LocalUnchanged
<1>2. call[c].pc \in Unsent /\ call[c].pc \notin Resolving
  BY <1>1 DEF Unsent, Resolving
<1>3. CASE Goto(c, Return(c, "not_dispatched"))
  BY <1>1, <1>2, <1>3, ReturnKeeps DEF Reports
<1>4. CASE Goto(c, [At(c, "admit") EXCEPT !.permit = now])
  <2>1. call[c] \in CallRow /\ CallOK(c, call[c]) /\ call[c].report = "none"
    BY <1>1, CallFacts
  <2>2. now \in 1..MaxTime /\ now \in Nat
    BY DEF DispatchInv, DispatchTypes, TypeOK
  <2>3. PICK n : n = [At(c, "admit") EXCEPT !.permit = now]
    OBVIOUS
  <2>4. n \in CallRow /\ n.pc = "admit" /\ n.permit = now /\ n.report = "none"
    BY <2>1, <2>2, <2>3 DEF At, CallRow, InFlight
  <2>5. c \notin sentBy[EffectOf[c]]
    BY <1>2, <2>1 DEF CallOK, PointOK
  <2>6. CallOK(c, n)
    BY <2>2, <2>4, <2>5 DEF CallOK, PointOK
  <2>7. QED
    BY <1>1, <1>2, <1>4, <2>3, <2>4, <2>6, LocalKeeps
<1>5. QED
  BY <1>3, <1>4 DEF BeginGovern

\* admitWriteReservation: admitted, answer lost, replayed, refused or failed.
LEMMA AdmitKeeps ==
    ASSUME DispatchInv, NEW c \in Calls, admitWriteReservation(c)
    PROVE  DispatchInv'
<1>1. /\ call[c].pc = "admit" /\ UNCHANGED <<sentBy, applied>>
  BY DEF admitWriteReservation, LocalUnchanged
<1>2. call[c].pc \in Unsent /\ call[c].pc \notin Resolving /\ call[c].pc \in InFlight
  BY <1>1 DEF Unsent, Resolving, InFlight
<1>3. PICK a \in Admissions : a = EffectOf[c]
  BY CallFacts
<1>4. TypeOK /\ StreamsValid /\ faults \in Nat
  BY DEF DispatchInv, DispatchTypes
<1>5. /\ call[c] \in CallRow /\ CallOK(c, call[c]) /\ call[c].report = "none"
      /\ call[c].permit \in 1..MaxTime /\ c \notin sentBy[a]
  BY <1>1, <1>2, <1>3, CallFacts DEF CallOK, PointOK
<1>6. "nonce" \in InFlight /\ "nonce" \in Resolving /\ "nonce" \in Unsent
  BY DEF InFlight, Resolving, Unsent
<1>7. PICK n : n = At(c, "nonce")
  OBVIOUS
<1>8. n \in CallRow /\ n.pc = "nonce" /\ n.permit = call[c].permit /\ n.report = "none"
  BY <1>5, <1>6, <1>7, RowFacts
<1>9. ASSUME NEW m \in CallRow, Admit(a), Goto(c, m), NoFault \/ Fault,
             faults' = 0 => m.pc \in Resolving, CallOK(c, m)', m.pc # "dispatch"
      PROVE  DispatchInv'
  <2>1. /\ Next /\ now' = now /\ events[a] = <<>> /\ Len(events'[a]) = 1
        /\ events'[a][1].state = "ADMITTED" /\ events'[a][1].admittedAt = now
        /\ \A b \in Admissions \ {a} : events'[b] = events[b]
    BY <1>4, <1>9, AdmitRow
  <2>2. faults' \in Nat /\ (faults' = 0 => faults = 0)
    BY <1>4, <1>9 DEF NoFault, Fault
  <2>3. \A b \in Admissions : Has(b, "COMPLETED")' => Has(b, "COMPLETED")
    <3>1. ASSUME NEW b \in Admissions, Has(b, "COMPLETED")' PROVE Has(b, "COMPLETED")
      <4>1. b # a
        BY <2>1, <3>1 DEF Has
      <4>2. QED
        BY <2>1, <3>1, <4>1 DEF Has
    <3>2. QED
      BY <3>1
  <2>4. SendsOnly(c)
    BY <1>1 DEF SendsOnly, DispatchInv, DispatchTypes
  <2>5. now \in Nat
    BY <1>4 DEF TypeOK
  <2>6. \A b \in Admissions : events[b] = <<>> /\ events'[b] # <<>> =>
            /\ events'[b][1].admittedAt <= now
            /\ faults' = 0 => EffectOf[c] = b /\ m.pc \in Resolving
    BY <1>3, <1>9, <2>1, <2>5
  <2>7. QED
    BY <1>2, <1>9, <2>1, <2>2, <2>3, <2>4, <2>6, CallKeeps
<1>10. CASE Admit(a) /\ Goto(c, At(c, "nonce")) /\ NoFault
  <2>1. events'[a] # <<>>
    BY <1>4, <1>10, AdmitRow
  <2>2. CallOK(c, n)'
    BY <1>1, <1>3, <1>5, <1>8, <2>1 DEF CallOK, PointOK
  <2>3. QED
    BY <1>6, <1>7, <1>8, <1>9, <1>10, <2>2
<1>11. CASE Admit(a) /\ Goto(c, Return(c, "not_dispatched")) /\ Fault
  <2>1. PICK m : m = Return(c, "not_dispatched")
    OBVIOUS
  <2>2. m \in CallRow /\ CallOK(c, m) /\ m.pc = "returned" /\ m.report = "not_dispatched"
    BY <1>2, <2>1, PlainReturn DEF Reports
  <2>3. faults' # 0
    BY <1>4, <1>11 DEF Fault
  <2>4. CallOK(c, m)'
    BY <1>1, <1>3, <1>5, <2>2 DEF CallOK, PointOK, InFlight, Unsent
  <2>5. QED
    BY <1>9, <1>11, <2>1, <2>2, <2>3, <2>4
<1>12. CASE admitOutcome(a) = "replay" /\ Goto(c, At(c, "nonce")) /\ NoFault /\ StoreUnchanged
  <2>1. events[a] # <<>>
    BY <1>12 DEF admitOutcome
  <2>2. CallOK(c, n)
    BY <1>3, <1>5, <1>8, <2>1 DEF CallOK, PointOK
  <2>3. QED
    BY <1>1, <1>2, <1>7, <1>8, <1>12, <2>2, LocalKeeps
<1>13. ASSUME NEW rep \in {"admitted", "not_dispatched"}, Goto(c, Return(c, rep)),
              NoFault \/ Fault, StoreUnchanged
       PROVE  DispatchInv'
  <2>1. rep \in Reports \ {"dispatched"} /\ rep # "not_started"
    BY DEF Reports
  <2>2. QED
    BY <1>1, <1>2, <1>13, <2>1, ReturnKeeps
<1>14. QED
  BY <1>3, <1>10, <1>11, <1>12, <1>13 DEF admitWriteReservation

\* The nonce, the evidence checks and the connector's prechecks.
LEMMA ChecksKeep ==
    ASSUME DispatchInv, NEW c \in Calls,
           consumeNonce(c) \/ checkEvidence(c) \/ connectorPrechecks(c)
    PROVE  DispatchInv'
<1>1. /\ call[c].pc \in {"nonce", "ready", "connector"} /\ StoreUnchanged
      /\ UNCHANGED <<sentBy, applied>> /\ NoFault
  BY DEF consumeNonce, checkEvidence, connectorPrechecks, LocalUnchanged
<1>2. /\ call[c].pc \in (Unsent \cap InFlight) \ {"admit"}
      /\ {"ready", "connector", "resolve", "start", "reject"}
            \subseteq ((Unsent \cap InFlight \cap Resolving) \ {"admit", "dispatch"})
  BY <1>1 DEF Unsent, InFlight, Resolving
<1>3. call[c] \in CallRow
  BY CallFacts
<1>4. ASSUME NEW pc \in {"ready", "connector", "start", "reject"}, Goto(c, At(c, pc))
      PROVE  DispatchInv'
  <2>1. PICK n : n = At(c, pc)
    OBVIOUS
  <2>2. n \in CallRow /\ n.pc = pc /\ n.permit = call[c].permit /\ n.report = call[c].report
    BY <1>2, <1>3, <2>1, RowFacts
  <2>3. QED
    BY <1>1, <1>2, <1>4, <2>1, <2>2, BeforeSend
<1>5. ASSUME NEW via \in {"replay", "permit", "receipt"},
             Goto(c, [At(c, "resolve") EXCEPT !.via = via])
      PROVE  DispatchInv'
  <2>1. PICK n : n = [At(c, "resolve") EXCEPT !.via = via]
    OBVIOUS
  <2>2. /\ At(c, "resolve") \in CallRow /\ At(c, "resolve").pc = "resolve"
        /\ At(c, "resolve").permit = call[c].permit
        /\ At(c, "resolve").report = call[c].report
    BY <1>2, <1>3, RowFacts
  <2>3. n \in CallRow /\ n.pc = "resolve" /\ n.permit = call[c].permit
        /\ n.report = call[c].report
    BY <2>1, <2>2 DEF CallRow
  <2>4. QED
    BY <1>1, <1>2, <1>5, <2>1, <2>3, BeforeSend
<1>6. QED
  BY <1>4, <1>5 DEF consumeNonce, checkEvidence, connectorPrechecks

\* resolvePreDispatchFailure: NOT_STARTED, else UNCERTAIN, else Recover.
LEMMA ResolveKeeps ==
    ASSUME DispatchInv, NEW c \in Calls,
           resolveNotStarted(c) \/ resolveUncertain(c) \/ resolveRecover(c)
    PROVE  DispatchInv'
<1>1. call[c].pc \in {"resolve", "resolve2", "resolve3"} /\ LocalUnchanged
  BY DEF resolveNotStarted, resolveUncertain, resolveRecover
<1>2. /\ call[c].pc \in (Unsent \cap InFlight) \ {"admit"}
      /\ {"resolve2", "resolve3"} \subseteq ((Unsent \cap InFlight) \ {"admit", "dispatch"})
  BY <1>1 DEF Unsent, InFlight
<1>3. /\ call[c] \in CallRow /\ CallOK(c, call[c]) /\ events[EffectOf[c]] # <<>>
      /\ call[c].report = "none" /\ EffectOf[c] \in Admissions
  BY <1>1, <1>2, CallFacts
<1>4. ASSUME NEW pc \in {"resolve2", "resolve3"}
      PROVE  At(c, pc) \in CallRow /\ CallOK(c, At(c, pc)) /\ At(c, pc).pc # "dispatch"
  <2>1. PICK n : n = At(c, pc)
    OBVIOUS
  <2>2. n \in CallRow /\ n.pc = pc /\ n.permit = call[c].permit /\ n.report = "none"
    BY <1>2, <1>3, <2>1, RowFacts
  <2>3. CallOK(c, n)
    BY <1>2, <1>3, <2>2, MoveOK
  <2>4. QED
    BY <2>1, <2>2, <2>3
<1>5. ASSUME NEW state \in {"NOT_STARTED", "UNCERTAIN"}, NEW clean \in BOOLEAN,
             NEW reason \in {"PRE_DISPATCH", "RESOLUTION_FAILED"},
             NEW pc \in {"resolve2", "resolve3"},
             Persist(c, state, Refless(reason), Resolved(c, state, clean), At(c, pc))
      PROVE  DispatchInv'
  <2>1. PICK rep \in Reports \ {"dispatched", "not_dispatched"} :
          /\ Resolved(c, state, clean) = Return(c, rep)
          /\ rep = "not_started" => state = "NOT_STARTED"
    BY ResolvedFacts
  <2>2. PICK s : s = Return(c, rep)
    OBVIOUS
  <2>3. /\ s \in CallRow /\ PointOK(c, s) /\ s.pc # "dispatch"
        /\ s.report = "not_started" => state = "NOT_STARTED"
    BY <1>2, <2>1, <2>2, PlainReturn
  <2>4. PICK e : e = At(c, pc)
    OBVIOUS
  <2>5. e \in CallRow /\ CallOK(c, e) /\ e.pc # "dispatch"
    BY <1>4, <2>4
  <2>6. PICK meta : meta = Refless(reason)
    OBVIOUS
  <2>7. meta \in Meta /\ meta.reason # None /\ meta.exec = None
    BY <2>6, MetaFacts, CallsAssumption
  <2>8. Persist(c, state, meta, s, e)
    BY <1>5, <2>1, <2>2, <2>4, <2>6
  <2>9. QED
    BY <1>1, <1>3, <2>3, <2>5, <2>7, <2>8, PersistKeeps
<1>6. CASE resolveNotStarted(c)
  BY <1>5, <1>6 DEF resolveNotStarted
<1>7. CASE resolveUncertain(c)
  BY <1>5, <1>7 DEF resolveUncertain
<1>8. CASE resolveRecover(c)
  <2>1. /\ StoreUnchanged /\ UNCHANGED <<sentBy, applied>> /\ call[c].pc = "resolve3"
    BY <1>8 DEF resolveRecover, LocalUnchanged
  <2>2. ASSUME NEW state, NEW clean \in BOOLEAN, Goto(c, Resolved(c, state, clean)),
               NoFault \/ Fault,
               state = "NOT_STARTED" => Second(EffectOf[c], "NOT_STARTED")
        PROVE  DispatchInv'
    <3>1. PICK rep \in Reports \ {"dispatched", "not_dispatched"} :
            /\ Resolved(c, state, clean) = Return(c, rep)
            /\ rep = "not_started" => state = "NOT_STARTED"
      BY ResolvedFacts
    <3>2. call[c].pc \notin Resolving /\ call[c].pc \in Unsent
      BY <2>1 DEF Resolving, Unsent
    <3>3. QED
      BY <2>1, <2>2, <3>1, <3>2, ReturnKeeps
  <2>3. PICK a \in Admissions : a = EffectOf[c]
    BY <1>3
  <2>4. Current(a).state = "NOT_STARTED" => Second(a, "NOT_STARTED")
    BY <1>3, <2>3, Shape DEF Current, Second, DispatchInv, DispatchTypes
  <2>5. QED
    BY <1>8, <2>2, <2>3, <2>4 DEF resolveRecover
<1>9. QED
  BY <1>6, <1>7, <1>8

\* The lifecycle calls after which the call goes on to recover its reservation.
LEMMA MarksKeep ==
    ASSUME DispatchInv, NEW c \in Calls,
           \/ failNotStarted(c) \/ startDenied(c) \/ startAmbiguous(c)
           \/ markEvidenceMissing(c) \/ markOutcomeUncertain(c)
    PROVE  DispatchInv'
<1>1. /\ call[c].pc \in {"reject", "denied", "ambiguous", "markEvidence", "markOutcome"}
      /\ LocalUnchanged
  BY DEF failNotStarted, startDenied, startAmbiguous, markEvidenceMissing,
         markOutcomeUncertain
<1>2. call[c].pc \in InFlight \ {"admit"}
  BY <1>1 DEF InFlight
<1>3. events[EffectOf[c]] # <<>> /\ call[c].permit \in 1..MaxTime
  BY <1>2, CallFacts
<1>4. PICK e : e = Failed(c, "recover")
  OBVIOUS
<1>5. e \in CallRow /\ CallOK(c, e) /\ PointOK(c, e) /\ e.pc # "dispatch"
      /\ e.report # "not_started"
  <2>1. e \in CallRow /\ CallOK(c, e) /\ e.pc = "recover" /\ e.report = "none"
    BY <1>2, <1>4, FailedOK
  <2>2. QED
    BY <2>1 DEF CallOK
<1>6. ASSUME NEW state \in {"NOT_STARTED", "UNCERTAIN"}, NEW meta \in Meta,
             meta.reason # None, state = "NOT_STARTED" => meta.exec = None,
             Persist(c, state, meta, Failed(c, "recover"), Failed(c, "recover"))
      PROVE  DispatchInv'
  BY <1>1, <1>3, <1>4, <1>5, <1>6, PersistKeeps
<1>7. {"REJECTED", "START_DENIED", "START_AMBIGUOUS", "EVIDENCE_MISSING",
       "OUTCOME_UNCERTAIN"} \subseteq Reasons
  BY CallsAssumption
<1>8. ASSUME NEW intent \in {None, c}, NEW reason \in {"REJECTED", "START_DENIED"},
             Persist(c, "NOT_STARTED", [Refless(reason) EXCEPT !.intent = intent],
                     Failed(c, "recover"), Failed(c, "recover"))
      PROVE  DispatchInv'
  <2>1. PICK m : m = [Refless(reason) EXCEPT !.intent = intent]
    OBVIOUS
  <2>2. m \in Meta /\ m.reason # None /\ m.exec = None
    BY <1>7, <2>1, MetaFacts
  <2>3. QED
    BY <1>6, <1>8, <2>1, <2>2
<1>9. ASSUME NEW effect \in {None, c},
             NEW reason \in {"START_AMBIGUOUS", "EVIDENCE_MISSING", "OUTCOME_UNCERTAIN"},
             Persist(c, "UNCERTAIN", Identified(c, reason, effect),
                     Failed(c, "recover"), Failed(c, "recover"))
      PROVE  DispatchInv'
  <2>1. PICK m : m = Identified(c, reason, effect)
    OBVIOUS
  <2>2. m \in Meta /\ m.reason # None
    BY <1>3, <1>7, <2>1, MetaFacts
  <2>3. QED
    BY <1>6, <1>9, <2>1, <2>2
<1>10. CASE failNotStarted(c)
  BY <1>8, <1>10 DEF failNotStarted
<1>11. CASE startDenied(c)
  BY <1>8, <1>11 DEF startDenied
<1>12. CASE startAmbiguous(c) \/ markEvidenceMissing(c) \/ markOutcomeUncertain(c)
  BY <1>9, <1>12 DEF startAmbiguous, markEvidenceMissing, markOutcomeUncertain
<1>13. QED
  BY <1>10, <1>11, <1>12

\* lifecycle.MarkStarted: only its own committed start lets a call dispatch.
LEMMA StartKeeps ==
    ASSUME DispatchInv, NEW c \in Calls, startConnector(c)
    PROVE  DispatchInv'
<1>1. call[c].pc = "start" /\ UNCHANGED <<sentBy, applied>>
  BY DEF startConnector, LocalUnchanged
<1>2. /\ call[c].pc \in (Unsent \cap InFlight) \ {"admit"}
      /\ {"denied", "ambiguous"}
            \subseteq ((Unsent \cap InFlight \cap Resolving) \ {"admit", "dispatch"})
  BY <1>1 DEF Unsent, InFlight, Resolving
<1>3. PICK a \in Admissions : a = EffectOf[c]
  BY CallFacts
<1>4. TypeOK /\ StreamsValid /\ faults \in Nat
  BY DEF DispatchInv, DispatchTypes
<1>5. /\ call[c] \in CallRow /\ CallOK(c, call[c]) /\ call[c].report = "none"
      /\ call[c].permit \in 1..MaxTime /\ c \notin sentBy[a] /\ events[a] # <<>>
  BY <1>1, <1>2, <1>3, CallFacts DEF CallOK, PointOK
<1>6. ASSUME NEW pc \in {"denied", "ambiguous"}, Goto(c, At(c, pc)),
             NoFault \/ Fault, StoreUnchanged
      PROVE  DispatchInv'
  <2>1. PICK n : n = At(c, pc)
    OBVIOUS
  <2>2. n \in CallRow /\ n.pc = pc /\ n.permit = call[c].permit /\ n.report = call[c].report
    BY <1>2, <1>5, <2>1, RowFacts
  <2>3. QED
    BY <1>1, <1>2, <1>6, <2>1, <2>2, BeforeSend
<1>7. ASSUME Transition(a, "STARTED", Identified(c, None, None)),
             NEW pc \in {"dispatch", "ambiguous"}, Goto(c, At(c, pc)), NoFault \/ Fault
      PROVE  DispatchInv'
  <2>1. PICK meta : meta = Identified(c, None, None)
    OBVIOUS
  <2>2. meta \in Meta /\ meta.exec = call[c].permit /\ meta.intent = c
    <3>1. call[c].permit \in Execs /\ c \in Intents
      BY <1>5, CallsAssumption
    <3>2. QED
      BY <2>1, <3>1 DEF Identified, Meta, OptReason, OptExec, OptIntent, OptEffect
  <2>3. /\ Next /\ now' = now
        /\ \A b \in Admissions \ {a} : events'[b] = events[b]
        /\ Len(events[a]) = 1 /\ Len(events'[a]) = 2
        /\ events'[a][2].state = "STARTED" /\ events'[a][1] = events[a][1]
        /\ events'[a][2].exec = call[c].permit /\ events'[a][2].intent = c
    <3>1. Transition(a, "STARTED", meta)
      BY <1>7, <2>1
    <3>2. /\ Next /\ now' = now
          /\ \A b \in Admissions \ {a} : events'[b] = events[b]
          /\ Len(events[a]) \in {1, 2} /\ Len(events'[a]) = Len(events[a]) + 1
          /\ Len(events[a]) = 2 => "STARTED" = "UNCERTAIN"
          /\ events'[a][Len(events[a]) + 1].state = "STARTED"
          /\ \A k \in 1..Len(events[a]) : events'[a][k] = events[a][k]
          /\ events'[a][2].exec = meta.exec
          /\ events'[a][2].intent = meta.intent
      BY <1>4, <2>2, <3>1, TransitionRow
    <3>3. Len(events[a]) = 1
      BY <3>2
    <3>4. QED
      BY <2>2, <3>2, <3>3
  <2>4. PICK n : n = At(c, pc)
    OBVIOUS
  <2>5. n \in CallRow /\ n.pc = pc /\ n.permit = call[c].permit /\ n.report = "none"
    <3>1. pc \in InFlight
      BY DEF InFlight
    <3>2. QED
      BY <1>5, <2>4, <3>1, RowFacts
  <2>6. StartedBy(c, n)' /\ events'[a] # <<>>
    BY <1>3, <2>3, <2>5 DEF StartedBy, Second
  <2>7. CallOK(c, n)'
    BY <1>1, <1>3, <1>5, <2>5, <2>6 DEF CallOK, PointOK
  <2>8. ~Has(a, "COMPLETED")'
    <3>1. ASSUME NEW k \in 1..2, events'[a][k].state = "COMPLETED" PROVE FALSE
      <4>1. k = 1 \/ k = 2
        OBVIOUS
      <4>2. events[a][1].state = "ADMITTED"
        BY <1>4, <2>3, Shape
      <4>3. QED
        BY <2>3, <3>1, <4>1, <4>2
    <3>2. QED
      BY <2>3, <3>1 DEF Has
  <2>9. \A b \in Admissions : Has(b, "COMPLETED")' => Has(b, "COMPLETED")
    BY <2>3, <2>8 DEF Has
  <2>10. faults' \in Nat /\ (faults' = 0 => faults = 0)
    BY <1>4, <1>7 DEF NoFault, Fault
  <2>11. SendsOnly(c)
    BY <1>1 DEF SendsOnly, DispatchInv, DispatchTypes
  <2>12. \A b \in Admissions : events[b] = <<>> => events'[b] = <<>>
    BY <1>5, <2>3
  <2>13. Len(events'[EffectOf[c]]) # 1
    BY <1>3, <2>3
  <2>14. QED
    BY <1>3, <1>7, <2>3, <2>4, <2>5, <2>7, <2>8, <2>9, <2>10, <2>11, <2>12, <2>13,
       CallKeeps
<1>8. QED
  BY <1>3, <1>6, <1>7 DEF startConnector

\* dispatch(ctx): the request leaves, of a call whose own start is on record.
LEMMA SendKeeps ==
    ASSUME DispatchInv, NEW c \in Calls, dispatch(c)
    PROVE  DispatchInv'
<1>1. PICK a \in Admissions : a = EffectOf[c]
  BY CallFacts
<1>2. /\ call[c].pc = "dispatch" /\ StoreUnchanged /\ NoFault
      /\ sentBy' = [sentBy EXCEPT ![a] = @ \cup {c}]
      /\ \/ applied' = applied \cup {a} /\ Goto(c, At(c, "evidence"))
         \/ /\ applied' \in {applied, applied \cup {a}}
            /\ Goto(c, Failed(c, "evidence"))
  BY <1>1 DEF dispatch
<1>3. /\ call[c] \in CallRow /\ call[c].report = "none" /\ CallOK(c, call[c])
      /\ call[c].permit \in 1..MaxTime /\ events[a] # <<>>
      /\ StartedBy(c, call[c]) /\ "evidence" \in InFlight
  BY <1>1, <1>2, CallFacts DEF CallOK, PointOK, InFlight
<1>4. TypeOK /\ faults \in Nat /\ sentBy \in [Admissions -> SUBSET Calls]
  BY DEF DispatchInv, DispatchTypes
<1>5. ~Has(a, "COMPLETED")
  BY <1>1, <1>2 DEF DispatchInv, ClosedOK
<1>6. SendsOnly(c)
  BY <1>1, <1>2, <1>4, <1>5 DEF SendsOnly
<1>7. events' = events /\ now' = now /\ faults' = faults /\ [Next]_vars
  BY <1>2 DEF StoreUnchanged, vars, NoFault
<1>8. ASSUME NEW n \in CallRow, Goto(c, n), n.pc = "evidence",
             n.permit = call[c].permit, n.report = "none", n.err \/ a \in applied'
      PROVE  DispatchInv'
  <2>1. c \in sentBy'[a]
    BY <1>2, <1>4
  <2>2. StartedBy(c, n)'
    BY <1>3, <1>7, <1>8 DEF StartedBy, Second
  <2>3. CallOK(c, n)'
    BY <1>1, <1>3, <1>7, <1>8, <2>1, <2>2 DEF CallOK, PointOK, Unsent
  <2>4. \A b \in Admissions : Has(b, "COMPLETED")' => Has(b, "COMPLETED")
    BY <1>7 DEF Has
  <2>5. call[c].pc \notin Resolving
    BY <1>2 DEF Resolving
  <2>6. QED
    BY <1>4, <1>6, <1>7, <1>8, <2>3, <2>4, <2>5, CallKeeps
<1>9. CASE applied' = applied \cup {a} /\ Goto(c, At(c, "evidence"))
  <2>1. PICK n : n = At(c, "evidence")
    OBVIOUS
  <2>2. n \in CallRow /\ n.pc = "evidence" /\ n.permit = call[c].permit /\ n.report = "none"
    BY <1>3, <2>1, RowFacts
  <2>3. QED
    BY <1>8, <1>9, <2>1, <2>2
<1>10. CASE Goto(c, Failed(c, "evidence"))
  <2>1. PICK n : n = Failed(c, "evidence")
    OBVIOUS
  <2>2. n \in CallRow /\ n.pc = "evidence" /\ n.permit = call[c].permit /\ n.report = "none"
        /\ n.err
    BY <1>3, <2>1, RowFacts
  <2>3. QED
    BY <1>8, <1>10, <2>1, <2>2
<1>11. QED
  BY <1>2, <1>9, <1>10

\* The evidence node, the recovered reservation and the sealed output.
LEMMA AfterKeeps ==
    ASSUME DispatchInv, NEW c \in Calls,
           appendEffect(c) \/ recoverReservation(c) \/ sealOutput(c)
    PROVE  DispatchInv'
<1>1. /\ call[c].pc \in {"evidence", "recover", "seal"} /\ StoreUnchanged
      /\ UNCHANGED <<sentBy, applied>> /\ (NoFault \/ Fault)
  BY DEF appendEffect, recoverReservation, sealOutput, LocalUnchanged
<1>2. /\ call[c].pc \in InFlight \ {"admit"} /\ call[c].pc \notin Resolving
      /\ {"recover", "markEvidence", "markOutcome", "missing", "afterStart", "seal",
          "sealFailed"} \subseteq InFlight \ ({"admit", "dispatch"} \cup Unsent)
  BY <1>1 DEF InFlight, Resolving, Unsent
<1>3. PICK a \in Admissions : a = EffectOf[c]
  BY CallFacts
<1>4. /\ call[c] \in CallRow /\ call[c].report = "none" /\ CallOK(c, call[c])
      /\ events[a] # <<>>
  BY <1>1, <1>2, <1>3, CallFacts
<1>5. ASSUME NEW pc \in {"recover", "markOutcome", "missing", "afterStart", "seal",
                         "sealFailed"},
             Goto(c, At(c, pc)),
             pc \in {"recover", "seal"} => c \in sentBy[a] /\ a \in applied,
             pc = "afterStart" => Second(a, "STARTED")
      PROVE  DispatchInv'
  <2>1. PICK n : n = At(c, pc)
    OBVIOUS
  <2>2. n \in CallRow /\ n.pc = pc /\ n.permit = call[c].permit /\ n.report = "none"
    BY <1>2, <1>4, <2>1, RowFacts
  <2>3. CallOK(c, n)
    BY <1>2, <1>3, <1>4, <1>5, <2>2, MoveOK
  <2>4. QED
    BY <1>1, <1>2, <1>5, <2>1, <2>2, <2>3, LocalKeeps
<1>6. ASSUME NEW rep \in Reports \ {"dispatched", "not_dispatched", "no_dispatch_proof"},
             Goto(c, Return(c, rep)), rep = "not_started" => Second(a, "NOT_STARTED")
      PROVE  DispatchInv'
  BY <1>1, <1>2, <1>3, <1>6, ReturnKeeps
<1>7. CASE appendEffect(c)
  <2>1. call[c].pc = "evidence"
    BY <1>7 DEF appendEffect
  <2>2. CASE Goto(c, Failed(c, "markEvidence"))
    <3>1. PICK n : n = Failed(c, "markEvidence")
      OBVIOUS
    <3>2. n \in CallRow /\ CallOK(c, n) /\ n.pc = "markEvidence"
      BY <1>2, <3>1, FailedOK
    <3>3. QED
      BY <1>1, <1>2, <2>2, <3>1, <3>2, LocalKeeps
  <2>3. CASE call[c].err /\ Goto(c, At(c, "markOutcome"))
    BY <1>5, <2>3
  <2>4. CASE ~call[c].err /\ Goto(c, At(c, "recover"))
    <3>1. c \in sentBy[a] /\ a \in applied
      BY <1>3, <1>4, <2>1, <2>4 DEF CallOK, PointOK
    <3>2. QED
      BY <1>5, <2>4, <3>1
  <2>5. QED
    BY <1>7, <2>2, <2>3, <2>4 DEF appendEffect
<1>8. CASE recoverReservation(c)
  <2>1. call[c].pc = "recover"
    BY <1>8 DEF recoverReservation
  <2>2. PICK state : state = Current(a).state
    OBVIOUS
  <2>3. /\ state = "STARTED" => Second(a, "STARTED")
        /\ state = "NOT_STARTED" => Second(a, "NOT_STARTED")
    BY <1>4, <2>2, Shape DEF Current, Second, DispatchInv, DispatchTypes
  <2>4. CASE Goto(c, Return(c, "uncertain"))
    BY <1>6, <2>4 DEF Reports
  <2>5. CASE Goto(c, At(c, "missing"))
    BY <1>5, <2>5
  <2>6. CASE state = "STARTED" /\ call[c].err /\ Goto(c, At(c, "afterStart"))
    BY <1>5, <2>3, <2>6
  <2>7. CASE state = "STARTED" /\ ~call[c].err /\ Goto(c, At(c, "seal"))
    <3>1. c \in sentBy[a] /\ a \in applied
      BY <1>3, <1>4, <2>1, <2>7 DEF CallOK, PointOK
    <3>2. QED
      BY <1>5, <2>7, <3>1
  <2>8. CASE Goto(c, Return(c, dispatchStateForReservation(state)))
    <3>1. PICK rep : rep = dispatchStateForReservation(state)
      OBVIOUS
    <3>2. /\ rep \in {"admitted", "started", "not_started", "uncertain", "dispatch_failed"}
          /\ rep = "not_started" => state = "NOT_STARTED"
      BY <3>1 DEF dispatchStateForReservation
    <3>3. rep \in Reports \ {"dispatched", "not_dispatched", "no_dispatch_proof"}
      BY <3>2 DEF Reports
    <3>4. QED
      BY <1>6, <2>3, <2>8, <3>1, <3>2, <3>3
  <2>9. QED
    BY <1>3, <1>8, <2>2, <2>4, <2>5, <2>6, <2>7, <2>8 DEF recoverReservation
<1>9. CASE sealOutput(c)
  <2>1. call[c].pc = "seal" /\ c \in sentBy[a] /\ a \in applied
    BY <1>3, <1>4, <1>9 DEF sealOutput, CallOK, PointOK
  <2>2. CASE Goto(c, At(c, "sealFailed"))
    BY <1>5, <2>2
  <2>3. CASE Goto(c, Return(c, "dispatched"))
    <3>1. PICK n : n = Return(c, "dispatched")
      OBVIOUS
    <3>2. n \in CallRow /\ n.pc = "returned" /\ n.permit = call[c].permit
          /\ n.report = "dispatched"
      BY <1>4, <3>1, RowFacts DEF Reports
    <3>3. PointOK(c, n)
      BY <1>3, <1>4, <2>1, <3>2, ReturnOK
    <3>4. CallOK(c, n)
      BY <3>2, <3>3 DEF CallOK
    <3>5. QED
      BY <1>1, <1>2, <2>3, <3>1, <3>2, <3>4, LocalKeeps
  <2>4. QED
    BY <1>9, <2>2, <2>3 DEF sealOutput
<1>10. QED
  BY <1>7, <1>8, <1>9

\* The lifecycle calls with which a call ends.
LEMMA LastMarksKeep ==
    ASSUME DispatchInv, NEW c \in Calls,
           lifecycleMissing(c) \/ errorAfterStart(c) \/ sealFailed(c)
    PROVE  DispatchInv'
<1>1. call[c].pc \in {"missing", "afterStart", "sealFailed"} /\ LocalUnchanged
  BY DEF lifecycleMissing, errorAfterStart, sealFailed
<1>2. call[c].pc \in InFlight \ {"admit"}
  BY <1>1 DEF InFlight
<1>3. PICK a \in Admissions : a = EffectOf[c]
  BY CallFacts
<1>4. events[a] # <<>> /\ CallOK(c, call[c])
  BY <1>2, <1>3, CallFacts
<1>5. ASSUME NEW rep \in {"uncertain", "started"}
      PROVE  /\ Return(c, rep) \in CallRow /\ CallOK(c, Return(c, rep))
             /\ PointOK(c, Return(c, rep)) /\ Return(c, rep).pc # "dispatch"
             /\ Return(c, rep).report # "not_started"
  BY PlainReturn DEF Reports
<1>6. ASSUME NEW rep \in {"uncertain", "started"}, NEW meta \in Meta, meta.reason # None,
             Persist(c, "UNCERTAIN", meta, Return(c, "uncertain"), Return(c, rep))
      PROVE  DispatchInv'
  <2>1. PICK s : s = Return(c, "uncertain")
    OBVIOUS
  <2>2. PICK e : e = Return(c, rep)
    OBVIOUS
  <2>3. s \in CallRow /\ PointOK(c, s) /\ s.pc # "dispatch" /\ s.report # "not_started"
    BY <1>5, <2>1
  <2>4. e \in CallRow /\ CallOK(c, e) /\ e.pc # "dispatch"
    BY <1>5, <2>2
  <2>5. Persist(c, "UNCERTAIN", meta, s, e)
    BY <1>6, <2>1, <2>2
  <2>6. QED
    BY <1>1, <1>3, <1>4, <1>6, <2>3, <2>4, <2>5, PersistKeeps
<1>7. ASSUME NEW reason \in {"LIFECYCLE_MISSING", "SEAL_FAILED"},
             Persist(c, "UNCERTAIN", Refless(reason), Return(c, "uncertain"),
                     Return(c, "uncertain"))
      PROVE  DispatchInv'
  <2>1. Refless(reason) \in Meta /\ Refless(reason).reason # None
    BY MetaFacts, CallsAssumption
  <2>2. QED
    BY <1>6, <1>7, <2>1
<1>8. CASE errorAfterStart(c)
  <2>1. Second(a, "STARTED")
    BY <1>3, <1>4, <1>8 DEF errorAfterStart, CallOK, PointOK
  <2>2. PICK started \in Event : started = events[a][2]
    BY <2>1, Shape DEF Second, DispatchInv, DispatchTypes
  <2>3. PICK m : m = [reason |-> "ERROR_AFTER_START", exec |-> started.exec,
                      intent |-> started.intent, effect |-> started.effect]
    OBVIOUS
  <2>4. "ERROR_AFTER_START" \in Reasons /\ "ERROR_AFTER_START" # None
    BY CallsAssumption, NoneAssumption
  <2>5. m \in Meta /\ m.reason # None
    BY <2>2, <2>3, <2>4 DEF Meta, Event, OptReason
  <2>6. Persist(c, "UNCERTAIN", m, Return(c, "uncertain"), Return(c, "started"))
    BY <1>3, <1>8, <2>2, <2>3 DEF errorAfterStart
  <2>7. QED
    BY <1>6, <2>5, <2>6
<1>9. QED
  BY <1>7, <1>8 DEF lifecycleMissing, sealFailed

-----------------------------------------------------------------------------
(* The other steps *)

\* A crash ends every call of its process and nothing else.
LEMMA CrashKeeps ==
    ASSUME DispatchInv, NEW p \in Processes, Crash(p)
    PROVE  DispatchInv'
<1>1. /\ events' = events /\ now' = now /\ [Next]_vars
      /\ UNCHANGED <<sentBy, applied>> /\ faults' = faults + 1
  BY DEF Crash, StoreUnchanged, vars, Fault
<1>2. TypeOK /\ StreamsValid /\ call \in [Calls -> CallRow] /\ faults \in Nat
  BY DEF DispatchInv, DispatchTypes
<1>3. TypeOK' /\ StreamsValid'
  BY <1>1, <1>2, TypeStep, StreamsValidStep
<1>4. ASSUME NEW c \in Calls
      PROVE  /\ call'[c] \in CallRow /\ CallOK(c, call[c])'
             /\ call'[c].pc = "dispatch" => call[c].pc = "dispatch"
  <2>1. call[c] \in CallRow /\ CallOK(c, call[c])
    BY CallFacts
  <2>2. PICK n : n = call'[c]
    OBVIOUS
  <2>3. CASE n = call[c]
    BY <1>1, <2>1, <2>2, <2>3 DEF CallOK, PointOK, StartedBy, Second
  <2>4. CASE n = At(c, "crashed") /\ call[c].pc \in InFlight
    <3>1. n \in CallRow /\ n.pc = "crashed" /\ n.permit = call[c].permit
          /\ n.report = call[c].report
      BY <2>1, <2>4, RowFacts
    <3>2. call[c].report = "none"
      BY <2>1, <2>4 DEF CallOK, PointOK, InFlight
    <3>3. StartedBy(c, call[c]) => StartedBy(c, n)
      BY <3>1 DEF StartedBy
    <3>4. CallOK(c, n)
      BY <2>1, <3>1, <3>2, <3>3 DEF CallOK, PointOK, InFlight, Unsent
    <3>5. CallOK(c, n)'
      BY <1>1, <3>4 DEF CallOK, PointOK, StartedBy, Second
    <3>6. CallOK(c, call[c])'
      BY <2>2, <3>5 DEF CallOK, PointOK, StartedBy
    <3>7. QED
      BY <2>2, <3>1, <3>6
  <2>5. QED
    BY <2>2, <2>3, <2>4 DEF Crash
<1>5. call' \in [Calls -> CallRow]
  BY <1>4 DEF Crash
<1>6. DispatchTypes'
  BY <1>1, <1>2, <1>3, <1>5 DEF DispatchInv, DispatchTypes
<1>7. AdmittedOK'
  BY <1>1, <1>2 DEF DispatchInv, AdmittedOK
<1>8. ClosedOK'
  BY <1>1, <1>4 DEF DispatchInv, ClosedOK, Has, Current
<1>9. QED
  BY <1>3, <1>4, <1>6, <1>7, <1>8 DEF DispatchInv

\* The clock, FENCE, the registry and the claimed admissions.
LEMMA EnvironmentKeeps ==
    ASSUME DispatchInv, DispatchEnvironment
    PROVE  DispatchInv'
<1>1. Environment /\ UNCHANGED dispatchVars
  BY DEF DispatchEnvironment, Environment
<1>2. TypeOK /\ StreamsValid
  BY DEF DispatchInv, DispatchTypes
<1>3. TypeOK' /\ events' = events
  BY <1>1, <1>2, TypeEnvironment
<1>4. StreamsValid'
  BY <1>1, <1>2, StreamsValidStep DEF Next
<1>5. now' \in 1..MaxTime /\ now <= now'
  <2>1. now \in 1..MaxTime /\ now \in Nat
    BY <1>2 DEF DispatchInv, DispatchTypes, TypeOK
  <2>2. now' = now \/ (now < MaxTime /\ now' = now + 1)
    BY DEF DispatchEnvironment, Tick, Fence, AppendRelease, claimDispatchAdmission
  <2>3. QED
    BY <2>1, <2>2, BoundsAssumption
<1>6. call' = call /\ sentBy' = sentBy /\ applied' = applied /\ faults' = faults
  BY <1>1 DEF dispatchVars
<1>7. ASSUME NEW c \in Calls PROVE CallOK(c, call[c])'
  BY <1>3, <1>6, CallFacts DEF CallOK, PointOK, StartedBy, Second
<1>8. DispatchTypes'
  BY <1>3, <1>5, <1>6 DEF DispatchInv, DispatchTypes
<1>9. AdmittedOK'
  <2>1. ASSUME NEW a \in Admissions, events[a] # <<>>
        PROVE  events[a][1].admittedAt <= now'
    <3>1. events[a][1].admittedAt <= now /\ events[a][1] \in Event
      BY <1>2, <2>1, Shape DEF DispatchInv, AdmittedOK
    <3>2. events[a][1].admittedAt \in Nat /\ now \in Nat /\ now' \in Nat
      BY <1>2, <1>3, <3>1 DEF Event, TypeOK
    <3>3. QED
      BY <1>5, <3>1, <3>2
  <2>2. QED
    BY <1>3, <1>6, <2>1 DEF DispatchInv, AdmittedOK
<1>10. ClosedOK'
  BY <1>3, <1>6 DEF DispatchInv, ClosedOK, Has, Current
<1>11. QED
  BY <1>4, <1>7, <1>8, <1>9, <1>10 DEF DispatchInv

\* A close appends the COMPLETED row, with the acknowledged outcome, to a stream
\* that was started or left uncertain.
LEMMA CloseRow ==
    ASSUME TypeOK, StreamsValid, now \in 1..MaxTime, NEW a \in Admissions,
           NEW k \in Ack, closeEffectReservation(a, k, now)
    PROVE  /\ Next /\ UNCHANGED <<now, fence, admission>>
           /\ \A b \in Admissions \ {a} : events'[b] = events[b]
           /\ Len(events[a]) \in Nat /\ Len(events[a]) >= 2
           /\ Len(events'[a]) = Len(events[a]) + 1
           /\ \A i \in 1..Len(events[a]) : events'[a][i] = events[a][i]
           /\ events'[a][Len(events[a]) + 1].state = "COMPLETED"
           /\ events'[a][Len(events[a]) + 1].outcome = k.outcome
<1>1. /\ events[a] # <<>> /\ Current(a) \in Event
      /\ CompletedEvent(Current(a), k) \in Event
  BY CloseFacts
<1>2. PICK e \in Event : e = CompletedEvent(Current(a), k)
  BY <1>1
<1>3. insertEvent(a, e) /\ UNCHANGED <<now, fence, admission>>
      /\ Current(a).state \in {"STARTED", "UNCERTAIN"}
  BY <1>2 DEF closeEffectReservation
<1>4. Next
  BY DEF Next, Close
<1>5. events[a] \in Seq(Event) /\ now \in Nat
  BY DEF TypeOK
<1>6. events'[a] = Append(events[a], e) /\ \A b \in Admissions \ {a} : events'[b] = events[b]
  BY <1>3, InsertEventFacts
<1>7. /\ Len(events'[a]) = Len(events[a]) + 1
      /\ events'[a][Len(events[a]) + 1] = e
      /\ \A i \in 1..Len(events[a]) : events'[a][i] = events[a][i]
  BY <1>5, <1>6, AppendFacts
<1>8. e.state = "COMPLETED" /\ e.outcome = k.outcome
  BY <1>1, <1>2, <1>5, CompletedFacts
<1>9. Len(events[a]) \in Nat /\ Len(events[a]) >= 2
  <2>1. Len(events[a]) \in Nat /\ Len(events[a]) >= 1
    BY <1>1, Shape
  <2>2. Len(events[a]) \in 1..Len(events[a]) /\ Current(a) = events[a][Len(events[a])]
    BY <2>1 DEF Current
  <2>3. Len(events[a]) # 1
    BY <1>3, <2>2, Shape
  <2>4. PICK L \in Nat : L = Len(events[a])
    BY <2>1
  <2>5. L >= 1 /\ L # 1
    BY <2>1, <2>3, <2>4
  <2>6. L >= 2
    BY <2>5
  <2>7. QED
    BY <2>4, <2>6
<1>10. QED
  BY <1>3, <1>4, <1>6, <1>7, <1>8, <1>9

\* A truthful acknowledgement closes a stream none of whose calls is sending.
LEMMA AcknowledgeKeeps ==
    ASSUME DispatchInv, NEW a \in Admissions, Acknowledge(a)
    PROVE  DispatchInv'
<1>1. TypeOK /\ StreamsValid /\ now \in 1..MaxTime
  BY DEF DispatchInv, DispatchTypes
<1>2. PICK k \in Ack : TruthfulAck(a, k) /\ closeEffectReservation(a, k, now)
  BY DEF Acknowledge
<1>3. call' = call /\ sentBy' = sentBy /\ applied' = applied /\ faults' = faults
  BY DEF Acknowledge, dispatchVars
<1>4. /\ Next /\ now' = now
      /\ \A b \in Admissions \ {a} : events'[b] = events[b]
      /\ Len(events[a]) \in Nat /\ Len(events[a]) >= 2
      /\ Len(events'[a]) = Len(events[a]) + 1
      /\ \A i \in 1..Len(events[a]) : events'[a][i] = events[a][i]
      /\ events'[a][Len(events[a]) + 1].state = "COMPLETED"
      /\ events'[a][Len(events[a]) + 1].outcome = k.outcome
  BY <1>1, <1>2, CloseRow
<1>5. TypeOK' /\ StreamsValid' /\ Grows
  BY <1>1, <1>4, TypeStep, StreamsValidStep, EventsOnlyAppended DEF Grows
<1>6. ASSUME NEW c \in Calls PROVE CallOK(c, call[c])'
  <2>1. PICK n \in CallRow : n = call[c]
    BY CallFacts
  <2>2. CallOK(c, n)
    BY <2>1, CallFacts
  <2>3. CallOK(c, n)'
    BY <1>1, <1>3, <1>5, <2>2, CallStays
  <2>4. call'[c] = n
    BY <1>3, <2>1
  <2>5. QED
    BY <2>3, <2>4 DEF CallOK, PointOK, StartedBy
<1>7. DispatchTypes'
  BY <1>3, <1>4, <1>5 DEF DispatchInv, DispatchTypes
<1>8. AdmittedOK'
  <2>1. ASSUME NEW b \in Admissions, events'[b] # <<>>
        PROVE  /\ events'[b][1].admittedAt <= now'
               /\ faults' = 0 /\ Len(events'[b]) = 1 =>
                    \E d \in Calls : EffectOf[d] = b /\ call'[d].pc \in Resolving
    <3>1. CASE b # a
      <4>1. events'[b] = events[b]
        BY <1>4, <3>1
      <4>2. QED
        BY <1>3, <1>4, <2>1, <4>1 DEF DispatchInv, AdmittedOK
    <3>2. CASE b = a
      <4>1. events'[a][1] = events[a][1] /\ Len(events'[a]) # 1 /\ events[a] # <<>>
        BY <1>1, <1>4, Shape
      <4>2. QED
        BY <1>4, <3>2, <4>1 DEF DispatchInv, AdmittedOK
    <3>3. QED
      BY <3>1, <3>2
  <2>2. QED
    BY <2>1 DEF AdmittedOK
<1>9. ClosedOK'
  <2>1. ASSUME NEW b \in Admissions, Has(b, "COMPLETED")'
        PROVE  /\ ((Current(b).outcome = "APPLIED") = (b \in applied))'
               /\ \A d \in Calls : EffectOf[d] = b => call'[d].pc # "dispatch"
    <3>1. CASE b # a
      <4>1. events'[b] = events[b]
        BY <1>4, <3>1
      <4>2. QED
        BY <1>3, <2>1, <4>1 DEF DispatchInv, ClosedOK, Has, Current
    <3>2. CASE b = a
      <4>1. Current(a)' = events'[a][Len(events[a]) + 1]
        BY <1>4 DEF Current
      <4>2. (Current(a).outcome)' = k.outcome
        BY <1>4, <4>1
      <4>3. k.outcome = "APPLIED" <=> a \in applied
        BY <1>2 DEF TruthfulAck
      <4>4. \A d \in Calls : EffectOf[d] = a => call'[d].pc # "dispatch"
        BY <1>3 DEF Acknowledge
      <4>5. QED
        BY <1>3, <3>2, <4>2, <4>3, <4>4
    <3>3. QED
      BY <3>1, <3>2
  <2>2. QED
    BY <2>1 DEF ClosedOK
<1>10. QED
  BY <1>5, <1>6, <1>7, <1>8, <1>9 DEF DispatchInv

-----------------------------------------------------------------------------
(* The invariant, and what it says of the calls *)

\* Every step of a call preserves the invariant.
LEMMA CallStepKeeps ==
    ASSUME DispatchInv, NEW c \in Calls, Steps(c)
    PROVE  DispatchInv'
BY BeginKeeps, AdmitKeeps, ChecksKeep, ResolveKeeps, MarksKeep, StartKeeps, SendKeeps,
   AfterKeeps, LastMarksKeep DEF Steps

\* A step that changes nothing preserves the invariant.
LEMMA StutterKeeps == DispatchInv /\ UNCHANGED allVars => DispatchInv'
<1> SUFFICES ASSUME DispatchInv, UNCHANGED allVars PROVE DispatchInv'
  OBVIOUS
<1>1. /\ UNCHANGED vars /\ events' = events /\ now' = now /\ call' = call
      /\ sentBy' = sentBy /\ applied' = applied /\ faults' = faults
  BY DEF allVars, vars, dispatchVars
<1>2. TypeOK' /\ StreamsValid'
  BY <1>1, TypeStep, StreamsValidStep DEF DispatchInv, DispatchTypes
<1>3. DispatchTypes' /\ AdmittedOK' /\ ClosedOK'
  BY <1>1, <1>2 DEF DispatchInv, DispatchTypes, AdmittedOK, ClosedOK, Has, Current
<1>4. \A c \in Calls : CallOK(c, call[c])'
  BY <1>1, CallFacts DEF CallOK, PointOK, StartedBy, Second
<1>5. QED
  BY <1>2, <1>3, <1>4 DEF DispatchInv

\* The inductive invariant holds for any number of concurrent calls, processes,
\* store failures and crashes.
THEOREM DispatchInvariant == DispatchSpec => []DispatchInv
<1>1. DispatchInv /\ [DispatchNext]_allVars => DispatchInv'
  BY CallStepKeeps, StutterKeeps, EnvironmentKeeps, CrashKeeps, AcknowledgeKeeps
  DEF DispatchNext
<1>2. QED
  BY <1>1, DispatchInvInit, PTL DEF DispatchSpec

\* The stream names one sender, so two calls cannot both have sent.
LEMMA OneSender ==
    ASSUME DispatchInv, NEW a \in Admissions, NEW c \in Calls, EffectOf[c] = a,
           call[c].pc = "dispatch" \/ c \in sentBy[a],
           NEW d \in sentBy[a]
    PROVE  d = c
<1>1. d \in Calls /\ EffectOf[d] = a
  BY DEF DispatchInv, DispatchTypes
<1>2. StartedBy(c, call[c]) /\ StartedBy(d, call[d])
  BY <1>1, CallFacts DEF CallOK, PointOK
<1>3. QED
  BY <1>1, <1>2 DEF StartedBy

\* SentOnceByRecordedStart: however many calls, processes and restarts share an
\* approval, its request leaves once, from the call the STARTED event names.
THEOREM DispatchSendsOnce == DispatchSpec => []SentOnceByRecordedStart
<1>1. DispatchInv => SentOnceByRecordedStart
  <2> SUFFICES ASSUME DispatchInv, NEW a \in Admissions, NEW c \in sentBy[a]
               PROVE  /\ sentBy[a] = {c}
                      /\ events[a][2].state = "STARTED"
                      /\ events[a][2].exec = call[c].permit
                      /\ events[a][2].intent = c
    BY DEF SentOnceByRecordedStart
  <2>1. c \in Calls /\ EffectOf[c] = a
    BY DEF DispatchInv, DispatchTypes
  <2>2. StartedBy(c, call[c])
    BY <2>1, CallFacts DEF CallOK, PointOK
  <2>3. \A d \in sentBy[a] : d = c
    BY <2>1, OneSender
  <2>4. sentBy[a] = {c}
    BY <2>3
  <2>5. QED
    BY <2>1, <2>2, <2>4 DEF StartedBy, Second
<1>2. QED
  BY <1>1, DispatchInvariant, PTL

\* ReportsTruthful: what Govern answered is true of the network and stays true.
THEOREM DispatchReportsTruthful == DispatchSpec => []ReportsTruthful
<1>1. DispatchInv => ReportsTruthful
  <2> SUFFICES ASSUME DispatchInv, NEW c \in Calls
               PROVE  LET a == EffectOf[c] IN
                      /\ call[c].report = "not_started" =>
                           /\ sentBy[a] = {}
                           /\ \A d \in Calls : EffectOf[d] = a => call[d].pc # "dispatch"
                      /\ call[c].report = "dispatched" => c \in sentBy[a] /\ a \in applied
                      /\ call[c].report \in {"not_dispatched", "no_dispatch_proof"} =>
                           c \notin sentBy[a]
    BY DEF ReportsTruthful
  <2>1. PICK a \in Admissions : a = EffectOf[c]
    BY CallFacts
  <2>2. CallOK(c, call[c])
    BY CallFacts
  <2>3. ASSUME call[c].report = "not_started", NEW d \in Calls, EffectOf[d] = a
        PROVE  call[d].pc # "dispatch" /\ d \notin sentBy[a]
    <3>1. events[a][2].state = "NOT_STARTED"
      BY <2>1, <2>2, <2>3 DEF CallOK, Second
    <3>2. ~StartedBy(d, call[d])
      BY <2>3, <3>1 DEF StartedBy, Second
    <3>3. QED
      BY <2>3, <3>2, CallFacts DEF CallOK, PointOK
  <2>4. \A d \in sentBy[a] : d \in Calls /\ EffectOf[d] = a
    BY DEF DispatchInv, DispatchTypes
  <2>5. QED
    BY <2>1, <2>2, <2>3, <2>4 DEF CallOK, PointOK
<1>2. QED
  BY <1>1, DispatchInvariant, PTL

\* SettledWithoutFaults: calls that finished without a failure or a crash leave
\* no reservation in ADMITTED.
THEOREM DispatchSettles == DispatchSpec => []SettledWithoutFaults
<1>1. DispatchInv => SettledWithoutFaults
  <2> SUFFICES ASSUME DispatchInv, faults = 0,
                      \A c \in Calls : call[c].pc \in {"idle", "returned"},
                      NEW a \in Admissions, events[a] # <<>>
               PROVE  Current(a).state # "ADMITTED"
    BY DEF SettledWithoutFaults
  <2>1. Len(events[a]) # 1
    BY DEF DispatchInv, AdmittedOK, Resolving
  <2>2. /\ TypeOK /\ StreamsValid
    BY DEF DispatchInv, DispatchTypes
  <2>3. Len(events[a]) \in 1..Len(events[a]) /\ Current(a) = events[a][Len(events[a])]
    BY <2>2, Shape DEF Current
  <2>4. QED
    BY <2>1, <2>2, <2>3, Shape
<1>2. QED
  BY <1>1, DispatchInvariant, PTL

\* ClosedTruthfully: a closure keeps saying what the source did, because no call
\* sends after it.
THEOREM DispatchClosedTruthfully == DispatchSpec => []ClosedTruthfully
<1>1. DispatchInv => ClosedTruthfully
  BY DEF DispatchInv, ClosedOK, ClosedTruthfully
<1>2. QED
  BY <1>1, DispatchInvariant, PTL

-----------------------------------------------------------------------------
(* The store of the calls is EffectReservation's, and together with the     *)
(* connector it implements GovernedEffect.                                  *)

\* One lifecycle call commits a transition or leaves the store.
LEMMA PersistShape ==
    ASSUME NEW c \in Calls, NEW meta \in Meta, NEW s, NEW e,
           NEW state \in {"NOT_STARTED", "UNCERTAIN"},
           Persist(c, state, meta, s, e)
    PROVE  \/ UNCHANGED vars
           \/ Transition(EffectOf[c], state, meta)
BY DEF Persist, StoreUnchanged

\* A step of a call sends, or leaves the network and does at most one store
\* operation, with typed metadata, on its own admission.
LEMMA StepShape ==
    ASSUME DispatchInv, NEW c \in Calls, Steps(c)
    PROVE  \/ dispatch(c)
           \/ /\ UNCHANGED sentBy
              /\ \/ UNCHANGED vars
                 \/ Admit(EffectOf[c])
                 \/ \E state \in {"STARTED", "NOT_STARTED", "UNCERTAIN"}, meta \in Meta :
                       Transition(EffectOf[c], state, meta)
<1> DEFINE Operation ==
        \/ UNCHANGED vars
        \/ Admit(EffectOf[c])
        \/ \E state \in {"STARTED", "NOT_STARTED", "UNCERTAIN"}, meta \in Meta :
              Transition(EffectOf[c], state, meta)
<1>1. call[c].pc \in InFlight => call[c].permit \in 1..MaxTime
  BY CallFacts
<1>2. \A reason \in {"PRE_DISPATCH", "RESOLUTION_FAILED", "REJECTED", "START_DENIED",
        "START_AMBIGUOUS", "EVIDENCE_MISSING", "OUTCOME_UNCERTAIN",
        "LIFECYCLE_MISSING", "ERROR_AFTER_START", "SEAL_FAILED"} : reason \in Reasons
  BY CallsAssumption
<1>3. ASSUME NEW meta \in Meta, NEW s, NEW e, NEW state \in {"NOT_STARTED", "UNCERTAIN"},
             Persist(c, state, meta, s, e)
      PROVE  Operation
  BY <1>3, PersistShape
<1>4. ASSUME BeginGovern(c) \/ consumeNonce(c) \/ checkEvidence(c) \/ resolveRecover(c)
             \/ connectorPrechecks(c) \/ appendEffect(c) \/ recoverReservation(c)
             \/ sealOutput(c)
      PROVE  UNCHANGED sentBy /\ Operation
  BY <1>4 DEF BeginGovern, consumeNonce, checkEvidence, resolveRecover,
     connectorPrechecks, appendEffect, recoverReservation, sealOutput,
     StoreUnchanged, LocalUnchanged
<1>5. ASSUME admitWriteReservation(c) PROVE UNCHANGED sentBy /\ Operation
  BY <1>5 DEF admitWriteReservation, StoreUnchanged, LocalUnchanged
<1>6. ASSUME resolveNotStarted(c) PROVE UNCHANGED sentBy /\ Operation
  <2>1. Refless("PRE_DISPATCH") \in Meta
    BY <1>2, MetaFacts
  <2>2. QED
    BY <1>3, <1>6, <2>1 DEF resolveNotStarted, LocalUnchanged
<1>7. ASSUME resolveUncertain(c) PROVE UNCHANGED sentBy /\ Operation
  <2>1. Refless("RESOLUTION_FAILED") \in Meta
    BY <1>2, MetaFacts
  <2>2. QED
    BY <1>3, <1>7, <2>1 DEF resolveUncertain, LocalUnchanged
<1>8. ASSUME failNotStarted(c) PROVE UNCHANGED sentBy /\ Operation
  <2>1. \A intent \in {None, c} : [Refless("REJECTED") EXCEPT !.intent = intent] \in Meta
    BY <1>2, MetaFacts
  <2>2. QED
    BY <1>3, <1>8, <2>1 DEF failNotStarted, LocalUnchanged
<1>9. ASSUME startConnector(c) PROVE UNCHANGED sentBy /\ Operation
  <2>1. Identified(c, None, None) \in Meta
    <3>1. call[c].permit \in Execs /\ c \in Intents
      BY <1>1, <1>9, CallsAssumption DEF startConnector, InFlight
    <3>2. QED
      BY <3>1 DEF Identified, Meta, OptReason, OptExec, OptIntent, OptEffect
  <2>2. QED
    BY <1>9, <2>1 DEF startConnector, StoreUnchanged, LocalUnchanged
<1>10. ASSUME startDenied(c) PROVE UNCHANGED sentBy /\ Operation
  <2>1. [Refless("START_DENIED") EXCEPT !.intent = c] \in Meta
    BY <1>2, MetaFacts
  <2>2. QED
    BY <1>3, <1>10, <2>1 DEF startDenied, LocalUnchanged
<1>11. ASSUME startAmbiguous(c) PROVE UNCHANGED sentBy /\ Operation
  <2>1. Identified(c, "START_AMBIGUOUS", None) \in Meta
    BY <1>1, <1>2, <1>11, MetaFacts DEF startAmbiguous, InFlight
  <2>2. QED
    BY <1>3, <1>11, <2>1 DEF startAmbiguous, LocalUnchanged
<1>12. ASSUME markEvidenceMissing(c) PROVE UNCHANGED sentBy /\ Operation
  <2>1. Identified(c, "EVIDENCE_MISSING", None) \in Meta
    BY <1>1, <1>2, <1>12, MetaFacts DEF markEvidenceMissing, InFlight
  <2>2. QED
    BY <1>3, <1>12, <2>1 DEF markEvidenceMissing, LocalUnchanged
<1>13. ASSUME markOutcomeUncertain(c) PROVE UNCHANGED sentBy /\ Operation
  <2>1. Identified(c, "OUTCOME_UNCERTAIN", c) \in Meta
    BY <1>1, <1>2, <1>13, MetaFacts DEF markOutcomeUncertain, InFlight
  <2>2. QED
    BY <1>3, <1>13, <2>1 DEF markOutcomeUncertain, LocalUnchanged
<1>14. ASSUME lifecycleMissing(c) PROVE UNCHANGED sentBy /\ Operation
  <2>1. Refless("LIFECYCLE_MISSING") \in Meta
    BY <1>2, MetaFacts
  <2>2. QED
    BY <1>3, <1>14, <2>1 DEF lifecycleMissing, LocalUnchanged
<1>15. ASSUME sealFailed(c) PROVE UNCHANGED sentBy /\ Operation
  <2>1. Refless("SEAL_FAILED") \in Meta
    BY <1>2, MetaFacts
  <2>2. QED
    BY <1>3, <1>15, <2>1 DEF sealFailed, LocalUnchanged
<1>16. ASSUME errorAfterStart(c) PROVE UNCHANGED sentBy /\ Operation
  <2>1. Second(EffectOf[c], "STARTED") /\ EffectOf[c] \in Admissions
    BY <1>16, CallFacts DEF errorAfterStart, CallOK, PointOK
  <2>2. PICK started \in Event : started = events[EffectOf[c]][2]
    BY <2>1, Shape DEF Second, DispatchInv, DispatchTypes
  <2>3. PICK m : m = [reason |-> "ERROR_AFTER_START", exec |-> started.exec,
                      intent |-> started.intent, effect |-> started.effect]
    OBVIOUS
  <2>4. m \in Meta
    BY <1>2, <2>2, <2>3 DEF Meta, Event, OptReason
  <2>5. Persist(c, "UNCERTAIN", m, Return(c, "uncertain"), Return(c, "started"))
    BY <1>16, <2>2, <2>3 DEF errorAfterStart
  <2>6. QED
    BY <1>3, <1>16, <2>4, <2>5 DEF errorAfterStart, LocalUnchanged
<1> HIDE DEF Operation
<1>17. dispatch(c) \/ (UNCHANGED sentBy /\ Operation)
  BY <1>4, <1>5, <1>6, <1>7, <1>8, <1>9, <1>10, <1>11, <1>12, <1>13, <1>14, <1>15, <1>16
  DEF Steps
<1>18. QED
  BY <1>17 DEF Operation

\* Every step of the composition is a step of the store or leaves it.
LEMMA StoreStep ==
    ASSUME DispatchInv, [DispatchNext]_allVars
    PROVE  [Next]_vars
<1>1. CASE UNCHANGED allVars
  BY <1>1 DEF allVars
<1>2. CASE DispatchEnvironment
  BY <1>2 DEF DispatchEnvironment, Environment, Next
<1>3. ASSUME NEW c \in Calls, Steps(c) PROVE [Next]_vars
  <2>1. CASE dispatch(c)
    BY <2>1 DEF dispatch, StoreUnchanged
  <2>2. CASE Admit(EffectOf[c])
    BY <2>2, CallFacts DEF Next
  <2>3. ASSUME NEW state \in {"STARTED", "NOT_STARTED", "UNCERTAIN"}, NEW meta \in Meta,
               Transition(EffectOf[c], state, meta)
        PROVE  Next
    BY <2>3, CallFacts DEF Next, MarkStarted, MarkNotStarted, MarkUncertain
  <2>4. QED
    BY <1>3, <2>1, <2>2, <2>3, StepShape
<1>4. ASSUME NEW p \in Processes, Crash(p) PROVE [Next]_vars
  BY <1>4 DEF Crash, StoreUnchanged
<1>5. ASSUME NEW a \in Admissions, Acknowledge(a) PROVE [Next]_vars
  BY <1>5, CloseRow DEF Acknowledge, DispatchInv, DispatchTypes
<1>6. QED
  BY <1>1, <1>2, <1>3, <1>4, <1>5 DEF DispatchNext

\* The calls use the store only through its operations, so every theorem about
\* EffectReservation holds of it here.
THEOREM DispatchUsesStore == DispatchSpec => Spec
<1>1. DispatchInit => Init
  BY DEF DispatchInit
<1>2. DispatchInv /\ [DispatchNext]_allVars => [Next]_vars
  BY StoreStep
<1>3. QED
  BY <1>1, <1>2, DispatchInvariant, PTL DEF DispatchSpec, Spec

\* A stream is committed or voided by its second row.
LEMMA Decided ==
    ASSUME TypeOK, StreamsValid, NEW a \in Admissions
    PROVE  /\ Len(events[a]) \in Nat
           /\ a \in Committed <=> Second(a, "STARTED")
           /\ a \in Voided <=> Len(events[a]) >= 2 /\ ~Second(a, "STARTED")
<1>1. Len(events[a]) \in Nat
  BY Shape
<1>2. Has(a, "STARTED") <=> Second(a, "STARTED")
  BY <1>1, Shape DEF Has, Second
<1>3. QED
  BY <1>1, <1>2 DEF Committed, Voided

\* A stream whose first two rows stay is neither committed nor voided by the step.
LEMMA DecidedStays ==
    ASSUME TypeOK, StreamsValid, TypeOK', StreamsValid', NEW a \in Admissions,
           Len(events'[a]) >= 2 <=> Len(events[a]) >= 2,
           Len(events[a]) >= 2 => events'[a][2] = events[a][2]
    PROVE  (a \in Committed' <=> a \in Committed) /\ (a \in Voided' <=> a \in Voided)
<1>1. Second(a, "STARTED")' <=> Second(a, "STARTED")
  BY DEF Second
<1>2. /\ a \in Committed' <=> Second(a, "STARTED")'
      /\ a \in Voided' <=> (Len(events[a]) >= 2 /\ ~Second(a, "STARTED"))'
  <2>1. (/\ a \in Committed <=> Second(a, "STARTED")
         /\ a \in Voided <=> Len(events[a]) >= 2 /\ ~Second(a, "STARTED"))'
    BY Decided, PTL
  <2>2. QED
    BY <2>1
<1>3. QED
  BY <1>1, <1>2, Decided

\* The transition that adds the second row commits or voids its admission; a
\* later one changes neither.
LEMMA TransitionRefines ==
    ASSUME DispatchInv, TypeOK', StreamsValid', NEW a \in Admissions, NEW meta \in Meta,
           NEW state \in {"STARTED", "NOT_STARTED", "UNCERTAIN"},
           Transition(a, state, meta), UNCHANGED sentBy
    PROVE  [Abstract!Next]_(Abstract!vars)
<1>1. TypeOK /\ StreamsValid
  BY DEF DispatchInv, DispatchTypes
<1>2. /\ UNCHANGED <<now, fence, admission>>
      /\ \A b \in Admissions \ {a} : events'[b] = events[b]
      /\ Len(events[a]) \in {1, 2} /\ Len(events'[a]) = Len(events[a]) + 1
      /\ events'[a][Len(events[a]) + 1].state = state
      /\ \A k \in 1..Len(events[a]) : events'[a][k] = events[a][k]
      /\ state = "STARTED" => fence = 0
  BY <1>1, TransitionRow
<1>3. \A b \in Admissions \ {a} :
        (b \in Committed' <=> b \in Committed) /\ (b \in Voided' <=> b \in Voided)
  BY <1>2 DEF Committed, Voided, Has
<1>4. Sent' = Sent /\ fence' = fence
  BY <1>2 DEF Sent
<1>5. Committed \subseteq Admissions /\ Committed' \subseteq Admissions
      /\ Voided \subseteq Admissions /\ Voided' \subseteq Admissions
  BY DEF Committed, Voided
<1>6. CASE Len(events[a]) = 2
  <2>1. (a \in Committed' <=> a \in Committed) /\ (a \in Voided' <=> a \in Voided)
    <3>1. Len(events'[a]) >= 2 /\ events'[a][2] = events[a][2]
      BY <1>2, <1>6
    <3>2. QED
      BY <1>1, <1>6, <3>1, DecidedStays
  <2>2. Committed' = Committed /\ Voided' = Voided
    BY <1>3, <1>5, <2>1
  <2>3. QED
    BY <1>4, <2>2 DEF Abstract!vars
<1>7. CASE Len(events[a]) = 1
  <2>1. Len(events'[a]) = 2 /\ events'[a][2].state = state
    BY <1>2, <1>7
  <2>2. a \notin Committed \cup Voided
    BY <1>1, <1>7, Decided DEF Second
  <2>3. (a \in Committed' <=> state = "STARTED") /\ (a \in Voided' <=> state # "STARTED")
    <3>1. (/\ a \in Committed <=> Second(a, "STARTED")
           /\ a \in Voided <=> Len(events[a]) >= 2 /\ ~Second(a, "STARTED"))'
      BY Decided, PTL
    <3>2. QED
      BY <2>1, <3>1 DEF Second
  <2>4. CASE state = "STARTED"
    <3>1. Committed' = Committed \cup {a} /\ Voided' = Voided
      BY <1>3, <1>5, <2>2, <2>3, <2>4
    <3>2. ~(fence > 0) /\ (fence > 0)' = (fence > 0)
      BY <1>2, <2>4
    <3>3. Abstract!Commit(a)
      BY <1>4, <2>2, <3>1, <3>2 DEF Abstract!Commit
    <3>4. QED
      BY <3>3 DEF Abstract!Next
  <2>5. CASE state # "STARTED"
    <3>1. Committed' = Committed /\ Voided' = Voided \cup {a}
      BY <1>3, <1>5, <2>2, <2>3, <2>5
    <3>2. Abstract!Void(a)
      BY <1>4, <2>2, <3>1 DEF Abstract!Void
    <3>3. QED
      BY <3>2 DEF Abstract!Next
  <2>6. QED
    BY <2>4, <2>5
<1>8. QED
  BY <1>2, <1>6, <1>7

\* A step that leaves FENCE, the network and the decided rows is a stutter.
LEMMA UndecidedRefines ==
    ASSUME DispatchInv, TypeOK', StreamsValid', UNCHANGED <<sentBy, fence>>,
           \A a \in Admissions :
              /\ Len(events'[a]) >= 2 <=> Len(events[a]) >= 2
              /\ Len(events[a]) >= 2 => events'[a][2] = events[a][2]
    PROVE  UNCHANGED Abstract!vars
<1>1. \A a \in Admissions :
        (a \in Committed' <=> a \in Committed) /\ (a \in Voided' <=> a \in Voided)
  BY DecidedStays DEF DispatchInv, DispatchTypes
<1>2. Committed' = Committed /\ Voided' = Voided
  <2>1. Committed \subseteq Admissions /\ Committed' \subseteq Admissions
        /\ Voided \subseteq Admissions /\ Voided' \subseteq Admissions
    BY DEF Committed, Voided
  <2>2. QED
    BY <1>1, <2>1
<1>3. QED
  BY <1>2 DEF Sent, Abstract!vars

\* The request leaves for an admission that is committed and not yet sent.
LEMMA SendRefines ==
    ASSUME DispatchInv, NEW c \in Calls, dispatch(c)
    PROVE  Abstract!Next
<1>1. PICK a \in Admissions : a = EffectOf[c]
  BY CallFacts
<1>2. TypeOK /\ StreamsValid /\ sentBy \in [Admissions -> SUBSET Calls]
  BY DEF DispatchInv, DispatchTypes
<1>3. /\ call[c].pc = "dispatch" /\ events' = events /\ fence' = fence
      /\ sentBy' = [sentBy EXCEPT ![a] = @ \cup {c}]
  BY <1>1 DEF dispatch, StoreUnchanged, vars
<1>4. StartedBy(c, call[c]) /\ c \notin sentBy[a]
  BY <1>1, <1>3, CallFacts DEF CallOK, PointOK, Unsent
<1>5. a \in Committed
  BY <1>1, <1>2, <1>4, Decided DEF StartedBy
<1>6. sentBy[a] = {}
  BY <1>1, <1>3, <1>4, OneSender
<1>7. Sent' = Sent \cup {a} /\ a \notin Sent
  BY <1>2, <1>3, <1>6 DEF Sent
<1>8. Committed' = Committed /\ Voided' = Voided
  BY <1>3 DEF Committed, Voided, Has
<1>9. Abstract!Send(a)
  BY <1>3, <1>5, <1>7, <1>8 DEF Abstract!Send
<1>10. QED
  BY <1>9 DEF Abstract!Next

\* Every step of the composition is a step of GovernedEffect or a stutter.
LEMMA StepRefines ==
    ASSUME DispatchInv, [DispatchNext]_allVars
    PROVE  [Abstract!Next]_(Abstract!vars)
<1>1. TypeOK /\ StreamsValid /\ now \in 1..MaxTime
  BY DEF DispatchInv, DispatchTypes
<1>2. TypeOK' /\ StreamsValid'
  BY <1>1, StoreStep, TypeStep, StreamsValidStep
<1>3. ASSUME UNCHANGED <<events, sentBy, fence>> PROVE UNCHANGED Abstract!vars
  BY <1>2, <1>3, UndecidedRefines
<1>4. CASE UNCHANGED allVars
  BY <1>3, <1>4 DEF allVars, vars, dispatchVars
<1>5. CASE DispatchEnvironment
  <2>1. UNCHANGED <<events, sentBy>>
    BY <1>5 DEF DispatchEnvironment, dispatchVars, Tick, Fence, AppendRelease,
       claimDispatchAdmission
  <2>2. CASE Fence
    <3>1. (fence > 0)' = TRUE
      BY <1>1, <2>2, BoundsAssumption DEF Fence, TypeOK
    <3>2. Committed' = Committed /\ Voided' = Voided /\ Sent' = Sent
      BY <2>1 DEF Committed, Voided, Sent, Has
    <3>3. Abstract!Stop
      BY <3>1, <3>2 DEF Abstract!Stop
    <3>4. QED
      BY <3>3 DEF Abstract!Next
  <2>3. CASE ~Fence
    <3>1. UNCHANGED fence
      BY <1>5, <2>3 DEF DispatchEnvironment, Tick, AppendRelease, claimDispatchAdmission
    <3>2. QED
      BY <1>3, <2>1, <3>1
  <2>4. QED
    BY <2>2, <2>3
<1>6. ASSUME NEW c \in Calls, Steps(c) PROVE [Abstract!Next]_(Abstract!vars)
  <2>1. PICK a \in Admissions : a = EffectOf[c]
    BY CallFacts
  <2>2. CASE dispatch(c)
    BY <2>2, SendRefines
  <2>3. CASE UNCHANGED sentBy /\ UNCHANGED vars
    BY <1>3, <2>3 DEF vars
  <2>4. CASE UNCHANGED sentBy /\ Admit(a)
    <3>1. /\ UNCHANGED fence /\ events[a] = <<>> /\ Len(events'[a]) = 1
          /\ \A b \in Admissions \ {a} : events'[b] = events[b]
      BY <1>1, <2>4, AdmitRow
    <3>2. Len(events[a]) = 0
      BY <3>1
    <3>3. ~(Len(events'[a]) >= 2) /\ ~(Len(events[a]) >= 2)
      BY <3>1, <3>2
    <3>4. \A b \in Admissions :
            /\ Len(events'[b]) >= 2 <=> Len(events[b]) >= 2
            /\ Len(events[b]) >= 2 => events'[b][2] = events[b][2]
      BY <3>1, <3>3
    <3>5. QED
      BY <1>2, <2>4, <3>1, <3>4, UndecidedRefines
  <2>5. ASSUME UNCHANGED sentBy, NEW meta \in Meta,
               NEW state \in {"STARTED", "NOT_STARTED", "UNCERTAIN"},
               Transition(a, state, meta)
        PROVE  [Abstract!Next]_(Abstract!vars)
    BY <1>2, <2>5, TransitionRefines
  <2>6. QED
    BY <1>6, <2>1, <2>2, <2>3, <2>4, <2>5, StepShape
<1>7. ASSUME NEW p \in Processes, Crash(p) PROVE [Abstract!Next]_(Abstract!vars)
  BY <1>3, <1>7 DEF Crash, StoreUnchanged, vars
<1>8. ASSUME NEW a \in Admissions, Acknowledge(a) PROVE [Abstract!Next]_(Abstract!vars)
  <2>1. PICK k \in Ack : closeEffectReservation(a, k, now)
    BY <1>8 DEF Acknowledge
  <2>2. /\ UNCHANGED fence /\ \A b \in Admissions \ {a} : events'[b] = events[b]
        /\ Len(events[a]) \in Nat /\ Len(events[a]) >= 2
        /\ Len(events'[a]) = Len(events[a]) + 1
        /\ \A i \in 1..Len(events[a]) : events'[a][i] = events[a][i]
    BY <1>1, <2>1, CloseRow
  <2>3. Len(events'[a]) >= 2 /\ events'[a][2] = events[a][2]
    BY <2>2
  <2>4. UNCHANGED sentBy
    BY <1>8 DEF Acknowledge, dispatchVars
  <2>5. QED
    BY <1>2, <2>2, <2>3, <2>4, UndecidedRefines
<1>9. QED
  BY <1>4, <1>5, <1>6, <1>7, <1>8 DEF DispatchNext

\* ImplementsGovernedEffect: commit or void before sending, send once, and no
\* commitment after the stop, for every instance of calls, processes and faults.
THEOREM DispatchImplementsEffect == DispatchSpec => ImplementsGovernedEffect
<1>1. DispatchInit => Abstract!Init
  <2> SUFFICES ASSUME DispatchInit PROVE Abstract!Init
    OBVIOUS
  <2>1. /\ fence = 0 /\ events = [a \in Admissions |-> <<>>]
        /\ sentBy = [a \in Admissions |-> {}]
    BY DEF DispatchInit, Init
  <2>2. Committed = {} /\ Voided = {} /\ Sent = {}
    BY <2>1 DEF Committed, Voided, Sent, Has
  <2>3. (fence > 0) = FALSE
    BY <2>1
  <2>4. QED
    BY <2>2, <2>3 DEF Abstract!Init
<1>2. DispatchInv /\ [DispatchNext]_allVars => [Abstract!Next]_(Abstract!vars)
  BY StepRefines
<1>3. QED
  BY <1>1, <1>2, DispatchInvariant, PTL
  DEF DispatchSpec, Abstract!Spec, ImplementsGovernedEffect
=============================================================================

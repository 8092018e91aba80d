-------------------------- MODULE ScopedStopProofs --------------------------
(***************************************************************************)
(* Proofs that the emergency-stop store keeps its promises for every set   *)
(* of scopes, commands, acknowledgement identities and concurrent          *)
(* requests, with advisory locks and without, and that it implements       *)
(* FenceRegister.                                                          *)
(***************************************************************************)
EXTENDS ScopedStop, TLAPS

-----------------------------------------------------------------------------
(* The inductive invariant *)

FenceStates == [cmd : Commands, ack : Acks, by : Requests]
Refused == {"stale", "conflict"}
RequestStates ==
    [pc : {"idle", "lock", "read", "write", "reread", "done"},
     cmd : Commands \cup {None}, ack : Acks \cup {None}, retry : BOOLEAN,
     result : {"none", "applied", "replayed", "failed"} \cup Refused,
     state : FenceStates \cup {None}]

\* A request that began has its command, and only one that ended has an answer.
RequestOK(r) ==
    /\ req[r] \in RequestStates
    /\ req[r].pc # "idle" => req[r].cmd \in Commands /\ req[r].ack \in Acks
    /\ req[r].pc # "done" => req[r].result = "none"
    /\ req[r].pc = "idle" => ~req[r].retry

\* Every variable has its type.
StopTypes ==
    /\ row \in [Scopes -> FenceStates \cup {None}]
    /\ DOMAIN req = Requests /\ req = [r \in Requests |-> req[r]]
    /\ \A r \in Requests : RequestOK(r)

\* The row of the scope of c is beyond c.
Superseded(c) ==
    row[c.scope] # None /\ c.epoch < row[c.scope].cmd.epoch

\* An acknowledged command is the one its receipt names; the row holds that very
\* receipt until a higher epoch replaces it.  A request whose upsert lost finds
\* the row that won, and one refused as stale the row it was compared with or a
\* higher one.
ReceiptOf(r) ==
    /\ req[r].pc = "reread" \/ req[r].result = "stale" => Reached(req[r].cmd)
    /\ Accepted(r) =>
        /\ req[r].state # None
        /\ req[r].state.cmd = req[r].cmd /\ req[r].state.ack = req[r].ack
        /\ Reached(req[r].cmd)
        /\ Superseded(req[r].cmd) \/ row[req[r].cmd.scope] = req[r].state

\* A retry of an acknowledged command finds that command in the row or a higher
\* epoch, and so never gets as far as writing.
RetryOf(r) ==
    req[r].retry =>
        LET c == req[r].cmd IN
        /\ req[r].pc \notin {"write", "reread"}
        /\ Reached(c)
        /\ Superseded(c) \/ (row[c.scope].cmd = c /\ row[c.scope].ack = req[r].ack)
        /\ req[r].result \in Refused => Superseded(c)

StopInv ==
    /\ StopTypes
    /\ \A r \in Requests : ReceiptOf(r) /\ RetryOf(r)
    /\ OneReceiptPerCommand

-----------------------------------------------------------------------------
(* What a step does *)

\* The row of s stays or is replaced by one of a higher epoch.
RowRises(s) ==
    \/ row'[s] = row[s]
    \/ /\ row'[s] # None
       /\ row[s] # None => row[s].cmd.epoch < row'[s].cmd.epoch

\* A step is one of request r: the others keep their state and no row goes back.
StepOf(r) ==
    /\ row' \in [Scopes -> FenceStates \cup {None}]
    /\ DOMAIN req' = Requests /\ req' = [q \in Requests |-> req'[q]]
    /\ \A q \in Requests \ {r} : req'[q] = req[q]
    /\ \A s \in Scopes : RowRises(s)

\* r was given the receipt that the others were given for its command.
SameReceipt(r) ==
    \A q \in Requests \ {r} :
        Accepted(q) /\ Accepted(r) /\ req[q].cmd = req[r].cmd
            => req[q].state = req[r].state

\* What was reached stays reached, and what was superseded stays superseded.
LEMMA RowsRise ==
    ASSUME StopTypes, NEW c \in Commands,
           row' \in [Scopes -> FenceStates \cup {None}],
           RowRises(c.scope)
    PROVE  /\ Reached(c) => Reached(c)'
           /\ Superseded(c) => Superseded(c)'
           /\ Reached(c) => Superseded(c)' \/ row'[c.scope] = row[c.scope]
<1>1. /\ c.scope \in Scopes /\ c.epoch \in Nat
      /\ \A f \in FenceStates : f.cmd.epoch \in Nat /\ f # None
    BY CommandsAssumption, NoneAssumption DEF FenceStates
<1>2. row[c.scope] \in FenceStates \cup {None} /\ row'[c.scope] \in FenceStates \cup {None}
    BY <1>1 DEF StopTypes
<1> QED
    BY <1>1, <1>2 DEF RowRises, Reached, Superseded

\* The requests that take no step keep their part of the invariant.
LEMMA OthersKeep ==
    ASSUME StopInv, NEW r \in Requests, StepOf(r), NEW q \in Requests \ {r}
    PROVE  RequestOK(q)' /\ ReceiptOf(q)' /\ RetryOf(q)'
<1>1. req'[q] = req[q] /\ RequestOK(q) /\ ReceiptOf(q) /\ RetryOf(q)
    BY DEF StepOf, StopInv, StopTypes
<1>2. RequestOK(q)'
    BY <1>1 DEF RequestOK
<1>3. CASE req[q].pc = "idle"
    BY <1>1, <1>2, <1>3 DEF RequestOK, ReceiptOf, RetryOf, Accepted
<1>4. CASE req[q].pc # "idle"
    <2> DEFINE c == req[q].cmd
    <2>1. c \in Commands /\ c.scope \in Scopes
        BY <1>1, <1>4, CommandsAssumption DEF RequestOK
    <2>2. /\ Reached(c) => Reached(c)'
          /\ Superseded(c) => Superseded(c)'
          /\ Reached(c) => Superseded(c)' \/ row'[c.scope] = row[c.scope]
        BY <2>1, RowsRise DEF StepOf, StopInv
    <2>3. ReceiptOf(q)'
        BY <1>1, <2>2 DEF ReceiptOf, Accepted, Reached, Superseded
    <2>4. RetryOf(q)'
        BY <1>1, <2>2 DEF RetryOf, Reached, Superseded
    <2> QED
        BY <1>2, <2>3, <2>4
<1> QED
    BY <1>3, <1>4

\* A step of r keeps the invariant if r and the rows do.
LEMMA StepKeeps ==
    ASSUME StopInv, NEW r \in Requests, StepOf(r),
           RequestOK(r)', ReceiptOf(r)', RetryOf(r)',
           SameReceipt(r)'
    PROVE  StopInv'
<1>1. \A q \in Requests : RequestOK(q)' /\ ReceiptOf(q)' /\ RetryOf(q)'
    BY OthersKeep
<1>2. OneReceiptPerCommand'
    <2> SUFFICES ASSUME NEW p \in Requests, NEW q \in Requests,
                        Accepted(p)', Accepted(q)', req'[p].cmd = req'[q].cmd
                 PROVE  req'[p].state = req'[q].state
        BY DEF OneReceiptPerCommand
    <2>1. CASE p # r /\ q # r
        BY <2>1 DEF StepOf, StopInv, OneReceiptPerCommand, Accepted
    <2>2. CASE p = r \/ q = r
        BY <2>2 DEF SameReceipt
    <2> QED
        BY <2>1, <2>2
<1> QED
    BY <1>1, <1>2 DEF StopInv, StopTypes, StepOf

\* A step that writes no row changes the state of one request only.
LEMMA NoRowWritten ==
    ASSUME StopInv, NEW r \in Requests, NEW n,
           req' = [req EXCEPT ![r] = n], UNCHANGED row
    PROVE  /\ StepOf(r) /\ req'[r] = n
           /\ \A c : (Reached(c)' <=> Reached(c)) /\ (Superseded(c)' <=> Superseded(c))
<1>1. row \in [Scopes -> FenceStates \cup {None}] /\ DOMAIN req = Requests
    BY DEF StopInv, StopTypes
<1>2. StepOf(r) /\ req'[r] = n
    BY <1>1 DEF StepOf, RowRises
<1> QED
    BY <1>2 DEF Reached, Superseded

\* A request that ended without an acknowledgement.
LEMMA EndsUnacknowledged ==
    ASSUME StopInv, NEW r \in Requests, req[r].pc # "idle",
           NEW result \in Refused \cup {"failed"},
           Finish(r, Answer(r, result, None)), UNCHANGED row,
           req[r].retry /\ result \in Refused => Superseded(req[r].cmd),
           result = "stale" => Reached(req[r].cmd)
    PROVE  StopInv'
<1> DEFINE n == [req[r] EXCEPT !.pc = "done", !.result = result, !.state = None]
<1>1. req' = [req EXCEPT ![r] = n]
    BY DEF Finish, Answer
<1>2. /\ StepOf(r) /\ req'[r] = n
    BY <1>1, NoRowWritten
<1>3. RequestOK(r)
    BY DEF StopInv, StopTypes
<1>4. /\ n.pc = "done" /\ n.cmd = req[r].cmd /\ n.ack = req[r].ack
      /\ n.retry = req[r].retry /\ n.result = result /\ n \in RequestStates
    BY <1>3 DEF RequestOK, RequestStates, Refused
<1>5. RequestOK(r)' /\ ReceiptOf(r)' /\ SameReceipt(r)'
    BY <1>2, <1>3, <1>4 DEF RequestOK, ReceiptOf, SameReceipt, Accepted, Refused, Reached
<1>6. RetryOf(r)'
    BY <1>2, <1>4 DEF StopInv, RetryOf, Reached, Superseded
<1> QED
    BY <1>2, <1>5, <1>6, StepKeeps

\* A request that goes on to its next statement.
LEMMA GoesOn ==
    ASSUME StopInv, NEW r \in Requests, req[r].pc # "idle", req[r].pc # "done",
           NEW pc \in {"lock", "read", "write", "reread"},
           req' = [req EXCEPT ![r].pc = pc], UNCHANGED row,
           req[r].retry => pc \notin {"write", "reread"},
           pc = "reread" => Reached(req[r].cmd)
    PROVE  StopInv'
<1> DEFINE n == [req[r] EXCEPT !.pc = pc]
<1>1. req' = [req EXCEPT ![r] = n]
    OBVIOUS
<1>2. /\ StepOf(r) /\ req'[r] = n
    BY <1>1, NoRowWritten
<1>3. RequestOK(r)
    BY DEF StopInv, StopTypes
<1>4. /\ n.pc = pc /\ n.cmd = req[r].cmd /\ n.ack = req[r].ack
      /\ n.retry = req[r].retry /\ n.result = "none" /\ n \in RequestStates
    BY <1>3 DEF RequestOK, RequestStates
<1>5. RequestOK(r)' /\ ReceiptOf(r)' /\ SameReceipt(r)'
    BY <1>2, <1>3, <1>4 DEF RequestOK, ReceiptOf, SameReceipt, Accepted, Reached
<1>6. RetryOf(r)'
    BY <1>2, <1>4 DEF StopInv, RetryOf, Reached, Superseded, Refused
<1> QED
    BY <1>2, <1>5, <1>6, StepKeeps

\* The comparison with the row of the request's own command_id.
LEMMA ReplayStep ==
    ASSUME StopInv, NEW r \in Requests, req[r].pc \in {"read", "reread"},
           row[req[r].cmd.scope] # None,
           Finish(r, ReplayAnswer(r, row[req[r].cmd.scope])), UNCHANGED row
    PROVE  StopInv'
<1> DEFINE c == req[r].cmd
           existing == row[c.scope]
<1>1. RequestOK(r) /\ c \in Commands /\ c.scope \in Scopes /\ c.epoch \in Nat
    BY CommandsAssumption DEF StopInv, StopTypes, RequestOK
<1>2. existing \in FenceStates
    BY <1>1 DEF StopInv, StopTypes
<1>3. CASE existing.cmd # c \/ existing.ack # req[r].ack
    <2>1. Finish(r, Answer(r, "conflict", None))
        BY <1>3 DEF ReplayAnswer
    <2>2. req[r].retry => Superseded(c)
        BY <1>3 DEF StopInv, RetryOf
    <2> QED
        BY <2>1, <2>2, EndsUnacknowledged DEF Refused
<1>4. CASE existing.cmd = c /\ existing.ack = req[r].ack
    <2> DEFINE n == [req[r] EXCEPT !.pc = "done", !.result = "replayed", !.state = existing]
    <2>1. req' = [req EXCEPT ![r] = n]
        BY <1>4 DEF ReplayAnswer, Finish, Answer
    <2>2. StepOf(r) /\ req'[r] = n
        BY <2>1, NoRowWritten
    <2>3. /\ n.pc = "done" /\ n.cmd = c /\ n.ack = req[r].ack /\ n.state = existing
          /\ n.retry = req[r].retry /\ n.result = "replayed" /\ n \in RequestStates
        BY <1>1, <1>2 DEF RequestOK, RequestStates
    <2>4. RequestOK(r)'
        BY <1>1, <2>2, <2>3 DEF RequestOK
    <2>5. ReceiptOf(r)'
        BY <1>1, <1>4, <2>2, <2>3 DEF ReceiptOf, Reached, Superseded
    <2>6. RetryOf(r)'
        BY <2>2, <2>3 DEF StopInv, RetryOf, Reached, Superseded, Refused
    <2>7. SameReceipt(r)'
        <3> SUFFICES ASSUME NEW q \in Requests \ {r}, Accepted(q)', req'[q].cmd = c
                     PROVE  req'[q].state = existing
            BY <2>2, <2>3 DEF SameReceipt
        <3>1. req'[q] = req[q] /\ Accepted(q) /\ ReceiptOf(q)
            BY <2>2 DEF StepOf, StopInv, Accepted
        <3> QED
            BY <1>1, <1>4, <3>1 DEF ReceiptOf, Superseded
    <2> QED
        BY <2>2, <2>4, <2>5, <2>6, <2>7, StepKeeps
<1> QED
    BY <1>3, <1>4

-----------------------------------------------------------------------------
(* The statements of Fence *)

\* A request begins; a retry of an acknowledged command is noted, and the
\* receipt that was given out says what its row holds.
LEMMA BeginStep ==
    ASSUME StopInv, NEW r \in Requests, NEW c \in Commands, NEW k \in Acks,
           Begin(r, c, k)
    PROVE  StopInv'
<1> DEFINE retried == \E q \in Requests :
                          Accepted(q) /\ req[q].cmd = c /\ req[q].ack = k
           n == [req[r] EXCEPT !.pc = IF scopeLocks THEN "lock" ELSE "read",
                               !.cmd = c, !.ack = k, !.retry = retried]
<1>1. req[r].pc = "idle" /\ req' = [req EXCEPT ![r] = n] /\ UNCHANGED row
    BY DEF Begin
<1>2. /\ StepOf(r) /\ req'[r] = n
    BY <1>1, NoRowWritten
<1>3. RequestOK(r)
    BY DEF StopInv, StopTypes
<1>4. retried \in BOOLEAN
    OBVIOUS
<1>5. /\ n.pc \in {"lock", "read"} /\ n.cmd = c /\ n.ack = k
      /\ n.retry = retried /\ n.result = "none" /\ n \in RequestStates
    <2> HIDE DEF retried
    <2> QED
        BY <1>1, <1>3, <1>4 DEF RequestOK, RequestStates
<1>6. RequestOK(r)' /\ ReceiptOf(r)' /\ SameReceipt(r)'
    BY <1>2, <1>5 DEF RequestOK, ReceiptOf, SameReceipt, Accepted
<1>7. RetryOf(r)'
    <2>1. CASE ~retried
        BY <1>2, <1>5, <2>1 DEF RetryOf
    <2>2. CASE retried
        <3>1. PICK q \in Requests : Accepted(q) /\ req[q].cmd = c /\ req[q].ack = k
            BY <2>2
        <3>2. /\ Reached(c)
              /\ Superseded(c) \/ (row[c.scope].cmd = c /\ row[c.scope].ack = k)
            BY <3>1 DEF StopInv, ReceiptOf
        <3>3. /\ Reached(c)'
              /\ Superseded(c)' \/ (row'[c.scope].cmd = c /\ row'[c.scope].ack = k)
            BY <1>1, <3>2 DEF Reached, Superseded
        <3>4. /\ req'[r].cmd = c /\ req'[r].ack = k
              /\ req'[r].pc \notin {"write", "reread"} /\ req'[r].result \notin Refused
            <4> HIDE DEF n
            <4> QED
                BY <1>2, <1>5 DEF Refused
        <3> HIDE DEF n, retried
        <3> QED
            BY <3>3, <3>4 DEF RetryOf
    <2> QED
        BY <2>1, <2>2
<1> QED
    BY <1>2, <1>6, <1>7, StepKeeps

\* The first read: a replay, a refusal, or on to the write, where no retry gets.
LEMMA ReadStep ==
    ASSUME StopInv, NEW r \in Requests, readExisting(r)
    PROVE  StopInv'
<1> DEFINE c == req[r].cmd
           existing == row[c.scope]
<1>1. /\ req[r].pc = "read" /\ c \in Commands /\ c.epoch \in Nat
      /\ existing # None => existing.cmd.epoch \in Nat
    BY CommandsAssumption
    DEF readExisting, StopInv, StopTypes, RequestOK, FenceStates
<1>2. CASE existing # None /\ existing.cmd.id = c.id
    BY <1>1, <1>2, ReplayStep DEF readExisting
<1>3. CASE existing # None /\ existing.cmd.id # c.id /\ c.epoch <= existing.cmd.epoch
    <2>1. Finish(r, Answer(r, "stale", None)) /\ UNCHANGED row
        BY <1>3 DEF readExisting
    <2>2. (req[r].retry => Superseded(c)) /\ Reached(c)
        BY <1>3 DEF StopInv, RetryOf, Reached
    <2> QED
        BY <1>1, <2>1, <2>2, EndsUnacknowledged DEF Refused
<1>4. CASE existing = None \/ (existing.cmd.id # c.id /\ ~(c.epoch <= existing.cmd.epoch))
    <2>1. Continue(r, "write")
        BY <1>4 DEF readExisting
    <2>2. ~req[r].retry
        BY <1>4 DEF StopInv, RetryOf, Reached
    <2> QED
        BY <1>1, <2>1, <2>2, GoesOn DEF Continue
<1> QED
    BY <1>2, <1>3, <1>4

\* The upsert that writes: the row had no epoch or a lower one, and whoever is told
\* of it is told of this row.
LEMMA WriteStep ==
    ASSUME StopInv, NEW r \in Requests, req[r].pc = "write",
           UpsertApplies(req[r].cmd),
           NEW state, state = [cmd |-> req[r].cmd, ack |-> req[r].ack, by |-> r],
           row' = [row EXCEPT ![req[r].cmd.scope] = state],
           \/ Finish(r, Answer(r, "applied", state))
           \/ Finish(r, Answer(r, "failed", None))
           \/ Finish(r, Answer(r, "conflict", None))
    PROVE  StopInv'
<1> DEFINE c == req[r].cmd
<1>1. /\ RequestOK(r) /\ c \in Commands /\ req[r].ack \in Acks
      /\ c.scope \in Scopes /\ c.epoch \in Nat
    BY CommandsAssumption DEF StopInv, StopTypes, RequestOK
<1>2. state \in FenceStates /\ state.cmd = c /\ state.ack = req[r].ack /\ state # None
    BY <1>1, NoneAssumption DEF FenceStates
<1>3. /\ row \in [Scopes -> FenceStates \cup {None}]
      /\ row' \in [Scopes -> FenceStates \cup {None}]
      /\ row'[c.scope] = state
      /\ \A s \in Scopes \ {c.scope} : row'[s] = row[s]
    BY <1>1, <1>2 DEF StopInv, StopTypes
<1>4. PICK n : /\ req' = [req EXCEPT ![r] = n]
               /\ n \in {Answer(r, "applied", state), Answer(r, "failed", None),
                        Answer(r, "conflict", None)}
    BY DEF Finish
<1>5. StepOf(r) /\ req'[r] = n
    <2>1. \A s \in Scopes : RowRises(s)
        BY <1>2, <1>3 DEF RowRises, UpsertApplies
    <2> QED
        BY <1>3, <1>4, <2>1 DEF StepOf, StopInv, StopTypes
<1>6. /\ n \in RequestStates /\ n.pc = "done" /\ n.cmd = c /\ n.ack = req[r].ack
      /\ n.retry = req[r].retry
      /\ n.result \in {"failed", "conflict"} \/ (n.result = "applied" /\ n.state = state)
    BY <1>1, <1>2, <1>4 DEF RequestOK, RequestStates, Answer, Refused
<1>7. ~n.retry
    BY <1>6 DEF StopInv, RetryOf
<1>8. RequestOK(r)' /\ RetryOf(r)'
    BY <1>1, <1>5, <1>6, <1>7 DEF RequestOK, RetryOf
<1>9. ReceiptOf(r)'
    BY <1>1, <1>2, <1>3, <1>5, <1>6 DEF ReceiptOf, Accepted, Reached
<1>10. SameReceipt(r)'
    <2> SUFFICES ASSUME NEW q \in Requests \ {r}, Accepted(q)', req'[q].cmd = c
                 PROVE  FALSE
        BY <1>5, <1>6 DEF SameReceipt
    <2>1. req'[q] = req[q] /\ Accepted(q) /\ ReceiptOf(q)
        BY <1>5 DEF StepOf, StopInv, Accepted
    <2>2. row[c.scope] # None /\ c.epoch <= row[c.scope].cmd.epoch
        BY <2>1 DEF ReceiptOf, Reached
    <2>3. row[c.scope].cmd.epoch \in Nat
        BY <1>1, <1>3, <2>2, CommandsAssumption DEF FenceStates
    <2> QED
        BY <1>1, <2>2, <2>3 DEF UpsertApplies
<1> QED
    BY <1>5, <1>8, <1>9, <1>10, StepKeeps

\* The upsert: an error on the command_id, a write, or a skipped row.
LEMMA UpsertStep ==
    ASSUME StopInv, NEW r \in Requests, upsertFence(r)
    PROVE  StopInv'
<1> DEFINE c == req[r].cmd
           state == [cmd |-> c, ack |-> req[r].ack, by |-> r]
<1>1. /\ req[r].pc = "write" /\ ~req[r].retry
      /\ c \in Commands /\ c.scope \in Scopes /\ c.epoch \in Nat
    BY CommandsAssumption
    DEF upsertFence, StopInv, StopTypes, RequestOK, RetryOf
<1>2. CASE Finish(r, Answer(r, "conflict", None)) /\ UNCHANGED row
    BY <1>1, <1>2, EndsUnacknowledged DEF Refused
<1>3. CASE /\ UpsertApplies(c)
           /\ row' = [row EXCEPT ![c.scope] = state]
           /\ \/ Finish(r, Answer(r, "applied", state))
              \/ Finish(r, Answer(r, "failed", None))
              \/ Finish(r, Answer(r, "conflict", None))
    BY <1>1, <1>3, WriteStep
<1>4. CASE ~UpsertApplies(c) /\ Continue(r, "reread")
    <2>1. Reached(c)
        <3>1. row[c.scope] # None /\ row[c.scope] \in FenceStates
            BY <1>1, <1>4 DEF UpsertApplies, StopInv, StopTypes
        <3>2. row[c.scope].cmd.epoch \in Nat
            BY <3>1, CommandsAssumption DEF FenceStates
        <3> QED
            BY <1>1, <1>4, <3>1, <3>2 DEF UpsertApplies, Reached
    <2> QED
        BY <1>1, <1>4, <2>1, GoesOn DEF Continue
<1> QED
    BY <1>2, <1>3, <1>4 DEF upsertFence

\* The read after an upsert that affected no row.
LEMMA RereadStep ==
    ASSUME StopInv, NEW r \in Requests, rereadCurrent(r)
    PROVE  StopInv'
<1> DEFINE c == req[r].cmd
<1>1. /\ req[r].pc = "reread" /\ row[c.scope] # None /\ ~req[r].retry /\ UNCHANGED row
      /\ Reached(c)
    BY DEF rereadCurrent, StopInv, ReceiptOf, RetryOf, Reached
<1>2. CASE Finish(r, ReplayAnswer(r, row[c.scope]))
    BY <1>1, <1>2, ReplayStep
<1>3. CASE Finish(r, Answer(r, "stale", None))
    BY <1>1, <1>3, EndsUnacknowledged DEF Refused
<1> QED
    BY <1>2, <1>3 DEF rereadCurrent

-----------------------------------------------------------------------------
(* The theorems *)

\* The invariant holds before the first request.
LEMMA StopInit == Init => StopInv
<1> SUFFICES ASSUME Init PROVE StopInv
    OBVIOUS
<1>1. StopTypes
    BY DEF Init, StopTypes, RequestOK, RequestStates
<1>2. ASSUME NEW r \in Requests PROVE ReceiptOf(r) /\ RetryOf(r)
    BY DEF Init, ReceiptOf, RetryOf, Accepted
<1>3. OneReceiptPerCommand
    BY DEF Init, OneReceiptPerCommand, Accepted
<1> QED
    BY <1>1, <1>2, <1>3 DEF StopInv

\* Every step keeps the invariant.
LEMMA StopStep == StopInv /\ [Next]_vars => StopInv'
<1> SUFFICES ASSUME StopInv, [Next]_vars PROVE StopInv'
    OBVIOUS
<1>1. ASSUME NEW r \in Requests, NEW c \in Commands, NEW k \in Acks, Begin(r, c, k)
      PROVE  StopInv'
    BY <1>1, BeginStep
<1>2. ASSUME NEW r \in Requests, Step(r)
      PROVE  StopInv'
    <2>1. CASE lockPostgresStopScope(r)
        BY <2>1, GoesOn DEF lockPostgresStopScope
    <2> QED
        BY <1>2, <2>1, ReadStep, UpsertStep, RereadStep DEF Step
<1>3. ASSUME NEW r \in Requests, fail(r)
      PROVE  StopInv'
    <2>1. CASE Finish(r, Answer(r, "failed", None))
        BY <1>3, <2>1, EndsUnacknowledged DEF fail, Refused
    <2>2. CASE req[r].pc = "write" /\ Finish(r, Answer(r, "conflict", None))
        <3>1. ~req[r].retry
            BY <2>2 DEF StopInv, RetryOf
        <3> QED
            BY <1>3, <2>2, <3>1, EndsUnacknowledged DEF fail, Refused
    <2> QED
        BY <1>3, <2>1, <2>2 DEF fail
<1>4. CASE UNCHANGED vars
    BY <1>4 DEF vars, StopInv, StopTypes, RequestOK, ReceiptOf, RetryOf, Reached,
                Superseded, Accepted, OneReceiptPerCommand
<1> QED
    BY <1>1, <1>2, <1>3, <1>4 DEF Next

\* The invariant of Fence, with and without scope locks.
THEOREM StopInvariant == Spec => []StopInv
BY StopInit, StopStep, PTL DEF Spec

\* Fence gives every caller of one command the same receipt, whichever request
\* wrote the row.
THEOREM StopOneReceipt == Spec => []OneReceiptPerCommand
<1>1. StopInv => OneReceiptPerCommand
    BY DEF StopInv
<1> QED
    BY <1>1, StopInvariant, PTL

\* Fence leaves nobody whom it refuses as stale without a fence: the epoch of the
\* scope is at the refused one or beyond it, then and in every later state.
THEOREM StopStaleCovered == Spec => []StaleStopIsCovered
<1>1. StopInv => StaleStopIsCovered
    BY DEF StopInv, ReceiptOf, StaleStopIsCovered
<1> QED
    BY <1>1, StopInvariant, PTL

\* Fence refuses a retry of an acknowledged command only when a later command has
\* taken its place.
THEOREM StopRetries == Spec => []RetryRefusedOnlyWhenSuperseded
<1>1. StopInv => RetryRefusedOnlyWhenSuperseded
    BY CommandsAssumption
    DEF StopInv, StopTypes, RequestOK, RetryOf, Superseded, Refused, FenceStates,
        RetryRefusedOnlyWhenSuperseded
<1> QED
    BY <1>1, StopInvariant, PTL

-----------------------------------------------------------------------------
(* The refinement *)

\* Ending or going on, a request keeps its command and touches no other.
LEMMA RequestMoves ==
    ASSUME StopInv, NEW r \in Requests
    PROVE  /\ \A a : Finish(r, a) => /\ req'[r] = a
                                    /\ \A q \in Requests \ {r} : req'[q] = req[q]
           /\ \A result, state : /\ Answer(r, result, state).pc = "done"
                                 /\ Answer(r, result, state).cmd = req[r].cmd
           /\ \A pc : req' = [req EXCEPT ![r].pc = pc] =>
                 /\ req'[r].pc = pc /\ req'[r].cmd = req[r].cmd
                 /\ \A q \in Requests \ {r} : req'[q] = req[q]
<1>1. DOMAIN req = Requests /\ req[r] \in RequestStates
    BY DEF StopInv, StopTypes, RequestOK
<1>2. \A a : Finish(r, a) => /\ req'[r] = a
                            /\ \A q \in Requests \ {r} : req'[q] = req[q]
    BY <1>1 DEF Finish
<1>3. \A result, state : /\ Answer(r, result, state).pc = "done"
                         /\ Answer(r, result, state).cmd = req[r].cmd
    BY <1>1 DEF Answer, RequestStates
<1>4. ASSUME NEW pc, req' = [req EXCEPT ![r].pc = pc]
      PROVE  /\ req'[r].pc = pc /\ req'[r].cmd = req[r].cmd
             /\ \A q \in Requests \ {r} : req'[q] = req[q]
    BY <1>1, <1>4 DEF RequestStates
<1> QED
    BY <1>2, <1>3, <1>4

\* A step of a request leaves the row alone or puts the request's own command
\* into a row without an epoch or with a lower one.
LEMMA StepShape ==
    ASSUME StopInv, NEW r \in Requests,
           \/ \E c \in Commands, k \in Acks : Begin(r, c, k)
           \/ Step(r)
           \/ fail(r)
    PROVE  LET c == req'[r].cmd IN
           /\ req[r].pc # "done" /\ req'[r].pc # "idle"
           /\ \A q \in Requests \ {r} : req'[q] = req[q]
           /\ \/ UNCHANGED row
              \/ /\ \A s \in Scopes \ {c.scope} : row'[s] = row[s]
                 /\ row'[c.scope].cmd = c /\ row'[c.scope] # None
                 /\ UpsertApplies(c)
<1> DEFINE c == req'[r].cmd
<1>1. RequestOK(r) /\ DOMAIN req = Requests
    BY DEF StopInv, StopTypes
<1>2. CASE \E d \in Commands, k \in Acks : Begin(r, d, k)
    <2>1. PICK d \in Commands, k \in Acks : Begin(r, d, k)
        BY <1>2
    <2> DEFINE retried == \E q \in Requests :
                              Accepted(q) /\ req[q].cmd = d /\ req[q].ack = k
               n == [req[r] EXCEPT !.pc = IF scopeLocks THEN "lock" ELSE "read",
                                   !.cmd = d, !.ack = k, !.retry = retried]
    <2>2. req[r].pc = "idle" /\ req' = [req EXCEPT ![r] = n] /\ UNCHANGED row
        BY <2>1 DEF Begin
    <2>3. n.pc \in {"lock", "read"}
        <3> HIDE DEF retried
        <3> QED
            BY <1>1 DEF RequestOK, RequestStates
    <2> HIDE DEF n
    <2> QED
        BY <1>1, <2>2, <2>3
<1>3. CASE upsertFence(r)
    <2>1. /\ req[r].pc = "write" /\ req[r].cmd \in Commands /\ req[r].ack \in Acks
          /\ req[r].cmd.scope \in Scopes
        BY <1>1, <1>3, CommandsAssumption DEF upsertFence, RequestOK
    <2>2. /\ \A q \in Requests \ {r} : req'[q] = req[q]
          /\ c = req[r].cmd /\ req'[r].pc # "idle"
        BY <1>3, RequestMoves DEF upsertFence, Continue
    <2>3. CASE UNCHANGED row
        BY <2>1, <2>2, <2>3
    <2>4. CASE /\ UpsertApplies(c)
               /\ row' = [row EXCEPT ![c.scope] =
                            [cmd |-> c, ack |-> req[r].ack, by |-> r]]
        <3>1. row'[c.scope] = [cmd |-> c, ack |-> req[r].ack, by |-> r]
            BY <2>1, <2>2, <2>4 DEF StopInv, StopTypes
        <3>2. row'[c.scope] # None
            BY <2>1, <2>2, <3>1, NoneAssumption
        <3>3. \A s \in Scopes \ {c.scope} : row'[s] = row[s]
            BY <2>4 DEF StopInv, StopTypes
        <3> QED
            BY <2>1, <2>2, <2>4, <3>1, <3>2, <3>3
    <2> QED
        BY <1>3, <2>2, <2>3, <2>4 DEF upsertFence, Continue
<1>4. CASE lockPostgresStopScope(r) \/ readExisting(r) \/ rereadCurrent(r) \/ fail(r)
    BY <1>4, RequestMoves
    DEF lockPostgresStopScope, readExisting, rereadCurrent, fail, Continue, ReplayAnswer
<1> QED
    BY <1>2, <1>3, <1>4 DEF Step

\* A step of a request raises the epoch of its scope or none, and promises the
\* epoch of its command or nothing.
LEMMA StepRefines ==
    ASSUME StopInv, StopInv', Next
    PROVE  Register!Next
<1>1. PICK r \in Requests :
        \/ \E c \in Commands, k \in Acks : Begin(r, c, k)
        \/ Step(r)
        \/ fail(r)
    BY DEF Next
<1>0. PICK c : c = req'[r].cmd
    OBVIOUS
<1>2. /\ req[r].pc # "done" /\ req'[r].pc # "idle"
      /\ \A q \in Requests \ {r} : req'[q] = req[q]
      /\ \/ UNCHANGED row
         \/ /\ \A s \in Scopes \ {c.scope} : row'[s] = row[s]
            /\ row'[c.scope].cmd = c /\ row'[c.scope] # None
            /\ UpsertApplies(c)
    BY <1>0, <1>1, StepShape
<1>3. c \in Commands /\ c.scope \in Scopes /\ c.epoch \in Nat \ {0}
    BY <1>0, <1>2, CommandsAssumption DEF StopInv, StopTypes, RequestOK
<1>4. /\ row \in [Scopes -> FenceStates \cup {None}]
      /\ row' \in [Scopes -> FenceStates \cup {None}]
      /\ \A f \in FenceStates : f.cmd.epoch \in Nat
    BY CommandsAssumption DEF StopInv, StopTypes, FenceStates
<1>5. Register!Raise(c.scope) \/ UNCHANGED Epoch
    <2>1. CASE UNCHANGED row
        BY <2>1 DEF Epoch
    <2>2. CASE /\ \A s \in Scopes \ {c.scope} : row'[s] = row[s]
               /\ row'[c.scope].cmd = c /\ row'[c.scope] # None
               /\ UpsertApplies(c)
        <3>1. Epoch[c.scope] < Epoch'[c.scope]
            BY <1>3, <1>4, <2>2 DEF Epoch, UpsertApplies
        <3>2. \A s \in Scopes \ {c.scope} : Epoch'[s] = Epoch[s]
            BY <1>4, <2>2 DEF Epoch
        <3>3. Epoch[c.scope] \in Nat /\ Epoch'[c.scope] \in Nat
            BY <1>3, <1>4 DEF Epoch
        <3>4. Epoch' = [Epoch EXCEPT ![c.scope] = Epoch'[c.scope]]
            BY <1>3, <3>2 DEF Epoch
        <3> QED
            BY <3>1, <3>3, <3>4 DEF Register!Raise
    <2> QED
        BY <1>2, <2>1, <2>2
<1>6. ~Accepted(r) /\ \A q \in Requests \ {r} : Accepted(q)' <=> Accepted(q)
    BY <1>2 DEF StopInv, StopTypes, RequestOK, Accepted
<1>7. CASE ~Accepted(r)'
    <2>1. Promised' = Promised
        BY <1>2, <1>6, <1>7 DEF Promised
    <2> QED
        BY <1>3, <1>5, <2>1 DEF Register!Next
<1>8. CASE Accepted(r)'
    <2>1. Promised' = Promised \cup {<<c.scope, c.epoch>>}
        BY <1>0, <1>2, <1>6, <1>8 DEF Promised
    <2>2. Reached(c)'
        BY <1>0, <1>8 DEF StopInv, ReceiptOf, Reached
    <2>3. c.epoch <= Epoch'[c.scope]
        BY <1>3, <2>2 DEF Reached, Epoch
    <2>4. Register!Promise(c.scope, c.epoch)
        BY <1>3, <2>1, <2>3 DEF Register!Promise
    <2>5. c.epoch \in {p[2] : p \in Promised'}
        <3>1. <<c.scope, c.epoch>> \in Promised' /\ <<c.scope, c.epoch>>[2] = c.epoch
            BY <2>1
        <3> QED
            BY <3>1
    <2> QED
        BY <1>3, <1>5, <2>4, <2>5 DEF Register!Next
<1> QED
    BY <1>7, <1>8

\* Fence implements the register of fences: no step of it takes an epoch back,
\* raises two scopes at once or acknowledges an epoch that is not in force.
THEOREM StopImplementsRegister == Spec => ImplementsFenceRegister
<1>1. Init => Register!Init
    BY DEF Init, Register!Init, Epoch, Promised, Accepted
<1>2. StopInv /\ StopInv' /\ [Next]_vars => [Register!Next]_(Register!vars)
    <2>1. CASE UNCHANGED vars
        BY <2>1 DEF vars, Register!vars, Epoch, Promised, Accepted
    <2> QED
        BY <2>1, StepRefines
<1> QED
    BY <1>1, <1>2, StopInvariant, PTL DEF Spec, Register!Spec, ImplementsFenceRegister
=============================================================================

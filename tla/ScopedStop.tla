----------------------------- MODULE ScopedStop -----------------------------
(***************************************************************************)
(* The emergency-stop fence store, core/pkg/kernel/scoped_stop.go: Fence   *)
(* and the rows it keeps, one per tenant/workspace scope.                  *)
(*                                                                         *)
(* With WithPostgresScopeLocks a request holds the scope's advisory lock   *)
(* from its first read to its commit.  Without it (SQLite) the read, the   *)
(* upsert and the read after a losing upsert are separate statements that  *)
(* interleave with other requests.  Requests may fail between statements   *)
(* and a commit may lose its answer; callers retry with a new request.     *)
(* The fenced_at time inside a receipt is unique to the request that wrote *)
(* it, so a receipt carries that request.                                  *)
(***************************************************************************)
EXTENDS Integers

CONSTANTS
    Scopes,
    Commands,       \* [id, scope, epoch, payload] of signed FENCE commands
    Requests,       \* invocations of Fence
    Acks,           \* kernel acknowledgement identities
    ScopeLockModes, \* the stores in use: TRUE with WithPostgresScopeLocks
    None

ASSUME CommandsAssumption ==
    /\ \A c \in Commands : c.scope \in Scopes /\ c.epoch \in Nat \ {0}
    /\ ScopeLockModes \subseteq BOOLEAN
    /\ None \notin Requests

ASSUME NoneAssumption == None \notin [cmd : Commands, ack : Acks, by : Requests]

VARIABLES
    scopeLocks, \* the store was opened with WithPostgresScopeLocks
    row,        \* row[s]: the fence row of s, or None
    lock,       \* lock[s]: the request that holds the scope lock, or None
    req         \* req[r]: program counter, command and answer of the request

vars == <<scopeLocks, row, lock, req>>

Accepted(r) == req[r].result \in {"applied", "replayed"}

\* The answer to a request: its result and the state it returns.
Answer(r, result, state) ==
    [req[r] EXCEPT !.pc = "done", !.result = result, !.state = state]

Finish(r, answer) ==
    /\ req' = [req EXCEPT ![r] = answer]
    /\ lock' = [s \in Scopes |-> IF lock[s] = r THEN None ELSE lock[s]]

Continue(r, pc) ==
    /\ req' = [req EXCEPT ![r].pc = pc]
    /\ UNCHANGED <<row, lock>>

\* Fence, up to its first statement: `retry` notes that the very command was
\* already acknowledged under the same identity when this request began.
Begin(r, c, k) ==
    /\ req[r].pc = "idle"
    /\ req' = [req EXCEPT ![r] =
         [@ EXCEPT !.pc = IF scopeLocks THEN "lock" ELSE "read",
                   !.cmd = c, !.ack = k,
                   !.retry = \E q \in Requests :
                      Accepted(q) /\ req[q].cmd = c /\ req[q].ack = k]]
    /\ UNCHANGED <<row, lock>>

\* lockPostgresStopScope
lockPostgresStopScope(r) ==
    /\ req[r].pc = "lock"
    /\ lock[req[r].cmd.scope] = None
    /\ lock' = [lock EXCEPT ![req[r].cmd.scope] = r]
    /\ req' = [req EXCEPT ![r].pc = "read"]
    /\ UNCHANGED row

\* The comparison of a request with the row of its own command_id.
ReplayAnswer(r, existing) ==
    IF existing.cmd # req[r].cmd \/ existing.ack # req[r].ack
    THEN Answer(r, "conflict", None)
    ELSE Answer(r, "replayed", existing)

\* Mutant: the epoch is compared before the command_id.
readExistingEpochFirst(r) ==
    LET c == req[r].cmd
        existing == row[c.scope]
    IN
    /\ req[r].pc = "read"
    /\ IF existing # None /\ c.epoch <= existing.cmd.epoch
       THEN Finish(r, Answer(r, "stale", None)) /\ UNCHANGED row
       ELSE Continue(r, "write")

\* Mutant: the epochs are compared over all scopes.
readExistingAnyScope(r) ==
    LET c == req[r].cmd
        existing == row[c.scope]
    IN
    /\ req[r].pc = "read"
    /\ IF existing # None /\ existing.cmd.id = c.id
       THEN Finish(r, ReplayAnswer(r, existing)) /\ UNCHANGED row
       ELSE IF \E s \in Scopes : row[s] # None /\ c.epoch <= row[s].cmd.epoch
       THEN Finish(r, Answer(r, "stale", None)) /\ UNCHANGED row
       ELSE Continue(r, "write")

\* fenceWithExecutor, the first read.
readExisting(r) ==
    LET c == req[r].cmd
        existing == row[c.scope]
    IN
    /\ req[r].pc = "read"
    /\ IF existing # None /\ existing.cmd.id = c.id
       THEN Finish(r, ReplayAnswer(r, existing)) /\ UNCHANGED row
       ELSE IF existing # None /\ c.epoch <= existing.cmd.epoch
       THEN Finish(r, Answer(r, "stale", None)) /\ UNCHANGED row
       ELSE Continue(r, "write")

\* command_id is unique over the rows of all scopes.
CommandIdTaken(c) ==
    \E s \in Scopes \ {c.scope} : row[s] # None /\ row[s].cmd.id = c.id

\* Mutant: the upsert has no WHERE clause.
UpsertAlways(c) == TRUE

\* The WHERE clause of the upsert.
UpsertApplies(c) == row[c.scope] # None => row[c.scope].cmd.epoch < c.epoch

\* The upsert, which commits, with or without its answer arriving.  A taken
\* command_id is an error unless the conflict on the scope is found first and
\* the WHERE clause then skips the row: the engines differ in that order.
\* Without a transaction the lost answer is that of the statement itself.
upsertFence(r) ==
    LET c == req[r].cmd
        state == [cmd |-> c, ack |-> req[r].ack, by |-> r]
    IN
    /\ req[r].pc = "write"
    /\ \/ CommandIdTaken(c) /\ Finish(r, Answer(r, "conflict", None))
          /\ UNCHANGED row
       \/ /\ ~CommandIdTaken(c) /\ UpsertApplies(c)
          /\ row' = [row EXCEPT ![c.scope] = state]
          /\ \/ Finish(r, Answer(r, "applied", state))
             \/ Finish(r, Answer(r, "failed", None))
             \/ ~scopeLocks /\ Finish(r, Answer(r, "conflict", None))
       \/ ~UpsertApplies(c) /\ Continue(r, "reread")

\* Mutant: a losing upsert returns the state it tried to write.
rereadOwn(r) ==
    /\ req[r].pc = "reread"
    /\ Finish(r, Answer(r, "replayed",
         [cmd |-> req[r].cmd, ack |-> req[r].ack, by |-> r]))
    /\ UNCHANGED row

\* The read after an upsert that affected no row.
rereadCurrent(r) ==
    LET current == row[req[r].cmd.scope] IN
    /\ req[r].pc = "reread"
    /\ IF current.cmd.id = req[r].cmd.id
       THEN Finish(r, ReplayAnswer(r, current))
       ELSE Finish(r, Answer(r, "stale", None))
    /\ UNCHANGED row

\* Mutant: a failed transaction keeps its lock.
failHoldingLock(r) ==
    /\ req[r].pc \in {"lock", "read", "write", "reread"}
    /\ req' = [req EXCEPT ![r] = Answer(r, "failed", None)]
    /\ UNCHANGED <<row, lock>>

\* A statement fails or the process dies; the transaction is rolled back.  Fence
\* wraps every error of the upsert, whatever its cause, in ErrScopedStopConflict.
fail(r) ==
    /\ req[r].pc \in {"lock", "read", "write", "reread"}
    /\ \/ Finish(r, Answer(r, "failed", None))
       \/ req[r].pc = "write" /\ Finish(r, Answer(r, "conflict", None))
    /\ UNCHANGED row

Init ==
    /\ scopeLocks \in ScopeLockModes
    /\ row = [s \in Scopes |-> None]
    /\ lock = [s \in Scopes |-> None]
    /\ req = [r \in Requests |->
                [pc |-> "idle", cmd |-> None, ack |-> None, retry |-> FALSE,
                 result |-> "none", state |-> None]]

Step(r) ==
    \/ lockPostgresStopScope(r) \/ readExisting(r)
    \/ upsertFence(r) \/ rereadCurrent(r)

Next ==
    /\ \E r \in Requests :
         \/ \E c \in Commands, k \in Acks : Begin(r, c, k)
         \/ Step(r)
         \/ fail(r)
    /\ UNCHANGED scopeLocks

Spec == Init /\ [][Next]_vars

\* Advisory locks are granted in turn to waiting transactions, and a
\* transaction that holds one runs on or is rolled back.
FairSpec == Spec /\ \A r \in Requests : SF_vars(Step(r) /\ UNCHANGED scopeLocks)

-----------------------------------------------------------------------------
(* Properties *)

Epoch == [s \in Scopes |-> IF row[s] = None THEN 0 ELSE row[s].cmd.epoch]
Promised == {<<req[r].cmd.scope, req[r].cmd.epoch>> : r \in {q \in Requests : Accepted(q)}}
Register == INSTANCE FenceRegister WITH
    Scope <- Scopes, epoch <- Epoch, promised <- Promised

\* The store implements FenceRegister, with and without scope locks: a fence is
\* never removed and its epoch never falls back, not even when a request that
\* read an older row writes late, and what was acknowledged is in force.
ImplementsFenceRegister == Register!Spec

\* All acknowledgements of one command are the same receipt: retries and
\* concurrent duplicates, whichever of them wrote the row, are told of it.
OneReceiptPerCommand ==
    \A q, r \in Requests :
        Accepted(q) /\ Accepted(r) /\ req[q].cmd = req[r].cmd
            => req[q].state = req[r].state

\* The row of the scope of c is at the epoch of c or beyond it.
Reached(c) == row[c.scope] # None /\ c.epoch <= row[c.scope].cmd.epoch

\* A stop that is refused as stale is not missing: its own scope is fenced at its
\* epoch or a higher one, and stays so, whatever requests that read an older row
\* write later.  A conflict says no such thing: any error of the upsert is one.
StaleStopIsCovered ==
    \A r \in Requests : req[r].result = "stale" => Reached(req[r].cmd)

\* Every request ends, also those queued behind a request that failed.
RequestsEnd == \A r \in Requests : req[r].pc # "idle" ~> req[r].pc = "done"

\* A retry of a command acknowledged before it began is told of the original
\* fence until a later command took its place: only then is it refused, because
\* a scope keeps the state of its latest command only.
RetryRefusedOnlyWhenSuperseded ==
    \A r \in Requests :
        req[r].retry /\ req[r].result \in {"stale", "conflict"}
            => row[req[r].cmd.scope].cmd.epoch > req[r].cmd.epoch
=============================================================================

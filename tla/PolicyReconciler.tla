--------------------------- MODULE PolicyReconciler ---------------------------
(***************************************************************************)
(* Runtime policy reconciliation for one scope: Reconciler                 *)
(* (core/pkg/policy/reconcile/reconcile.go) over PersistentSnapshotStore   *)
(* (persistent_store.go), as started by cmd/helm-ai-kernel/main.go, and the*)
(* Guardian's use of the installed snapshot (core/pkg/guardian).           *)
(*                                                                         *)
(* Reconcile runs under reconcileMu, so one is in progress at a time; the  *)
(* policy source, the clock and the Guardian move between its steps.  The  *)
(* replay watermark is renamed into place and its directory synced in two  *)
(* steps: a process that dies keeps the rename, a machine that loses power *)
(* may lose it unless it was synced.                                       *)
(***************************************************************************)
EXTENDS Naturals

CONSTANTS
    Epochs,         \* policy epochs a source publishes
    Policies,       \* contents; one stands for its hash and its head's hash
    Broken,         \* the contents that do not compile or validate
    MaxAge,         \* LastKnownGoodMaxAge, in ticks
    MaxFaults,      \* bound on failed watermark writes and stops
    None

ASSUME PolicyAssumption ==
    /\ Epochs \subseteq Nat \ {0}
    /\ Broken \subseteq Policies
    /\ MaxAge \in Nat \ {0}
    /\ MaxFaults \in Nat

ASSUME NoneAssumption == None \notin [epoch : Epochs, policy : Policies]

VARIABLES
    source,         \* the published head, or None: no acceptable head
    snap,           \* the installed snapshot, or None
    wm,             \* PersistentSnapshotStore.watermarks, or None
    unconfirmed,    \* PersistentSnapshotStore.durabilityUnconfirmed
    disk,           \* the watermark file, or None
    synced,         \* the watermark that power loss cannot take back
    rec,            \* the reconcile in progress
    proc,           \* "down", "boot" (first reconcile) or "up"
    keep,           \* keepLastKnownGood
    decision,       \* the head a signed decision is bound to, or None
    issuing,        \* an intent for it passed the policy check, not yet signed
    published,      \* every head the source offered whose content compiles
    served,         \* every head that was ever active
    inherited,      \* some process started over a watermark nobody had synced
    faults

vars == <<source, snap, wm, unconfirmed, disk, synced, rec, proc, keep,
          decision, issuing, published, served, inherited, faults>>
guardian == <<decision, issuing>>
store == <<wm, unconfirmed, disk, synced>>
history == <<published, served, inherited>>

Heads == [epoch : Epochs, policy : Policies]
NoReconcile == [pc |-> "idle", head |-> None, age |-> 0]

Offers(h) == {g \in {h} \ {None} : g.policy \notin Broken}

Active == snap # None /\ snap.status = "active"

\* h goes back behind g, or says something else about the same epoch.
Contradicts(h, g) ==
    /\ g # None
    /\ \/ h.epoch < g.epoch
       \/ h.epoch = g.epoch /\ h.policy # g.policy

-----------------------------------------------------------------------------
(* The end of a Reconcile *)

\* Reconcile returns an error; the first one of a process ends it.
Return ==
    /\ rec' = NoReconcile
    /\ proc' = IF proc = "boot" THEN "down" ELSE proc

\* lastKnownGoodFresh
Fresh == keep /\ Active /\ snap.age < MaxAge

\* Mutant: an expired snapshot stays active.
invalidKeeping ==
    Return /\ UNCHANGED <<source, snap, store, keep, guardian, history, faults>>

\* invalid: a source, hash, signature, compile or validation fault keeps a fresh
\* last-known-good snapshot and invalidates any other.
invalid ==
    /\ Return
    /\ snap' = IF snap = None \/ Fresh THEN snap ELSE [snap EXCEPT !.status = "invalid"]
    /\ UNCHANGED <<source, store, keep, guardian, history, faults>>

\* The in-memory swap, and the success of the Reconcile.
Install ==
    /\ snap' = [head |-> rec.head, status |-> "active", age |-> rec.age]
    /\ served' = served \cup {rec.head}
    /\ rec' = NoReconcile
    /\ proc' = "up"
    /\ UNCHANGED <<source, keep, guardian, published, inherited>>

\* Swap returns an error, which Reconcile hands on as it is.
SwapFails ==
    Return /\ UNCHANGED <<source, snap, keep, guardian, history>>

-----------------------------------------------------------------------------
(* Reconcile *)

Goto(pc, h) == rec' = [pc |-> pc, head |-> h, age |-> 0]

\* Head, its checks against the installed snapshot, and the no-change case, in
\* which the snapshot is only verified again.
readHead ==
    LET installed == IF snap = None THEN None ELSE snap.head IN
    /\ proc # "down" /\ rec.pc = "idle"
    /\ \/ source = None /\ invalid
       \/ source # None /\ Contradicts(source, installed) /\ invalid
       \/ /\ source # None /\ ~Contradicts(source, installed)
          /\ Goto(IF Active /\ source = installed THEN "swap" ELSE "load", source)
          /\ UNCHANGED <<source, snap, store, proc, keep, guardian, history, faults>>

\* Mutant: the loaded bundle is not compared with the hash of the head.
loadUnchecked ==
    /\ rec.pc = "load"
    /\ source # None
    /\ Goto("swap", [rec.head EXCEPT !.policy = source.policy])
    /\ UNCHANGED <<source, snap, store, proc, keep, guardian, history, faults>>

\* Load, the comparison of its bytes with the head's hash, compilation and
\* validation.
Loads == source # None /\ source.policy = rec.head.policy /\ rec.head.policy \notin Broken
load ==
    /\ rec.pc = "load"
    /\ \/ ~Loads /\ invalid
       \/ /\ Loads
          /\ Goto("swap", rec.head)
          /\ UNCHANGED <<source, snap, store, proc, keep, guardian, history, faults>>

\* Swap up to the rename of the new watermark file, which is skipped when there
\* is nothing to write.
SwapUnless(refused, write) ==
    /\ rec.pc = "swap"
    /\ \/ refused /\ SwapFails /\ UNCHANGED <<store, faults>>
       \/ ~refused /\ ~write /\ Install /\ UNCHANGED <<store, faults>>
       \/ /\ ~refused /\ write
          /\ disk' = rec.head
          /\ rec' = [rec EXCEPT !.pc = "sync"]
          /\ UNCHANGED <<source, snap, wm, unconfirmed, synced, proc, keep,
                         guardian, history, faults>>
       \/ /\ ~refused /\ write
          /\ faults < MaxFaults /\ faults' = faults + 1
          /\ SwapFails /\ UNCHANGED store

\* Mutant: an unconfirmed watermark is not written again.
swapOnce == SwapUnless(Contradicts(rec.head, wm), rec.head # wm)

\* Mutant: the epoch must rise.
swapRising ==
    SwapUnless(wm # None /\ rec.head.epoch <= wm.epoch /\ snap.head # rec.head,
               rec.head # wm \/ unconfirmed)

swap == SwapUnless(Contradicts(rec.head, wm), rec.head # wm \/ unconfirmed)

\* The sync of the directory.  When it fails the higher floor stays in memory.
syncDirectory ==
    /\ rec.pc = "sync"
    /\ wm' = rec.head
    /\ \/ synced' = disk /\ unconfirmed' = FALSE /\ Install /\ UNCHANGED faults
       \/ /\ faults < MaxFaults /\ faults' = faults + 1
          /\ unconfirmed' = TRUE /\ UNCHANGED synced
          /\ SwapFails
    /\ UNCHANGED disk

-----------------------------------------------------------------------------
(* Stops and starts *)

\* The process ends, or the machine loses power.  Signed decisions are elsewhere.
Stop ==
    /\ proc # "down" /\ faults < MaxFaults /\ faults' = faults + 1
    /\ proc' = "down"
    /\ rec' = NoReconcile
    /\ \/ UNCHANGED <<disk, synced>>
       \/ \E d \in {disk, synced} : disk' = d /\ synced' = d
    /\ issuing' = FALSE
    /\ UNCHANGED <<source, snap, wm, unconfirmed, keep, decision, history>>

\* A new process over the watermark w; a restored snapshot is not in force.
Start(w, restored) ==
    /\ proc = "down"
    /\ proc' = "boot"
    /\ wm' = w /\ unconfirmed' = FALSE
    /\ snap' = restored
    /\ inherited' = (inherited \/ disk # synced)
    /\ UNCHANGED <<source, disk, synced, rec, keep, guardian, published, served, faults>>

Restored(w) == [head |-> w, status |-> "invalid", age |-> MaxAge]

\* Mutant: the watermark file is not read.
NewStoreEmpty == Start(None, None)

\* NewPersistentSnapshotStore
NewPersistentSnapshotStore ==
    Start(disk, IF disk = None THEN None ELSE Restored(disk))

-----------------------------------------------------------------------------
(* The Guardian and the environment *)

\* EvaluateDecision binds a decision to the snapshot it finds active.  It may sign
\* it later; nothing is read again before IssueExecutionIntent checks the binding.
\* The model follows one decision at a time: a new one starts when no intent of the
\* last is being issued.
EvaluateDecision ==
    /\ proc = "up" /\ Active /\ ~issuing
    /\ decision' = snap.head
    /\ UNCHANGED <<source, snap, store, rec, proc, keep, issuing, history, faults>>

\* The policy check of IssueExecutionIntent.
IntentPermitted == proc = "up" /\ Active /\ snap.head = decision

\* IssueExecutionIntent up to the policy check; a decision may be older than the
\* running process.
IssueExecutionIntent ==
    /\ decision # None /\ ~issuing /\ IntentPermitted
    /\ issuing' = TRUE
    /\ UNCHANGED <<source, snap, store, rec, proc, keep, decision, history, faults>>

\* The rest of it, which reads no snapshot and takes no lock: the intent is signed
\* and the decision has served, or effect, lifetime or signer refuse.
signIntent ==
    /\ issuing /\ issuing' = FALSE
    /\ decision' \in {None, decision}
    /\ UNCHANGED <<source, snap, store, rec, proc, keep, history, faults>>

\* Whoever maintains the source publishes another head, or nothing acceptable.
Publish ==
    /\ source' \in (Heads \cup {None}) \ {source}
    /\ published' = published \cup Offers(source')
    /\ UNCHANGED <<snap, store, rec, proc, keep, guardian, served, inherited, faults>>

\* Time passes for the snapshot and for the one about to be installed.
Older(age) == IF age < MaxAge THEN age + 1 ELSE age
Tick ==
    /\ snap' = IF snap = None THEN None ELSE [snap EXCEPT !.age = Older(@)]
    /\ rec' = IF rec.pc = "idle" THEN rec ELSE [rec EXCEPT !.age = Older(@)]
    /\ UNCHANGED <<source, store, proc, keep, guardian, history, faults>>

Init ==
    /\ source \in Heads \cup {None}
    /\ snap = None /\ wm = None /\ disk = None /\ synced = None
    /\ unconfirmed = FALSE
    /\ rec = NoReconcile
    /\ proc = "down"
    /\ keep \in BOOLEAN
    /\ decision = None /\ issuing = FALSE
    /\ published = Offers(source)
    /\ served = {} /\ inherited = FALSE /\ faults = 0

Reconcile == readHead \/ load \/ swap \/ syncDirectory

Next ==
    \/ Reconcile
    \/ Stop \/ NewPersistentSnapshotStore
    \/ EvaluateDecision \/ IssueExecutionIntent \/ signIntent
    \/ Publish \/ Tick

Spec == Init /\ [][Next]_vars

\* The poll of Start keeps calling Reconcile, time passes, and a process that
\* ended is started again.
FairSpec ==
    /\ Spec
    /\ WF_vars(Reconcile) /\ WF_vars(Tick) /\ WF_vars(NewPersistentSnapshotStore)

-----------------------------------------------------------------------------
(* Properties *)

\* A policy the Guardian may decide under.
InForce == proc = "up" /\ Active

\* No policy that was ever in force is contradicted by a later one, in this
\* process or after any number of restarts and failed writes: epochs do not go
\* back and an epoch keeps its policy, power loss included, as long as no process
\* was started over a watermark that an earlier one renamed and did not sync.
NoRollback ==
    InForce /\ ~inherited => \A h \in served : ~Contradicts(snap.head, h)

\* The watermark on stable storage never goes back and never changes what it says
\* of its epoch, whatever is lost: not by a late write, not by a restart.
StableWatermarkRises ==
    [][ synced # None => synced' # None /\ ~Contradicts(synced', synced) ]_vars

\* What comes into force is a head the source offered, whose content compiled: a
\* source that changes between Head and Load never installs one's content under
\* the other's epoch.
ServedAsPublished == served \subseteq published

\* A source that stops offering an acceptable head ends the authority of the
\* policy in force: last-known-good retention is bounded.
RetentionEnds == <>[](source = None) => <>[]~InForce

\* A published policy that compiles and is no rollback comes into force, after
\* failed writes, an unconfirmed rename or restarts as well.
PolicyConverges ==
    \A h \in Heads : h.policy \notin Broken =>
        (<>[](source = h /\ ~Contradicts(h, disk)) => <>[](InForce /\ snap.head = h))

\* persistent_store.go: the store persists "the minimum replay watermark needed to
\* reject rollback after a restart".
NoRollbackEver == InForce => \A h \in served : ~Contradicts(snap.head, h)
=============================================================================

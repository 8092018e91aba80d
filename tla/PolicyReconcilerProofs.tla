----------------------- MODULE PolicyReconcilerProofs -----------------------
(***************************************************************************)
(* Proofs that the policy reconciler and its replay watermark keep their   *)
(* promises for every set of epochs and policies, every retention age and  *)
(* any number of failed writes, stops and losses of power.                 *)
(***************************************************************************)
EXTENDS PolicyReconciler, TLAPS

-----------------------------------------------------------------------------
(* The inductive invariant *)

Snapshots == [head : Heads, status : {"active", "invalid"}, age : Nat]

\* Reconciler, store and history have their types, and a process that is down
\* reconciles nothing.
PolicyTypes ==
    /\ source \in Heads \cup {None}
    /\ snap \in Snapshots \cup {None}
    /\ wm \in Heads \cup {None}
    /\ disk \in Heads \cup {None}
    /\ synced \in Heads \cup {None}
    /\ unconfirmed \in BOOLEAN /\ inherited \in BOOLEAN
    /\ rec \in [pc : {"idle", "load", "swap", "sync"},
                head : Heads \cup {None}, age : Nat]
    /\ rec.pc # "idle" => rec.head \in Heads
    /\ proc \in {"down", "boot", "up"}
    /\ proc = "down" => rec.pc = "idle"
    /\ published \subseteq Heads /\ served \subseteq Heads

\* The floor h covers g: it is there if g is, and does not go back behind it.
Covers(h, g) == g # None => h # None /\ ~Contradicts(h, g)

\* The renamed file covers what is stable.  A running process knows the file,
\* except between its rename and its sync.
FloorsOrdered ==
    /\ Covers(disk, synced)
    /\ proc # "down" /\ rec.pc # "sync" => wm = disk
    /\ proc # "down" /\ rec.pc = "sync" =>
         disk = rec.head /\ Covers(disk, wm) /\ Covers(wm, synced)

\* As long as nobody trusted an unsynced file, a confirmed floor is stable, what
\* was ever in force is covered by stable storage, and what is in force covers
\* what was.
ServedCovered ==
    ~inherited =>
      /\ proc # "down" /\ ~unconfirmed => synced = wm
      /\ \A h \in served : Covers(synced, h)
      /\ InForce => \A h \in served : Covers(snap.head, h)

\* A head that compiles was offered; what is about to be installed compiles.
Provenance ==
    /\ \A h \in published : h.policy \notin Broken
    /\ source # None /\ source.policy \notin Broken => source \in published
    /\ rec.pc # "idle" /\ rec.head.policy \notin Broken => rec.head \in published
    /\ rec.pc \in {"swap", "sync"} => rec.head.policy \notin Broken
    /\ served \subseteq published
    /\ Active => snap.head \in served

PolicyInv == PolicyTypes /\ FloorsOrdered /\ ServedCovered /\ Provenance

-----------------------------------------------------------------------------
(* Floors *)

\* Covering is a preorder: floors that only rise never contradict a head that
\* was served under an earlier one.
LEMMA CoversOrder ==
    ASSUME NEW a \in Heads \cup {None}, NEW b \in Heads \cup {None},
           NEW c \in Heads \cup {None}
    PROVE  Covers(a, a) /\ (Covers(a, b) /\ Covers(b, c) => Covers(a, c))
<1>1. \A h \in Heads : h.epoch \in Nat /\ h # None
    BY PolicyAssumption, NoneAssumption DEF Heads
<1> QED
    BY <1>1 DEF Covers, Contradicts

-----------------------------------------------------------------------------
(* What the steps write *)

\* Reconciler.invalid installs nothing: it keeps the snapshot or takes it out of
\* force.
LEMMA InvalidFacts ==
    ASSUME PolicyTypes, invalid
    PROVE  /\ PolicyTypes'
           /\ rec' = NoReconcile /\ proc' \in {proc, "down"}
           /\ Active' => Active /\ snap' = snap
           /\ UNCHANGED <<source, store, history>>
<1>1. /\ rec' = NoReconcile /\ proc' \in {proc, "down"}
      /\ UNCHANGED <<source, store, history>>
    BY DEF invalid, Return
<1>2. snap' \in Snapshots \cup {None} /\ (Active' => Active /\ snap' = snap)
    <2>1. CASE snap' = snap
        BY <2>1 DEF PolicyTypes, Active
    <2>2. CASE snap # None /\ snap' = [snap EXCEPT !.status = "invalid"]
        <3>1. snap \in Snapshots
            BY <2>2 DEF PolicyTypes
        <3> QED
            BY <2>2, <3>1 DEF Snapshots, Active
    <2> QED
        BY <2>1, <2>2 DEF invalid
<1>3. NoReconcile \in [pc : {"idle", "load", "swap", "sync"},
                       head : Heads \cup {None}, age : Nat]
      /\ NoReconcile.pc = "idle"
    BY DEF NoReconcile
<1>4. PolicyTypes'
    BY <1>1, <1>2, <1>3 DEF PolicyTypes, store, history
<1> QED
    BY <1>1, <1>2, <1>4

\* The swap in memory puts the reconciled head in force and remembers it.
LEMMA InstallFacts ==
    ASSUME PolicyTypes, rec.pc \in {"swap", "sync"}, Install
    PROVE  /\ rec.head \in Heads
           /\ snap' \in Snapshots /\ snap'.head = rec.head
           /\ served' = served \cup {rec.head} /\ served' \subseteq Heads
           /\ rec' = NoReconcile /\ proc' = "up"
           /\ UNCHANGED <<source, published, inherited>>
    BY DEF PolicyTypes, Install, Snapshots

\* A step that writes no floor and puts nothing in force leaves floors and
\* history in order: the checks of Reconcile, the Guardian, the source, the clock.
LEMMA QuietStep ==
    ASSUME FloorsOrdered, ServedCovered,
           UNCHANGED <<store, served, inherited>>,
           proc' \in {proc, "down"},
           (rec'.pc = "sync") <=> (rec.pc = "sync"),
           rec'.pc = "sync" => rec'.head = rec.head,
           Active' => Active /\ snap'.head = snap.head
    PROVE  FloorsOrdered' /\ ServedCovered'
<1>1. FloorsOrdered'
    BY DEF FloorsOrdered, store, Covers, Contradicts
<1>2. InForce' => InForce /\ snap'.head = snap.head
    BY DEF InForce
<1>3. ServedCovered'
    BY <1>2 DEF ServedCovered, store, Covers, Contradicts
<1> QED
    BY <1>1, <1>3

\* A fault of the source, the hash, the signature, the compiler or the validation.
LEMMA InvalidStep ==
    ASSUME PolicyInv, rec.pc # "sync", invalid
    PROVE  PolicyInv'
<1>1. /\ PolicyTypes' /\ rec' = NoReconcile /\ proc' \in {proc, "down"}
      /\ Active' => Active /\ snap' = snap
      /\ UNCHANGED <<source, store, history>>
    BY InvalidFacts DEF PolicyInv
<1>2. rec'.pc = "idle"
    BY <1>1 DEF NoReconcile
<1>3. FloorsOrdered' /\ ServedCovered'
    BY <1>1, <1>2, QuietStep DEF PolicyInv, history
<1>4. Provenance'
    BY <1>1, <1>2 DEF PolicyInv, Provenance, history
<1> QED
    BY <1>1, <1>3, <1>4 DEF PolicyInv

-----------------------------------------------------------------------------
(* The steps of Reconcile *)

\* Head and the checks against the installed snapshot.
LEMMA ReadHeadStep ==
    ASSUME PolicyInv, readHead
    PROVE  PolicyInv'
<1>1. CASE invalid
    BY <1>1, InvalidStep DEF readHead
<1>2. CASE ~invalid
    <2> DEFINE pc == IF Active /\ source = snap.head THEN "swap" ELSE "load"
    <2>1. /\ source # None /\ rec.pc = "idle"
          /\ rec' = [pc |-> pc, head |-> source, age |-> 0]
          /\ UNCHANGED <<source, snap, store, proc, history>>
          /\ proc # "down"
        BY <1>2 DEF readHead, Goto, Active
    <2>2. source \in Heads
        BY <2>1 DEF PolicyInv, PolicyTypes
    <2>3. PolicyTypes'
        BY <2>1, <2>2 DEF PolicyInv, PolicyTypes, store, history
    <2>4. FloorsOrdered' /\ ServedCovered'
        BY <2>1, QuietStep DEF PolicyInv, Active, history
    <2>5. pc = "swap" => source.policy \notin Broken
        BY DEF PolicyInv, Provenance
    <2>6. Provenance'
        BY <2>1, <2>5 DEF PolicyInv, Provenance, Active, history
    <2> QED
        BY <2>3, <2>4, <2>6 DEF PolicyInv
<1> QED
    BY <1>1, <1>2

\* Load, hash, compilation and validation.
LEMMA LoadStep ==
    ASSUME PolicyInv, load
    PROVE  PolicyInv'
<1>1. CASE invalid
    BY <1>1, InvalidStep DEF load
<1>2. CASE ~invalid
    <2>1. /\ rec.pc = "load" /\ rec.head.policy \notin Broken
          /\ rec' = [pc |-> "swap", head |-> rec.head, age |-> 0]
          /\ UNCHANGED <<source, snap, store, proc, history>>
        BY <1>2 DEF load, Loads, Goto
    <2>2. PolicyTypes'
        BY <2>1 DEF PolicyInv, PolicyTypes, store, history
    <2>3. FloorsOrdered' /\ ServedCovered'
        BY <2>1, QuietStep DEF PolicyInv, Active, history
    <2>4. Provenance'
        BY <2>1 DEF PolicyInv, Provenance, Active, history
    <2> QED
        BY <2>2, <2>3, <2>4 DEF PolicyInv
<1> QED
    BY <1>1, <1>2

\* A refused or failed swap leaves the store and the snapshot as they were.
LEMMA SwapFailsStep ==
    ASSUME PolicyInv, rec.pc = "swap", SwapFails, UNCHANGED store
    PROVE  PolicyInv'
<1>1. /\ rec' = NoReconcile /\ proc' \in {proc, "down"}
      /\ UNCHANGED <<source, snap, store, history>>
    BY DEF SwapFails, Return
<1>2. rec' \in [pc : {"idle", "load", "swap", "sync"},
                head : Heads \cup {None}, age : Nat] /\ rec'.pc = "idle"
    BY <1>1 DEF NoReconcile
<1>3. PolicyTypes'
    BY <1>1, <1>2 DEF PolicyInv, PolicyTypes, store, history
<1>4. FloorsOrdered' /\ ServedCovered'
    BY <1>1, <1>2, QuietStep DEF PolicyInv, Active, history
<1>5. Provenance'
    BY <1>1, <1>2 DEF PolicyInv, Provenance, Active, history
<1> QED
    BY <1>3, <1>4, <1>5 DEF PolicyInv

\* A swap comes into force over a stable floor that equals it.
LEMMA InstallStep ==
    ASSUME PolicyInv, rec.pc \in {"swap", "sync"}, Install,
           wm' = rec.head, disk' = rec.head,
           unconfirmed' = FALSE,
           ~inherited => synced' = rec.head,
           synced' \in Heads \cup {None},
           Covers(disk', synced'), Covers(synced', synced)
    PROVE  PolicyInv'
<1>1. /\ rec.head \in Heads
      /\ snap' \in Snapshots /\ snap'.head = rec.head
      /\ served' = served \cup {rec.head} /\ served' \subseteq Heads
      /\ rec' = NoReconcile /\ proc' = "up"
      /\ UNCHANGED <<source, published, inherited>>
    BY InstallFacts DEF PolicyInv
<1>2. rec' \in [pc : {"idle", "load", "swap", "sync"},
                head : Heads \cup {None}, age : Nat] /\ rec'.pc = "idle"
    BY <1>1 DEF NoReconcile
<1>3. PolicyTypes'
    BY <1>1, <1>2 DEF PolicyInv, PolicyTypes
<1>4. FloorsOrdered'
    BY <1>1, <1>2 DEF FloorsOrdered
<1>5. ServedCovered'
    <2>1. ASSUME ~inherited, NEW h \in served'
          PROVE  Covers(rec.head, h)
        <3>1. h \in Heads /\ rec.head \in Heads \cup {None}
              /\ synced \in Heads \cup {None} /\ synced' = rec.head
            BY <1>1, <2>1 DEF PolicyInv, PolicyTypes
        <3>2. CASE h = rec.head
            BY <3>1, <3>2, CoversOrder
        <3>3. CASE h \in served
            <4>1. Covers(synced, h)
                BY <2>1, <3>3 DEF PolicyInv, ServedCovered
            <4> QED
                BY <3>1, <4>1, CoversOrder
        <3> QED
            BY <1>1, <3>2, <3>3
    <2> QED
        BY <1>1, <2>1 DEF ServedCovered, InForce, Covers, Contradicts
<1>6. Provenance'
    BY <1>1, <1>2 DEF PolicyInv, Provenance, Active
<1> QED
    BY <1>3, <1>4, <1>5, <1>6 DEF PolicyInv

\* PersistentSnapshotStore.Swap up to the rename.
LEMMA SwapStep ==
    ASSUME PolicyInv, swap
    PROVE  PolicyInv'
<1> DEFINE refused == Contradicts(rec.head, wm)
           write == rec.head # wm \/ unconfirmed
<1>1. /\ rec.pc = "swap" /\ rec.head \in Heads /\ proc # "down" /\ wm = disk
      /\ rec.head # None
    BY NoneAssumption
    DEF swap, SwapUnless, PolicyInv, PolicyTypes, FloorsOrdered, Heads
<1>2. CASE SwapFails /\ UNCHANGED store
    BY <1>1, <1>2, SwapFailsStep
<1>3. CASE ~write /\ Install /\ UNCHANGED store
    <2>1. /\ wm' = rec.head /\ disk' = rec.head /\ unconfirmed' = FALSE
          /\ synced' = synced
        BY <1>1, <1>3 DEF store, PolicyInv, PolicyTypes
    <2>2. ~inherited => synced' = rec.head
        BY <1>1, <1>3, <2>1 DEF PolicyInv, ServedCovered
    <2>3. synced \in Heads \cup {None} /\ Covers(disk, synced)
        BY DEF PolicyInv, PolicyTypes, FloorsOrdered
    <2>4. Covers(synced, synced)
        BY <2>3, CoversOrder
    <2>5. Covers(disk', synced') /\ Covers(synced', synced)
          /\ synced' \in Heads \cup {None}
        BY <1>3, <2>1, <2>3, <2>4 DEF store, Covers, Contradicts
    <2> QED
        BY <1>1, <1>3, <2>1, <2>2, <2>5, InstallStep
<1>4. CASE /\ ~refused
           /\ disk' = rec.head /\ rec' = [rec EXCEPT !.pc = "sync"]
           /\ UNCHANGED <<source, snap, wm, unconfirmed, synced, proc, keep,
                          guardian, history, faults>>
    <2>1. rec' \in [pc : {"idle", "load", "swap", "sync"},
                    head : Heads \cup {None}, age : Nat]
          /\ rec'.pc = "sync" /\ rec'.head = rec.head
        BY <1>4 DEF PolicyInv, PolicyTypes
    <2>2. PolicyTypes'
        BY <1>1, <1>4, <2>1 DEF PolicyInv, PolicyTypes, history
    <2>3. Covers(rec.head, wm) /\ Covers(wm, synced)
        BY <1>1, <1>4 DEF PolicyInv, FloorsOrdered, Covers
    <2>4. Covers(rec.head, synced)
        BY <1>1, <2>3, CoversOrder DEF PolicyInv, PolicyTypes
    <2>5. FloorsOrdered'
        BY <1>1, <1>4, <2>1, <2>3, <2>4 DEF FloorsOrdered, Covers, Contradicts
    <2>6. ServedCovered'
        BY <1>4 DEF PolicyInv, ServedCovered, InForce, Active, history,
                    Covers, Contradicts
    <2>7. Provenance'
        BY <1>1, <1>4, <2>1 DEF PolicyInv, Provenance, Active, history
    <2> QED
        BY <2>2, <2>5, <2>6, <2>7 DEF PolicyInv
<1> QED
    BY <1>2, <1>3, <1>4 DEF swap, SwapUnless

\* The sync of the directory, confirmed or not.
LEMMA SyncStep ==
    ASSUME PolicyInv, syncDirectory
    PROVE  PolicyInv'
<1>1. /\ rec.pc = "sync" /\ rec.head \in Heads /\ proc # "down"
      /\ disk = rec.head /\ wm' = rec.head /\ disk' = disk
      /\ Covers(disk, synced) /\ synced \in Heads \cup {None}
    BY DEF syncDirectory, PolicyInv, PolicyTypes, FloorsOrdered
<1>2. CASE synced' = disk /\ unconfirmed' = FALSE /\ Install
    BY <1>1, <1>2, InstallStep, CoversOrder
<1>3. CASE unconfirmed' = TRUE /\ UNCHANGED synced /\ SwapFails
    <2>1. /\ rec' = NoReconcile /\ proc' \in {proc, "down"}
          /\ UNCHANGED <<source, snap, history>>
        BY <1>3 DEF SwapFails, Return
    <2>2. rec' \in [pc : {"idle", "load", "swap", "sync"},
                    head : Heads \cup {None}, age : Nat] /\ rec'.pc = "idle"
        BY <2>1 DEF NoReconcile
    <2>3. PolicyTypes'
        BY <1>1, <1>3, <2>1, <2>2 DEF PolicyInv, PolicyTypes, history
    <2>4. FloorsOrdered'
        BY <1>1, <1>3, <2>2 DEF FloorsOrdered, Covers, Contradicts
    <2>5. ServedCovered'
        BY <1>3, <2>1 DEF PolicyInv, ServedCovered, InForce, Active, history,
                          Covers, Contradicts
    <2>6. Provenance'
        BY <2>1, <2>2 DEF PolicyInv, Provenance, Active, history
    <2> QED
        BY <2>3, <2>4, <2>5, <2>6 DEF PolicyInv
<1> QED
    BY <1>2, <1>3 DEF syncDirectory

-----------------------------------------------------------------------------
(* Stops, starts, the Guardian and the environment *)

\* The end of the process, or of the power: the stable floor stays or becomes the
\* file, which covers it.
LEMMA StopStep ==
    ASSUME PolicyInv, Stop
    PROVE  PolicyInv'
<1>1. /\ rec' = NoReconcile /\ proc' = "down"
      /\ UNCHANGED <<source, snap, wm, unconfirmed, history>>
    BY DEF Stop
<1>2. /\ disk' \in {disk, synced} /\ synced' \in {disk, synced}
      /\ (disk' = disk /\ synced' = synced) \/ disk' = synced'
    BY DEF Stop
<1>3. /\ disk \in Heads \cup {None} /\ synced \in Heads \cup {None}
      /\ Covers(disk, synced)
    BY DEF PolicyInv, PolicyTypes, FloorsOrdered
<1>4. rec' \in [pc : {"idle", "load", "swap", "sync"},
                head : Heads \cup {None}, age : Nat] /\ rec'.pc = "idle"
    BY <1>1 DEF NoReconcile
<1>5. PolicyTypes'
    BY <1>1, <1>2, <1>3, <1>4 DEF PolicyInv, PolicyTypes, history
<1>6. FloorsOrdered'
    <2>1. Covers(disk', synced')
        <3>1. CASE disk' = disk /\ synced' = synced
            BY <1>3, <3>1
        <3>2. CASE disk' = synced'
            <4>1. disk' \in Heads \cup {None}
                BY <1>2, <1>3
            <4> QED
                BY <3>2, <4>1, CoversOrder
        <3> QED
            BY <1>2, <3>1, <3>2
    <2> QED
        BY <1>1, <2>1 DEF FloorsOrdered, Covers, Contradicts
<1>7. ServedCovered'
    <2>1. ASSUME ~inherited, NEW h \in served
          PROVE  Covers(synced', h)
        <3>1. Covers(synced, h) /\ h \in Heads \cup {None}
            BY <2>1 DEF PolicyInv, PolicyTypes, ServedCovered
        <3>2. Covers(disk, h)
            BY <1>3, <3>1, CoversOrder
        <3> QED
            BY <1>2, <3>1, <3>2
    <2>2. ~InForce'
        BY <1>1 DEF InForce
    <2> QED
        BY <1>1, <2>1, <2>2 DEF ServedCovered, history, Covers, Contradicts
<1>8. Provenance'
    BY <1>1, <1>4 DEF PolicyInv, Provenance, Active, history
<1> QED
    BY <1>5, <1>6, <1>7, <1>8 DEF PolicyInv

\* A new process reads the floor from the file and puts nothing in force.
LEMMA StartStep ==
    ASSUME PolicyInv, NewPersistentSnapshotStore
    PROVE  PolicyInv'
<1>1. /\ proc = "down" /\ proc' = "boot" /\ rec.pc = "idle"
      /\ wm' = disk /\ unconfirmed' = FALSE
      /\ snap' = IF disk = None THEN None ELSE Restored(disk)
      /\ UNCHANGED <<source, disk, synced, rec, published, served>>
    BY DEF NewPersistentSnapshotStore, Start, PolicyInv, PolicyTypes
<1>2. inherited' = (inherited \/ disk # synced)
    BY DEF NewPersistentSnapshotStore, Start
<1>3. inherited' \in BOOLEAN /\ (~inherited' => ~inherited /\ disk = synced)
    BY <1>2, Zenon DEF PolicyInv, PolicyTypes
<1>4. snap' \in Snapshots \cup {None} /\ ~Active'
    <2>1. CASE disk = None
        BY <1>1, <2>1 DEF Active
    <2>2. CASE disk # None
        <3>1. disk \in Heads /\ MaxAge \in Nat
            BY <2>2, PolicyAssumption DEF PolicyInv, PolicyTypes
        <3> QED
            BY <1>1, <2>2, <3>1 DEF Restored, Snapshots, Active
    <2> QED
        BY <2>1, <2>2
<1>5. PolicyTypes'
    BY <1>1, <1>3, <1>4 DEF PolicyInv, PolicyTypes
<1>6. FloorsOrdered'
    BY <1>1 DEF PolicyInv, FloorsOrdered, Covers, Contradicts
<1>7. ServedCovered'
    <2>1. ~InForce'
        BY <1>4 DEF InForce
    <2> QED
        BY <1>1, <1>3, <2>1
        DEF PolicyInv, ServedCovered, Covers, Contradicts
<1>8. Provenance'
    BY <1>1, <1>4 DEF PolicyInv, Provenance
<1> QED
    BY <1>5, <1>6, <1>7, <1>8 DEF PolicyInv

\* A decision, an intent, or a step that leaves every variable as it is.
LEMMA GuardianStep ==
    ASSUME PolicyInv,
           EvaluateDecision \/ IssueExecutionIntent \/ signIntent \/ UNCHANGED vars
    PROVE  PolicyInv'
<1>1. UNCHANGED <<source, snap, store, rec, proc, history>>
    BY DEF EvaluateDecision, IssueExecutionIntent, signIntent, vars, store, history
<1>2. FloorsOrdered' /\ ServedCovered'
    BY <1>1, QuietStep DEF PolicyInv, Active, history
<1>3. PolicyTypes' /\ Provenance'
    BY <1>1 DEF PolicyInv, PolicyTypes, Provenance, Active, store, history
<1> QED
    BY <1>2, <1>3 DEF PolicyInv

\* The source moves on; what it offers is remembered.
LEMMA PublishStep ==
    ASSUME PolicyInv, Publish
    PROVE  PolicyInv'
<1>1. /\ source' \in Heads \cup {None}
      /\ published' = published \cup Offers(source')
      /\ UNCHANGED <<snap, store, rec, proc, served, inherited>>
    BY DEF Publish
<1>2. /\ Offers(source') \subseteq Heads
      /\ \A h \in Offers(source') : h.policy \notin Broken
      /\ source' # None /\ source'.policy \notin Broken => source' \in Offers(source')
    BY <1>1 DEF Offers
<1>3. FloorsOrdered' /\ ServedCovered'
    BY <1>1, QuietStep DEF PolicyInv, Active
<1>4. PolicyTypes'
    BY <1>1, <1>2 DEF PolicyInv, PolicyTypes, store
<1>5. Provenance'
    BY <1>1, <1>2 DEF PolicyInv, Provenance, Active
<1> QED
    BY <1>3, <1>4, <1>5 DEF PolicyInv

\* Time passes.
LEMMA TickStep ==
    ASSUME PolicyInv, Tick
    PROVE  PolicyInv'
<1>1. UNCHANGED <<source, store, proc, history>>
    BY DEF Tick
<1>2. \A age \in Nat : Older(age) \in Nat
    BY PolicyAssumption DEF Older
<1>3. /\ snap' \in Snapshots \cup {None}
      /\ Active' => Active /\ snap'.head = snap.head
    <2>1. CASE snap = None
        BY <2>1 DEF Tick, Active
    <2>2. CASE snap # None
        <3>1. snap \in Snapshots
            BY <2>2 DEF PolicyInv, PolicyTypes
        <3>2. snap' = [snap EXCEPT !.age = Older(@)]
            BY <2>2 DEF Tick
        <3> QED
            BY <1>2, <2>2, <3>1, <3>2 DEF Snapshots, Active
    <2> QED
        BY <2>1, <2>2
<1>4. /\ rec' \in [pc : {"idle", "load", "swap", "sync"},
                   head : Heads \cup {None}, age : Nat]
      /\ rec'.pc = rec.pc /\ rec'.head = rec.head
    <2>1. CASE rec' = rec
        BY <2>1 DEF PolicyInv, PolicyTypes
    <2>2. CASE rec' = [rec EXCEPT !.age = Older(@)]
        BY <1>2, <2>2 DEF PolicyInv, PolicyTypes
    <2> QED
        BY <2>1, <2>2 DEF Tick
<1>5. FloorsOrdered' /\ ServedCovered'
    BY <1>1, <1>3, <1>4, QuietStep DEF PolicyInv, history
<1>6. PolicyTypes'
    BY <1>1, <1>3, <1>4 DEF PolicyInv, PolicyTypes, store, history
<1>7. Provenance'
    BY <1>1, <1>3, <1>4 DEF PolicyInv, Provenance, history
<1> QED
    BY <1>5, <1>6, <1>7 DEF PolicyInv

-----------------------------------------------------------------------------
(* The theorems *)

\* The invariant holds before the first process starts.
LEMMA InvInit == Init => PolicyInv
<1> SUFFICES ASSUME Init PROVE PolicyInv
    OBVIOUS
<1>1. NoReconcile \in [pc : {"idle", "load", "swap", "sync"},
                       head : Heads \cup {None}, age : Nat]
      /\ NoReconcile.pc = "idle"
    BY DEF NoReconcile
<1>2. /\ Offers(source) \subseteq Heads
      /\ \A h \in Offers(source) : h.policy \notin Broken
      /\ source # None /\ source.policy \notin Broken => source \in Offers(source)
    BY DEF Init, Offers
<1>3. PolicyTypes
    BY <1>1, <1>2 DEF Init, PolicyTypes
<1>4. FloorsOrdered /\ ServedCovered
    BY DEF Init, FloorsOrdered, ServedCovered, Covers, InForce
<1>5. Provenance
    BY <1>1, <1>2 DEF Init, Provenance, Active
<1> QED
    BY <1>3, <1>4, <1>5 DEF PolicyInv

\* Every step keeps the invariant.
LEMMA InvStep == PolicyInv /\ [Next]_vars => PolicyInv'
<1> SUFFICES ASSUME PolicyInv, [Next]_vars PROVE PolicyInv'
    OBVIOUS
<1>1. CASE Reconcile
    BY <1>1, ReadHeadStep, LoadStep, SwapStep, SyncStep DEF Reconcile
<1>2. CASE Stop \/ NewPersistentSnapshotStore
    BY <1>2, StopStep, StartStep
<1>3. CASE EvaluateDecision \/ IssueExecutionIntent \/ signIntent \/ UNCHANGED vars
    BY <1>3, GuardianStep
<1>4. CASE Publish \/ Tick
    BY <1>4, PublishStep, TickStep
<1> QED
    BY <1>1, <1>2, <1>3, <1>4 DEF Next

\* The invariant of Reconciler.Reconcile, PersistentSnapshotStore and the Guardian
\* holds in every reachable state.
THEOREM PolicyInvariant == Spec => []PolicyInv
BY InvInit, InvStep, PTL DEF Spec

\* PersistentSnapshotStore.Swap and its reload refuse rollback across any number of
\* restarts, failed writes and losses of power, unless a process was started over
\* a rename that nobody synced.
THEOREM PolicyNeverRollsBack == Spec => []NoRollback
<1>1. PolicyInv => NoRollback
    BY DEF PolicyInv, ServedCovered, NoRollback, Covers, InForce, Provenance,
           PolicyTypes, Heads, Contradicts
<1> QED
    BY <1>1, PolicyInvariant, PTL

\* Reconciler.Reconcile installs a head and the content of that head only.
THEOREM PolicyServedAsPublished == Spec => []ServedAsPublished
<1>1. PolicyInv => ServedAsPublished
    BY DEF PolicyInv, Provenance, ServedAsPublished
<1> QED
    BY <1>1, PolicyInvariant, PTL

\* The watermark of PersistentSnapshotStore on stable storage only rises.
THEOREM PolicyWatermarkRises == Spec => StableWatermarkRises
<1>1. ASSUME PolicyInv, [Next]_vars
      PROVE  synced # None => synced' # None /\ ~Contradicts(synced', synced)
    <2>1. /\ synced \in Heads \cup {None} /\ Covers(disk, synced)
          /\ disk \in Heads \cup {None}
        BY <1>1 DEF PolicyInv, PolicyTypes, FloorsOrdered
    <2>2. synced' \in {synced, disk}
        BY <1>1 DEF Next, Reconcile, readHead, load, swap, SwapUnless, syncDirectory,
                    invalid, Stop, NewPersistentSnapshotStore, Start, EvaluateDecision,
                    IssueExecutionIntent, signIntent, Publish, Tick, vars, store
    <2>3. Covers(synced, synced)
        BY <2>1, CoversOrder
    <2> QED
        BY <2>1, <2>2, <2>3 DEF Covers
<1> QED
    BY <1>1, PolicyInvariant, PTL DEF Spec, StableWatermarkRises
=============================================================================

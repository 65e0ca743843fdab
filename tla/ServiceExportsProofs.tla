------------------------ MODULE ServiceExportsProofs ------------------------
(***************************************************************************)
(* Proofs about ServiceExports, for any set of namespaces, any number of   *)
(* syncers and any number of interventions.                                *)
(***************************************************************************)
EXTENDS ServiceExports, TLAPS

\* The tuples of variables that actions leave alone.
USE DEF consumer, provider, namespaces, process

-----------------------------------------------------------------------------
(* Types.                                                                  *)

WorkType == [step : {"idle", "getNamespace", "commit"}, old : Export \cup {None},
             new : Export \cup {None}, err : BOOLEAN]

\* A reconcile that goes on has the export it was started with.
WorkHasExport == work.step # "idle" => work.old \in Export

\* A syncer whose informers were cancelled has no watch but for those of its handler.
SweptSyncersEnd ==
    \A s \in 1..Len(syncers) : syncers[s].swept => syncers[s].watched \subseteq syncers[s].late

Inv == TypeOK /\ WorkHasExport /\ OneSyncer /\ SweptSyncersEnd

\* What may become of a syncer: its context and its generation stay.
Follows(new, old) ==
    /\ new \in Syncer
    /\ new.cancelled = old.cancelled /\ new.generation = old.generation
    /\ (old.swept => old.watched \subseteq old.late) => (new.swept => new.watched \subseteq new.late)

LEMMA FollowKeeps ==
    ASSUME Inv, syncers' \in Seq(Syncer), Len(syncers') = Len(syncers),
           \A s \in 1..Len(syncers) : Follows(syncers'[s], syncers[s]),
           syncContext' = syncContext
    PROVE  OneSyncer' /\ SweptSyncersEnd' /\ syncContext' \in 0..Len(syncers')
    BY DEF Inv, TypeOK, Follows, OneSyncer, SweptSyncersEnd

LEMMA UpdateKeeps ==
    ASSUME Inv, NEW s \in 1..Len(syncers), NEW new, Follows(new, syncers[s]), Update(s, new)
    PROVE  Inv'
  <1>1. syncers \in Seq(Syncer) /\ new \in Syncer /\ syncers' = [syncers EXCEPT ![s] = new]
    BY DEF Inv, TypeOK, Update, Follows
  <1>2. syncers' \in Seq(Syncer) /\ Len(syncers') = Len(syncers)
    BY <1>1
  <1>3. \A t \in 1..Len(syncers) : Follows(syncers'[t], syncers[t])
    <2>1. \A t \in 1..Len(syncers) : syncers[t] \in Syncer
        BY <1>1
    <2>2. \A t \in 1..Len(syncers) : syncers'[t] = IF t = s THEN new ELSE syncers[t]
        BY <1>1
    <2> QED
        BY <2>1, <2>2 DEF Follows
  <1>4. UNCHANGED <<consumer, provider, namespaces, scope, queued, work, syncContext, ops>>
    BY DEF Update
  <1>5. OneSyncer' /\ SweptSyncersEnd' /\ syncContext' \in 0..Len(syncers')
    BY <1>2, <1>3, <1>4, FollowKeeps
  <1>6. TypeOK' /\ WorkHasExport'
    BY <1>2, <1>4, <1>5 DEF Inv, TypeOK, WorkHasExport
  <1> QED
    BY <1>5, <1>6 DEF Inv

LEMMA SyncerStepKeeps ==
    ASSUME Inv, NEW s \in 1..Len(syncers), SyncerStep(s)
    PROVE  Inv'
  <1>0. syncers[s] \in Syncer /\ scope \in {"Cluster", "Namespaced"}
    BY DEF Inv, TypeOK
  <1>1. CASE ConsumerSynced(s)
    <2> DEFINE W == IF scope = "Cluster" THEN {} ELSE {n \in Namespaces : snCache[n] # "absent"}
               new == [syncers[s] EXCEPT !.phase = "provider", !.waiting = W]
    <2>1. W \in SUBSET Namespaces
        OBVIOUS
    <2>2. Update(s, new)
        BY <1>1 DEF ConsumerSynced
    <2> HIDE DEF W
    <2>3. Follows(new, syncers[s])
        BY <1>0, <2>1 DEF Follows, Syncer, Phases
    <2> QED
        BY <2>2, <2>3, UpdateKeeps
  <1>2. CASE StartControllers(s)
    <2> DEFINE new == [syncers[s] EXCEPT !.phase = "running"]
    <2>1. Follows(new, syncers[s])
        BY <1>0 DEF Follows, Syncer, Phases
    <2> QED
        BY <1>2, <2>1, UpdateKeeps DEF StartControllers
  <1>3. CASE Sweep(s)
    <2> DEFINE new == [syncers[s] EXCEPT !.swept = TRUE, !.watched = {}]
    <2>1. Follows(new, syncers[s])
        BY <1>0 DEF Follows, Syncer
    <2> QED
        BY <1>3, <2>1, UpdateKeeps DEF Sweep
  <1>4. CASE Unsubscribe(s)
    <2> DEFINE new == [syncers[s] EXCEPT !.subscribed = FALSE]
    <2>1. Follows(new, syncers[s])
        BY <1>0 DEF Follows, Syncer
    <2> QED
        BY <1>4, <2>1, UpdateKeeps DEF Unsubscribe
  <1>5. ASSUME NEW n \in Namespaces, InformerSynced(s, n)
        PROVE  Inv'
    <2> DEFINE new == [syncers[s] EXCEPT !.synced = @ \cup {n}]
    <2>1. Follows(new, syncers[s])
        BY <1>0 DEF Follows, Syncer
    <2> QED
        BY <1>5, <2>1, UpdateKeeps DEF InformerSynced
  <1> QED
    BY <1>1, <1>2, <1>3, <1>4, <1>5 DEF SyncerStep

\* The handler of a syncer.
LEMMA HandlerFollows ==
    ASSUME NEW old \in Syncer, NEW n \in Namespaces, NEW state
    PROVE  Follows(enqueueServiceNamespace(old, n, state), old)
  <1>1. Follows(StartInformer(old, n), old)
    <2>1. CASE n \in old.entries
        BY <2>1 DEF StartInformer, Follows
    <2>2. CASE n \notin old.entries
        <3> DEFINE late == IF old.swept THEN old.late \cup {n} ELSE old.late
                   new == [old EXCEPT !.entries = @ \cup {n}, !.watched = @ \cup {n}, !.late = late]
        <3>1. late \in SUBSET Namespaces /\ (old.swept => late = old.late \cup {n})
            BY DEF Syncer
        <3>2. StartInformer(old, n) = new
            BY <2>2 DEF StartInformer, Syncer
        <3> HIDE DEF late
        <3>3. /\ new \in Syncer /\ new.cancelled = old.cancelled /\ new.generation = old.generation
              /\ new.swept = old.swept /\ new.watched = old.watched \cup {n} /\ new.late = late
            BY <3>1 DEF Syncer
        <3> HIDE DEF new
        <3> QED
            BY <3>1, <3>2, <3>3 DEF Follows
    <2> QED
        BY <2>1, <2>2
  <1>2. Follows(StopInformer(old, n), old)
    BY DEF StopInformer, Follows, Syncer
  <1> QED
    BY <1>1, <1>2 DEF enqueueServiceNamespace

\* The registered syncer is stopped.
LEMMA StoppedAll ==
    ASSUME Inv
    PROVE  /\ Cancelled \in Seq(Syncer) /\ Len(Cancelled) = Len(syncers)
           /\ \A s \in 1..Len(syncers) :
                 /\ Cancelled[s].cancelled
                 /\ Cancelled[s].swept => Cancelled[s].watched \subseteq Cancelled[s].late
  <1>0. syncers \in Seq(Syncer) /\ syncContext \in 0..Len(syncers)
    BY DEF Inv, TypeOK
  <1>1. CASE syncContext = 0
    BY <1>0, <1>1 DEF Cancelled, Inv, OneSyncer, SweptSyncersEnd
  <1>2. CASE syncContext # 0
    <2> DEFINE new == [syncers[syncContext] EXCEPT !.cancelled = TRUE]
    <2>1. syncContext \in 1..Len(syncers) /\ syncers[syncContext] \in Syncer
        BY <1>0, <1>2
    <2>2. /\ new \in Syncer /\ new.cancelled /\ new.swept = syncers[syncContext].swept
          /\ new.watched = syncers[syncContext].watched /\ new.late = syncers[syncContext].late
        BY <2>1 DEF Syncer
    <2>3. Cancelled = [syncers EXCEPT ![syncContext] = new]
        BY <1>2 DEF Cancelled
    <2> HIDE DEF new
    <2>4. /\ Cancelled \in Seq(Syncer) /\ Len(Cancelled) = Len(syncers)
          /\ \A s \in 1..Len(syncers) : Cancelled[s] = IF s = syncContext THEN new ELSE syncers[s]
        BY <1>0, <2>1, <2>2, <2>3
    <2> QED
        BY <2>1, <2>2, <2>4 DEF Inv, OneSyncer, SweptSyncersEnd
  <1> QED
    BY <1>1, <1>2

\* A reconcile that begins without a registered syncer, or lets go of it.
LEMMA StopKeeps ==
    ASSUME Inv, syncers' = Stopped, syncContext' = 0
    PROVE  /\ syncers' \in Seq(Syncer) /\ syncContext' \in 0..Len(syncers')
           /\ OneSyncer' /\ SweptSyncersEnd'
  <1>1. /\ syncers' \in Seq(Syncer) /\ Len(syncers') = Len(syncers)
        /\ \A s \in 1..Len(syncers) : /\ syncers'[s].cancelled
                                      /\ syncers'[s].swept => syncers'[s].watched \subseteq syncers'[s].late
    BY StoppedAll DEF Stopped
  <1> QED
    BY <1>1 DEF OneSyncer, SweptSyncersEnd

LEMMA CopiedType ==
    ASSUME TypeOK, NEW old \in Export
    PROVE  Copied(old) \in Export
  <1> DEFINE inSync == IF bindingCache # None /\ bindingCache.inSync = "true" THEN "true" ELSE "false"
             connected == IF bindingCache = None THEN "false" ELSE "true"
             one == ensureServiceBindingConditionCopied(old)
             names == one.names \/ crdCache
  <1>1. inSync \in Condition /\ connected \in Condition
    BY DEF Condition
  <1>2. one = [old EXCEPT !.connected = connected, !.inSync = inSync]
    BY DEF ensureServiceBindingConditionCopied
  <1> HIDE DEF inSync, connected
  <1>3. one \in Export
    BY <1>1, <1>2 DEF Export
  <1> HIDE DEF one
  <1>4. names \in BOOLEAN
    BY <1>3 DEF Export, TypeOK
  <1>5. Copied(old) = [one EXCEPT !.names = names]
    BY <1>3 DEF Copied, ensureCRDConditionsCopied, one, Export
  <1> HIDE DEF names
  <1> QED
    BY <1>3, <1>4, <1>5 DEF Export

LEMMA ToCommitType ==
    ASSUME TypeOK, NEW old \in Export, NEW err \in BOOLEAN, ToCommit(old, err)
    PROVE  work' \in WorkType /\ work'.old \in Export
  <1>1. work' = [step |-> "commit", old |-> old, new |-> Copied(old), err |-> err]
    BY DEF ToCommit, Idle
  <1> QED
    BY <1>1, CopiedType DEF WorkType

LEMMA IdleType == Idle \in WorkType /\ Idle.step = "idle"
  BY DEF Idle, WorkType

LEMMA StartedSyncerType ==
    ASSUME TypeOK, work.old \in Export
    PROVE  StartedSyncer \in Syncer /\ ~StartedSyncer.cancelled
           /\ (StartedSyncer.swept => StartedSyncer.watched \subseteq StartedSyncer.late)
  <1> DEFINE ready == IF scope = "Cluster" THEN {} ELSE {n \in Namespaces : snCache[n] = "ready"}
             a == scope = "Namespaced"
             b == scope = "Cluster"
  <1>1. ready \in SUBSET Namespaces /\ (b => ready = {})
    OBVIOUS
  <1>2. a \in BOOLEAN /\ b \in BOOLEAN
    OBVIOUS
  <1>3. StartedSyncer = [generation |-> work.old.generation, cancelled |-> FALSE, phase |-> "consumer",
                         waiting |-> {}, entries |-> ready, watched |-> ready, synced |-> {},
                         subscribed |-> a, swept |-> b, late |-> {}]
    BY DEF StartedSyncer
  <1>4. work.old.generation \in Nat \ {0}
    BY DEF Export
  <1> HIDE DEF ready, a, b
  <1> QED
    BY <1>1, <1>2, <1>3, <1>4 DEF Syncer, Phases

\* The new syncer is the only open one: the others were stopped, if not before.
LEMMA StartKeeps ==
    ASSUME Inv, work.old \in Export, syncers' = Append(Cancelled, StartedSyncer),
           syncContext' = Len(syncers) + 1
    PROVE  /\ syncers' \in Seq(Syncer) /\ syncContext' \in 0..Len(syncers')
           /\ OneSyncer' /\ SweptSyncersEnd'
  <1>1. /\ Cancelled \in Seq(Syncer) /\ Len(Cancelled) = Len(syncers) /\ syncers \in Seq(Syncer)
        /\ \A s \in 1..Len(syncers) : /\ Cancelled[s].cancelled
                                      /\ Cancelled[s].swept => Cancelled[s].watched \subseteq Cancelled[s].late
    BY StoppedAll DEF Inv, TypeOK
  <1>2. StartedSyncer \in Syncer /\ ~StartedSyncer.cancelled
           /\ (StartedSyncer.swept => StartedSyncer.watched \subseteq StartedSyncer.late)
    BY StartedSyncerType DEF Inv
  <1>3. /\ syncers' \in Seq(Syncer) /\ Len(syncers') = Len(syncers) + 1 /\ Len(syncers) \in Nat
        /\ syncers'[Len(syncers) + 1] = StartedSyncer
        /\ \A s \in 1..Len(syncers) : syncers'[s] = Cancelled[s]
    BY <1>1, <1>2
  <1>4. \A s \in 1..Len(syncers') : s = Len(syncers) + 1 \/ s \in 1..Len(syncers)
    BY <1>3
  <1>5. OneSyncer'
    BY <1>1, <1>2, <1>3, <1>4 DEF OneSyncer
  <1>6. SweptSyncersEnd'
    BY <1>1, <1>2, <1>3, <1>4 DEF SweptSyncersEnd
  <1> QED
    BY <1>3, <1>5, <1>6

LEMMA InitInv == Init => Inv
  <1> SUFFICES ASSUME Init PROVE Inv
    OBVIOUS
  <1>1. work \in WorkType /\ WorkHasExport
    BY IdleType DEF Init, WorkHasExport
  <1>2. New \in Export /\ [inSync |-> "unset"] \in Binding
    BY DEF New, Export, Binding, Condition
  <1>3. crd \in BOOLEAN /\ crdCache \in BOOLEAN /\ queued \in BOOLEAN
    BY DEF Init
  <1>4. syncers \in Seq(Syncer) /\ Len(syncers) = 0 /\ syncContext = 0 /\ ops \in 0..MaxOps
    BY ServiceExportsAssumption DEF Init
  <1>5. /\ export \in Export \cup {None} /\ exportCache \in Export \cup {None}
        /\ binding \in Binding \cup {None} /\ bindingCache \in Binding \cup {None}
        /\ fresh \subseteq {"cache", "work"}
        /\ sns \in [Namespaces -> {"absent", "pending", "ready"}]
        /\ snCache \in [Namespaces -> {"absent", "pending", "ready"}]
        /\ scope \in {"Cluster", "Namespaced"}
    BY <1>2 DEF Init
  <1>6. OneSyncer /\ SweptSyncersEnd /\ syncContext \in 0..Len(syncers)
    BY <1>4 DEF OneSyncer, SweptSyncersEnd
  <1> QED
    BY <1>1, <1>3, <1>4, <1>5, <1>6 DEF Inv, TypeOK, WorkType

\* The parts of the invariant for a step that leaves the syncers and the reconcile alone.
LEMMA AsideKeeps ==
    ASSUME Inv, UNCHANGED <<work, syncContext, syncers>>
    PROVE  /\ work' \in WorkType /\ syncers' \in Seq(Syncer) /\ syncContext' \in 0..Len(syncers')
           /\ WorkHasExport' /\ OneSyncer' /\ SweptSyncersEnd'
    BY DEF Inv, TypeOK, WorkType, WorkHasExport, OneSyncer, SweptSyncersEnd

\* What the types of the variables besides are.
Around ==
    /\ export \in Export \cup {None} /\ exportCache \in Export \cup {None}
    /\ binding \in Binding \cup {None} /\ bindingCache \in Binding \cup {None}
    /\ crd \in BOOLEAN /\ crdCache \in BOOLEAN
    /\ fresh \subseteq {"cache", "work"}
    /\ sns \in [Namespaces -> {"absent", "pending", "ready"}]
    /\ snCache \in [Namespaces -> {"absent", "pending", "ready"}]
    /\ scope \in {"Cluster", "Namespaced"}
    /\ queued \in BOOLEAN
    /\ ops \in 0..MaxOps

LEMMA Together ==
    /\ TypeOK <=> Around /\ work \in WorkType /\ syncers \in Seq(Syncer) /\ syncContext \in 0..Len(syncers)
    /\ TypeOK' <=> Around' /\ work' \in WorkType /\ syncers' \in Seq(Syncer) /\ syncContext' \in 0..Len(syncers')
    BY Zenon DEF TypeOK, Around, WorkType

LEMMA EnvironmentKeeps ==
    ASSUME Inv, Environment \/ Events
    PROVE  Inv'
  <1> USE ServiceExportsAssumption
  <1>0. Around /\ TypeOK
    BY Together DEF Inv
  <1>i. Intervene => ops' \in 0..MaxOps
    BY <1>0 DEF Intervene, Around
  <1>a. ASSUME Around', UNCHANGED <<work, syncContext, syncers>>
        PROVE  Inv'
    BY <1>a, AsideKeeps, Together DEF Inv
  <1>1. CASE ExportChanges
    <2>1. UNCHANGED <<consumer, exportCache, namespaces, scope, process>> /\ fresh' = {} /\ Intervene
        BY <1>1 DEF ExportChanges, WriteExport
    <2>2. export' \in Export \cup {None}
        <3>1. New \in Export
            BY DEF New, Export, Condition
        <3>2. export \in Export => [export EXCEPT !.generation = @ + 1] \in Export
            BY DEF Export
        <3> QED
            BY <1>0, <1>1, <3>1, <3>2 DEF ExportChanges, WriteExport, Around
    <2> QED
        BY <1>0, <1>i, <1>a, <2>1, <2>2 DEF Around
  <1>2. CASE BindingChanges
    <2>1. UNCHANGED <<bindingCache, crd, crdCache, provider, namespaces, scope, process>> /\ Intervene
        BY <1>2 DEF BindingChanges
    <2>2. binding' \in Binding \cup {None}
        BY <1>2 DEF BindingChanges, Binding, Condition
    <2> QED
        BY <1>0, <1>i, <1>a, <2>1, <2>2 DEF Around
  <1>3. CASE BindingReports
    <2>1. UNCHANGED <<bindingCache, crd, crdCache, provider, namespaces, scope, process, ops>>
        BY <1>3 DEF BindingReports
    <2>2. binding' \in Binding \cup {None}
        BY <1>0, <1>3 DEF BindingReports, Around, Binding, Condition
    <2> QED
        BY <1>0, <1>a, <2>1, <2>2 DEF Around
  <1>4. CASE CRDChanges
    <2>1. UNCHANGED <<binding, bindingCache, crdCache, provider, namespaces, scope, process>> /\ Intervene
        BY <1>4 DEF CRDChanges
    <2>2. crd' \in BOOLEAN
        BY <1>4 DEF CRDChanges
    <2> QED
        BY <1>0, <1>i, <1>a, <2>1, <2>2 DEF Around
  <1>5. ASSUME NEW n \in Namespaces, NamespaceChanges(n) \/ NamespaceReady(n)
        PROVE  Inv'
    <2>1. UNCHANGED <<consumer, provider, snCache, scope, process>> /\ (Intervene \/ ops' = ops)
        BY <1>5 DEF NamespaceChanges, NamespaceReady
    <2>2. sns' \in [Namespaces -> {"absent", "pending", "ready"}]
        BY <1>0, <1>5 DEF NamespaceChanges, NamespaceReady, Around
    <2> QED
        BY <1>0, <1>i, <1>a, <2>1, <2>2 DEF Around
  <1>6. CASE DeliverExport
    <2>1. /\ UNCHANGED <<export, consumer, namespaces, scope, work, syncContext, syncers, ops>>
          /\ exportCache' = export /\ fresh' = fresh \cup {"cache"}
        BY <1>6 DEF DeliverExport
    <2>2. queued' \in BOOLEAN
        BY <1>6 DEF DeliverExport
    <2> QED
        BY <1>0, <1>a, <2>1, <2>2 DEF Around
  <1>7. CASE DeliverBinding
    <2>1. /\ UNCHANGED <<binding, crd, crdCache, provider, namespaces, scope, work, syncContext, syncers, ops>>
          /\ bindingCache' = binding
        BY <1>7 DEF DeliverBinding
    <2>2. queued' \in BOOLEAN
        BY <1>7 DEF DeliverBinding
    <2> QED
        BY <1>0, <1>a, <2>1, <2>2 DEF Around
  <1>8. CASE DeliverMissedDeletion
    <2>1. UNCHANGED <<binding, crd, crdCache, provider, namespaces, scope, process>> /\ bindingCache' = None /\ Intervene
        BY <1>8 DEF DeliverMissedDeletion
    <2> QED
        BY <1>0, <1>i, <1>a, <2>1 DEF Around
  <1>9. CASE DeliverCRD
    <2>1. /\ UNCHANGED <<binding, bindingCache, crd, provider, namespaces, scope, work, syncContext, syncers, ops>>
          /\ crdCache' = crd
        BY <1>9 DEF DeliverCRD
    <2>2. queued' \in BOOLEAN
        BY <1>9 DEF DeliverCRD
    <2> QED
        BY <1>0, <1>a, <2>1, <2>2 DEF Around
  <1>10. CASE Resync
    <2>1. UNCHANGED <<consumer, provider, namespaces, scope, work, syncContext, syncers, ops>>
        BY <1>10 DEF Resync
    <2>2. queued' \in BOOLEAN
        BY <1>10 DEF Resync
    <2> QED
        BY <1>0, <1>a, <2>1, <2>2 DEF Around
  <1>11. ASSUME NEW n \in Namespaces, DeliverNamespace(n)
         PROVE  Inv'
    <2>0. syncers \in Seq(Syncer)
        BY <1>0 DEF TypeOK
    <2>1. /\ UNCHANGED <<consumer, provider, sns, scope, queued, work, syncContext, ops>>
          /\ snCache' = [snCache EXCEPT ![n] = sns[n]]
        BY <1>11 DEF DeliverNamespace
    <2>2. Around'
        BY <1>0, <2>1 DEF Around
    <2>3. \A s \in 1..Len(syncers) : Follows(syncers[s], syncers[s]) /\ Follows(enqueueServiceNamespace(syncers[s], n, sns[n]), syncers[s])
        BY <2>0, HandlerFollows DEF Follows
    <2>4. syncers' = [s \in 1..Len(syncers) |->
                      IF s \in Subscribed THEN enqueueServiceNamespace(syncers[s], n, sns[n]) ELSE syncers[s]]
        BY <1>11, <2>0 DEF DeliverNamespace
    <2>5. \A s \in 1..Len(syncers) : Follows(syncers'[s], syncers[s])
        BY <2>3, <2>4
    <2>6. syncers' \in Seq(Syncer) /\ Len(syncers') = Len(syncers)
        BY <2>0, <2>3, <2>4 DEF Follows
    <2>7. OneSyncer' /\ SweptSyncersEnd' /\ syncContext' \in 0..Len(syncers')
        BY <2>1, <2>5, <2>6, FollowKeeps
    <2>8. work' \in WorkType /\ WorkHasExport'
        BY <2>1, Together DEF Inv, WorkHasExport
    <2> QED
        BY <2>2, <2>6, <2>7, <2>8, Together DEF Inv
  <1>12. CASE Reset /\ (Intervene \/ UNCHANGED ops)
    <2>1. /\ bindingCache' = binding /\ crdCache' = crd /\ exportCache' = None /\ fresh' = {}
          /\ snCache' = [n \in Namespaces |-> "absent"]
          /\ UNCHANGED <<export, binding, crd, sns, scope>>
        BY <1>12 DEF Reset
    <2>2. queued' \in BOOLEAN
        BY <1>12 DEF Reset
    <2>3. Around'
        BY <1>0, <1>i, <1>12, <2>1, <2>2 DEF Around
    <2>4. work' \in WorkType /\ WorkHasExport'
        BY <1>12, IdleType DEF Reset, WorkHasExport
    <2>5. syncers' \in Seq(Syncer) /\ Len(syncers') = 0 /\ syncContext' = 0
        BY <1>12 DEF Reset
    <2>6. OneSyncer' /\ SweptSyncersEnd' /\ syncContext' \in 0..Len(syncers')
        BY <2>5 DEF OneSyncer, SweptSyncersEnd
    <2> QED
        BY <2>3, <2>4, <2>5, <2>6, Together DEF Inv
  <1> QED
    BY <1>1, <1>2, <1>3, <1>4, <1>5, <1>6, <1>7, <1>8, <1>9, <1>10, <1>11, <1>12
       DEF Environment, Events, Restart, HandlerPanics

\* A reconcile and its errors.
LEMMA ReconcileKeeps ==
    ASSUME Inv, Reconcile \/ GetNamespaceFails \/ commitFails
    PROVE  Inv'
  <1> USE ServiceExportsAssumption
  <1>0. Around /\ TypeOK /\ work \in WorkType
    BY Together DEF Inv
  <1>i. Intervene => ops' \in 0..MaxOps
    BY <1>0 DEF Intervene, Around
  <1>t. ASSUME Take, UNCHANGED <<export, exportCache, consumer, namespaces, scope, ops>>
        PROVE  Around'
    <2>1. fresh' \subseteq {"cache", "work"}
        BY <1>0, <1>t DEF Take, Around
    <2>2. queued' \in BOOLEAN
        BY <1>t DEF Take, Get
    <2> QED
        BY <1>0, <1>t, <2>1, <2>2 DEF Around
  <1>1. CASE ProcessGone
    <2>1. UNCHANGED <<provider, consumer, namespaces, scope, work, ops>> /\ syncers' = Stopped /\ syncContext' = 0
        BY <1>1 DEF ProcessGone
    <2>2. queued' \in BOOLEAN
        BY <1>1 DEF ProcessGone, Get
    <2>3. Around'
        BY <1>0, <2>1, <2>2 DEF Around
    <2>4. work' \in WorkType /\ WorkHasExport'
        BY <1>0, <2>1 DEF Inv, WorkHasExport
    <2> QED
        BY <2>1, <2>3, <2>4, StopKeeps, Together DEF Inv
  <1>2. CASE ensureControllersStop
    <2>1. /\ UNCHANGED <<export, exportCache, consumer, namespaces, scope, ops>> /\ Take
          /\ syncers' = Stopped /\ syncContext' = 0
          /\ ToCommit(exportCache, FALSE) /\ exportCache # None
        BY <1>2 DEF ensureControllersStop
    <2>2. work' \in WorkType /\ WorkHasExport'
        BY <1>0, <2>1, ToCommitType DEF Around, WorkHasExport
    <2> QED
        BY <1>t, <2>1, <2>2, StopKeeps, Together DEF Inv
  <1>3. CASE ensureControllersKeep
    <2>1. /\ UNCHANGED <<export, exportCache, consumer, namespaces, scope, ops>> /\ Take
          /\ UNCHANGED <<syncContext, syncers>>
          /\ ToCommit(exportCache, FALSE) /\ exportCache # None
        BY <1>3 DEF ensureControllersKeep
    <2>2. work' \in WorkType /\ WorkHasExport'
        BY <1>0, <2>1, ToCommitType DEF Around, WorkHasExport
    <2>3. syncers' \in Seq(Syncer) /\ syncContext' \in 0..Len(syncers') /\ OneSyncer' /\ SweptSyncersEnd'
        BY <2>1 DEF Inv, TypeOK, OneSyncer, SweptSyncersEnd
    <2> QED
        BY <1>t, <2>1, <2>2, <2>3, Together DEF Inv
  <1>4. CASE ensureControllersReplace
    <2>1. /\ UNCHANGED <<export, exportCache, consumer, namespaces, scope, ops>> /\ Take
          /\ syncers' = Stopped /\ syncContext' = 0
          /\ exportCache # None
          /\ work' = [Idle EXCEPT !.step = "getNamespace", !.old = exportCache]
        BY <1>4 DEF ensureControllersReplace
    <2>2. work' \in WorkType /\ WorkHasExport'
        BY <1>0, <2>1 DEF Around, WorkHasExport, WorkType, Idle
    <2> QED
        BY <1>t, <2>1, <2>2, StopKeeps, Together DEF Inv
  <1>5. CASE StartSyncer
    <2>1. /\ UNCHANGED <<consumer, provider, namespaces, scope, queued, ops>>
          /\ syncers' = Append(Cancelled, StartedSyncer) /\ syncContext' = Len(syncers) + 1
          /\ ToCommit(work.old, FALSE) /\ work.step = "getNamespace"
        BY <1>5 DEF StartSyncer
    <2>2. work.old \in Export
        BY <2>1 DEF Inv, WorkHasExport
    <2>3. work' \in WorkType /\ WorkHasExport'
        BY <1>0, <2>1, <2>2, ToCommitType DEF WorkHasExport
    <2>4. Around'
        BY <1>0, <2>1 DEF Around
    <2> QED
        BY <2>1, <2>2, <2>3, <2>4, StartKeeps, Together DEF Inv
  <1>6. CASE GetNamespaceFails
    <2>1. /\ UNCHANGED <<consumer, provider, namespaces, scope, queued, syncContext, syncers>> /\ Intervene
          /\ ToCommit(work.old, TRUE) /\ work.step = "getNamespace"
        BY <1>6 DEF GetNamespaceFails
    <2>2. work.old \in Export
        BY <2>1 DEF Inv, WorkHasExport
    <2>3. work' \in WorkType /\ WorkHasExport'
        BY <1>0, <2>1, <2>2, ToCommitType DEF WorkHasExport
    <2>4. Around'
        BY <1>0, <1>i, <2>1 DEF Around
    <2>5. syncers' \in Seq(Syncer) /\ syncContext' \in 0..Len(syncers') /\ OneSyncer' /\ SweptSyncersEnd'
        BY <2>1 DEF Inv, TypeOK, OneSyncer, SweptSyncersEnd
    <2> QED
        BY <2>3, <2>4, <2>5, Together DEF Inv
  <1>7. CASE commit \/ commitFails
    <2>1. /\ UNCHANGED <<consumer, exportCache, namespaces, scope, syncContext, syncers>>
          /\ work' = Idle /\ (ops' = ops \/ Intervene)
          /\ export' = export \/ export' = work.new
          /\ fresh' = fresh \/ fresh' = fresh \ {"work"} \/ fresh' = {}
        BY <1>7 DEF commit, commitFails, Done, WriteExport
    <2>2. queued' \in BOOLEAN
        BY <1>7 DEF commit, commitFails, Done
    <2>3. export' \in Export \cup {None}
        BY <1>0, <2>1 DEF WorkType, Around
    <2>4. Around'
        BY <1>0, <1>i, <2>1, <2>2, <2>3 DEF Around
    <2>5. work' \in WorkType /\ WorkHasExport'
        BY <2>1, IdleType DEF WorkHasExport
    <2>6. syncers' \in Seq(Syncer) /\ syncContext' \in 0..Len(syncers') /\ OneSyncer' /\ SweptSyncersEnd'
        BY <2>1 DEF Inv, TypeOK, OneSyncer, SweptSyncersEnd
    <2> QED
        BY <2>4, <2>5, <2>6, Together DEF Inv
  <1> QED
    BY <1>1, <1>2, <1>3, <1>4, <1>5, <1>6, <1>7 DEF Reconcile

LEMMA InvStep ==
    ASSUME Inv, [Next]_vars
    PROVE  Inv'
  <1>1. CASE UNCHANGED vars
    BY <1>1 DEF vars, Inv, TypeOK, WorkHasExport, OneSyncer, SweptSyncersEnd
  <1> QED
    BY <1>1, EnvironmentKeeps, ReconcileKeeps, SyncerStepKeeps DEF Next

\* The exports, the caches, the reconcile and the syncers are of their types: a reconcile that
\* goes on after the call for the namespace has an export (serviceexport_reconcile.go).
THEOREM TypeCorrect == Spec => []TypeOK
  <1>1. Inv => TypeOK
    BY DEF Inv
  <1> QED
    BY <1>1, InitInv, InvStep, PTL DEF Spec

\* Of all syncers that were started for an export, only the registered one has an open
\* context, however often the export, the binding and the CRD change, calls fail or the
\* process starts again (serviceexport_reconcile.go, ensureControllers).
THEOREM RegisteredSyncerIsTheOnlyOne == Spec => []OneSyncer
  <1>1. Inv => OneSyncer
    BY DEF Inv
  <1> QED
    BY <1>1, InitInv, InvStep, PTL DEF Spec

\* Once the goroutine of Start has cancelled the informers of a stopped syncer, it watches
\* only namespaces for which its handler was called after that and before it was removed
\* (dynamic_multinamespace_informer.go, Start and enqueueServiceNamespace): the watches
\* that StoppedSyncersEnd leaves out are all there can be.
THEOREM SweptSyncersHaveOnlyLateWatches == Spec => []SweptSyncersEnd
  <1>1. Inv => SweptSyncersEnd
    BY DEF Inv
  <1> QED
    BY <1>1, InitInv, InvStep, PTL DEF Spec
=============================================================================

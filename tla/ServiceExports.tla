--------------------------- MODULE ServiceExports ---------------------------
(***************************************************************************)
(* The konnector's controller of APIServiceExports: it starts a syncer for *)
(* an export that has a CRD and an APIServiceBinding in the consumer       *)
(* cluster, replaces it when the export changes, stops it when one of the  *)
(* three is gone, and reports back in the status of the export.            *)
(*                                                                         *)
(* A syncer has an informer for each provider namespace, which it starts   *)
(* and stops by a dynamic event handler of the APIServiceNamespaces.  What *)
(* the controllers of a running syncer do is the subject of Syncer and     *)
(* ClaimedResources.                                                       *)
(***************************************************************************)
EXTENDS Naturals, Sequences, FiniteSets

CONSTANTS
    Namespaces,   \* APIServiceNamespaces, named for consumer namespaces
    None,
    MaxOps        \* how many times users intervene, calls fail, events are missed

Condition == {"unset", "true", "false"}

Export == [generation : Nat \ {0},
           connected  : Condition,     \* Connected
           inSync     : Condition,     \* ConsumerInSync
           names      : BOOLEAN]       \* the CRD's conditions and names were copied

Binding == [inSync : Condition]

Phases == {"consumer", "provider", "running"}

\* A syncer: what it was started for and what became of it; the namespaces it waits for, has
\* an entry for in its map, watches, has listed, and watches since Start's goroutine has swept.
Syncer == [generation : Nat \ {0},
           cancelled  : BOOLEAN,
           phase      : Phases,
           waiting    : SUBSET Namespaces,
           entries    : SUBSET Namespaces,
           watched    : SUBSET Namespaces,
           synced     : SUBSET Namespaces,
           subscribed : BOOLEAN,
           swept      : BOOLEAN,
           late       : SUBSET Namespaces]

ASSUME ServiceExportsAssumption ==
    /\ None \notin Export \cup Binding
    /\ MaxOps \in Nat

VARIABLES
    export,         \* the APIServiceExport in the provider cluster
    binding,        \* the APIServiceBinding in the consumer cluster
    crd,            \* whether the CRD exists in the consumer cluster
    exportCache, bindingCache, crdCache,
    fresh,          \* who has the current version of the export: "cache", "work"
    sns,            \* the APIServiceNamespaces: "absent", "pending", "ready"
    snCache,
    scope,          \* the provider's objects are watched by "Cluster" or "Namespaced"
    queued,         \* the key is in the queue
    work,           \* the reconcile in progress
    syncContext,    \* the index of the registered syncer, or 0
    syncers,        \* all syncers that were started
    ops

consumer == <<binding, bindingCache, crd, crdCache>>
provider == <<export, exportCache, fresh>>
namespaces == <<sns, snCache>>
process == <<queued, work, syncContext, syncers>>
vars == <<consumer, provider, namespaces, scope, process, ops>>

Idle == [step |-> "idle", old |-> None, new |-> None, err |-> FALSE]

Intervene == ops < MaxOps /\ ops' = ops + 1

-----------------------------------------------------------------------------
(* Users, the backend and the other controllers.                           *)

WriteExport(new, keep) == export' = new /\ fresh' = keep

New == [generation |-> 1, connected |-> "unset", inSync |-> "unset", names |-> FALSE]

ExportChanges ==
    /\ Intervene
    /\ \/ export = None /\ WriteExport(New, {})
       \/ export # None /\ WriteExport([export EXCEPT !.generation = @ + 1], {})
       \/ export # None /\ WriteExport(None, {})
    /\ UNCHANGED <<consumer, exportCache, namespaces, scope, process>>

BindingChanges ==
    /\ Intervene
    /\ \/ /\ binding = None
          /\ binding' = [inSync |-> "unset"]
       \/ /\ binding # None
          /\ binding' = None
    /\ UNCHANGED <<bindingCache, crd, crdCache, provider, namespaces, scope, process>>

\* The APIServiceBinding controller reports whether the CRD has the schema of the export.
BindingReports ==
    /\ binding # None
    /\ binding' = [binding EXCEPT !.inSync = IF crd THEN "true" ELSE "false"]
    /\ binding' # binding
    /\ UNCHANGED <<bindingCache, crd, crdCache, provider, namespaces, scope, process, ops>>

CRDChanges ==
    /\ Intervene
    /\ crd' = ~crd
    /\ UNCHANGED <<binding, bindingCache, crdCache, provider, namespaces, scope, process>>

\* In the scope Cluster no syncer looks at them.
NamespaceChanges(n) ==
    /\ scope = "Namespaced"
    /\ Intervene
    /\ sns' = [sns EXCEPT ![n] = IF @ = "absent" THEN "pending" ELSE "absent"]
    /\ UNCHANGED <<consumer, provider, snCache, scope, process>>

\* The backend has created the provider's namespace.
NamespaceReady(n) ==
    /\ sns[n] = "pending"
    /\ sns' = [sns EXCEPT ![n] = "ready"]
    /\ UNCHANGED <<consumer, provider, snCache, scope, process, ops>>

-----------------------------------------------------------------------------
(* Events.                                                                 *)

\* enqueueServiceExport; the 30 minutes of the informer.
DeliverExport ==
    /\ "cache" \notin fresh
    /\ exportCache' = export
    /\ fresh' = fresh \cup {"cache"}
    /\ queued' = TRUE
    /\ UNCHANGED <<export, consumer, namespaces, scope, work, syncContext, syncers, ops>>

Resync ==
    /\ exportCache # None
    /\ queued' = TRUE
    /\ UNCHANGED <<consumer, provider, namespaces, scope, work, syncContext, syncers, ops>>

\* enqueueServiceBinding.
DeliverBinding ==
    /\ bindingCache # binding
    /\ bindingCache' = binding
    /\ queued' = TRUE
    /\ UNCHANGED <<binding, crd, crdCache, provider, namespaces, scope, work, syncContext, syncers, ops>>

\* The watch was interrupted during the deletion: what comes is a DeletedFinalStateUnknown,
\* which enqueueServiceBinding takes for an error.
DeliverMissedDeletion ==
    /\ Intervene
    /\ binding = None /\ bindingCache # None
    /\ bindingCache' = None
    /\ UNCHANGED <<binding, crd, crdCache, provider, namespaces, scope, process>>

\* enqueueCRD.
DeliverCRD ==
    /\ crdCache # crd
    /\ crdCache' = crd
    /\ queued' = TRUE
    /\ UNCHANGED <<binding, bindingCache, crd, provider, namespaces, scope, work, syncContext,
                   syncers, ops>>

Subscribed == {s \in 1..Len(syncers) : syncers[s].subscribed}

StartInformer(syncer, n) ==
    IF n \in syncer.entries
      THEN syncer
      ELSE [syncer EXCEPT !.entries = @ \cup {n}, !.watched = @ \cup {n},
                          !.late = IF syncer.swept THEN @ \cup {n} ELSE @]

StopInformer(syncer, n) ==
    [syncer EXCEPT !.entries = @ \ {n}, !.watched = @ \ {n}, !.synced = @ \ {n}, !.late = @ \ {n}]

\* Mutant: only a namespace that is new to the cache starts an informer.
enqueueServiceNamespaceNew(syncer, n, state) ==
    IF state = "ready" /\ snCache[n] = "absent"
      THEN StartInformer(syncer, n) ELSE syncer

\* enqueueServiceNamespace of the informer over many namespaces.
enqueueServiceNamespace(syncer, n, state) ==
    IF state = "ready" THEN StartInformer(syncer, n) ELSE StopInformer(syncer, n)

\* The log message for a namespace that is gone reads the status of the nil object the
\* lister has returned.
Panics(n) == sns[n] = "absent" /\ \E s \in Subscribed : n \in syncers[s].entries

DeliverNamespace(n) ==
    /\ snCache[n] # sns[n]
    /\ ~Panics(n)
    /\ snCache' = [snCache EXCEPT ![n] = sns[n]]
    /\ syncers' = [s \in DOMAIN syncers |->
                      IF s \in Subscribed THEN enqueueServiceNamespace(syncers[s], n, sns[n])
                                          ELSE syncers[s]]
    /\ UNCHANGED <<consumer, provider, sns, scope, queued, work, syncContext, ops>>

\* A new process.  Its main informers have synced; the cluster controller gives up waiting
\* for its own.
Reset ==
    /\ bindingCache' = binding
    /\ crdCache' = crd
    /\ exportCache' = None
    /\ fresh' = {}
    /\ snCache' = [n \in Namespaces |-> "absent"]
    /\ queued' = (binding # None \/ crd)
    /\ work' = Idle
    /\ syncContext' = 0
    /\ syncers' = <<>>
    /\ UNCHANGED <<export, binding, crd, sns, scope>>

HandlerPanics(n) ==
    /\ snCache[n] # sns[n]
    /\ Panics(n)
    /\ Reset
    /\ UNCHANGED ops

Restart == Intervene /\ Reset

-----------------------------------------------------------------------------
(* The reconciler.                                                         *)

\* ensureServiceBindingConditionCopied.
ensureServiceBindingConditionCopied(obj) ==
    [obj EXCEPT !.connected = IF bindingCache = None THEN "false" ELSE "true",
                !.inSync = IF bindingCache # None /\ bindingCache.inSync = "true" THEN "true"
                                                                                 ELSE "false"]

\* ensureCRDConditionsCopied: without a CRD there is nothing to copy.
ensureCRDConditionsCopied(obj) == [obj EXCEPT !.names = @ \/ crdCache]

\* Mutant: the condition is set only when it is not there.
CopiedOnce(old) ==
    IF old.connected = "unset"
      THEN ensureCRDConditionsCopied(ensureServiceBindingConditionCopied(old))
      ELSE ensureCRDConditionsCopied(old)

Copied(old) == ensureCRDConditionsCopied(ensureServiceBindingConditionCopied(old))

\* The end of reconcile.
ToCommit(old, err) ==
    work' = [Idle EXCEPT !.step = "commit", !.old = old, !.new = Copied(old), !.err = err]

Cancelled == IF syncContext = 0 THEN syncers ELSE [syncers EXCEPT ![syncContext].cancelled = TRUE]

\* Mutant: the registered syncer is forgotten before it is stopped.
Forgotten == syncers

\* The entry is removed and its context cancelled.
Stopped == Cancelled

Get ==
    /\ work.step = "idle"
    /\ queued
    /\ queued' = FALSE

Take ==
    /\ Get
    /\ fresh' = IF "cache" \in fresh THEN fresh \cup {"work"} ELSE fresh \ {"work"}

\* process: the APIServiceExport disappeared.
ProcessGone ==
    /\ Get
    /\ exportCache = None
    /\ syncers' = Stopped
    /\ syncContext' = 0
    /\ UNCHANGED <<provider, consumer, namespaces, scope, work, ops>>

\* ensureControllers without a CRD or a binding.
ensureControllersStop ==
    /\ Take
    /\ exportCache # None
    /\ ~crdCache \/ bindingCache = None
    /\ syncers' = Stopped
    /\ syncContext' = 0
    /\ ToCommit(exportCache, FALSE)
    /\ UNCHANGED <<export, exportCache, consumer, namespaces, scope, ops>>

Expected == syncContext # 0 /\ syncers[syncContext].generation = exportCache.generation

\* "all as expected".
ensureControllersKeep ==
    /\ Take
    /\ exportCache # None /\ crdCache /\ bindingCache # None
    /\ Expected
    /\ ToCommit(exportCache, FALSE)
    /\ UNCHANGED <<export, exportCache, consumer, namespaces, scope, syncContext, syncers, ops>>

\* A syncer of another generation is stopped, and a new one prepared.
ensureControllersReplace ==
    /\ Take
    /\ exportCache # None /\ crdCache /\ bindingCache # None
    /\ ~Expected
    /\ syncers' = Stopped
    /\ syncContext' = 0
    /\ work' = [Idle EXCEPT !.step = "getNamespace", !.old = exportCache]
    /\ UNCHANGED <<export, exportCache, consumer, namespaces, scope, ops>>

\* NewDynamicMultiNamespaceInformer and its Start; AddDynamicEventHandler calls the handler
\* for what is in the cache.
StartedSyncer ==
    LET ready == IF scope = "Cluster" THEN {} ELSE {n \in Namespaces : snCache[n] = "ready"}
    IN  [generation |-> work.old.generation, cancelled |-> FALSE, phase |-> "consumer", waiting |-> {}, entries |-> ready, watched |-> ready, synced |-> {},
         subscribed |-> scope = "Namespaced", swept |-> scope = "Cluster", late |-> {}]

\* The namespace of the provider is there: the syncer is started and registered.
StartSyncer ==
    /\ work.step = "getNamespace"
    /\ syncers' = Append(Cancelled, StartedSyncer)
    /\ syncContext' = Len(syncers) + 1
    /\ ToCommit(work.old, FALSE)
    /\ UNCHANGED <<consumer, provider, namespaces, scope, queued, ops>>

GetNamespaceFails ==
    /\ Intervene
    /\ work.step = "getNamespace"
    /\ ToCommit(work.old, TRUE)
    /\ UNCHANGED <<consumer, provider, namespaces, scope, queued, syncContext, syncers>>

Done(err) ==
    /\ work' = Idle
    /\ queued' = (queued \/ err)
    /\ UNCHANGED <<consumer, exportCache, namespaces, scope, syncContext, syncers>>

\* commit: a patch of the status, for the version that was read.
commit ==
    /\ work.step = "commit"
    /\ \/ /\ work.new = work.old
          /\ fresh' = fresh \ {"work"}
          /\ Done(work.err)
          /\ UNCHANGED export
       \/ /\ work.new # work.old
          /\ "work" \in fresh
          /\ WriteExport(work.new, {})
          /\ Done(work.err)
       \/ /\ work.new # work.old
          /\ "work" \notin fresh
          /\ Done(TRUE)
          /\ UNCHANGED <<export, fresh>>
    /\ UNCHANGED ops

commitFails ==
    /\ Intervene
    /\ work.step = "commit" /\ work.new # work.old
    /\ fresh' = fresh \ {"work"}
    /\ Done(TRUE)
    /\ UNCHANGED export

-----------------------------------------------------------------------------
(* The goroutines of a syncer.                                             *)

Update(s, syncer) ==
    /\ syncers' = [syncers EXCEPT ![s] = syncer]
    /\ UNCHANGED <<consumer, provider, namespaces, scope, queued, work, syncContext, ops>>

\* The consumer's informers have synced; WaitForCacheSync lists the APIServiceNamespaces.
ConsumerSynced(s) ==
    /\ ~syncers[s].cancelled
    /\ syncers[s].phase = "consumer"
    /\ Update(s, [syncers[s] EXCEPT
           !.phase = "provider",
           !.waiting = IF scope = "Cluster" THEN {} ELSE {n \in Namespaces : snCache[n] # "absent"}])

\* The informer of a namespace has its first list.
InformerSynced(s, n) ==
    /\ n \in syncers[s].watched \ syncers[s].synced
    /\ sns[n] = "ready"
    /\ Update(s, [syncers[s] EXCEPT !.synced = @ \cup {n}])

\* WaitForCacheSync: every namespace of the list has an informer that has synced, or is gone.
WaitForCacheSync(s) ==
    \A n \in syncers[s].waiting :
        \/ n \in syncers[s].entries /\ n \in syncers[s].synced
        \/ n \notin syncers[s].entries /\ snCache[n] = "absent"

StartControllers(s) ==
    /\ ~syncers[s].cancelled
    /\ syncers[s].phase = "provider"
    /\ WaitForCacheSync(s)
    /\ Update(s, [syncers[s] EXCEPT !.phase = "running"])

\* The goroutine of Start cancels the informers of a syncer whose context is closed, ...
Sweep(s) ==
    /\ syncers[s].cancelled /\ ~syncers[s].swept
    /\ Update(s, [syncers[s] EXCEPT !.swept = TRUE, !.watched = {}])

\* Mutant: only a syncer that got to run removes its handler.
UnsubscribeRunning(s) ==
    /\ syncers[s].cancelled /\ syncers[s].subscribed /\ syncers[s].phase = "running"
    /\ Update(s, [syncers[s] EXCEPT !.subscribed = FALSE])

\* ... and the one of AddDynamicEventHandler removes its handler.
Unsubscribe(s) ==
    /\ syncers[s].cancelled /\ syncers[s].subscribed
    /\ Update(s, [syncers[s] EXCEPT !.subscribed = FALSE])

-----------------------------------------------------------------------------
Init ==
    /\ export = New /\ exportCache = None
    /\ binding = [inSync |-> "unset"]
    /\ bindingCache = None
    /\ crd = TRUE /\ crdCache = FALSE
    /\ fresh = {}
    /\ sns = [n \in Namespaces |-> "absent"]
    /\ snCache = sns
    /\ scope \in {"Cluster", "Namespaced"}
    /\ queued = FALSE
    /\ work = Idle
    /\ syncContext = 0
    /\ syncers = <<>>
    /\ ops = 0

Environment ==
    \/ ExportChanges \/ BindingChanges \/ BindingReports \/ CRDChanges \/ Restart
    \/ \E n \in Namespaces : NamespaceChanges(n) \/ NamespaceReady(n)

Events ==
    \/ DeliverExport \/ DeliverBinding \/ DeliverMissedDeletion \/ DeliverCRD \/ Resync
    \/ \E n \in Namespaces : DeliverNamespace(n) \/ HandlerPanics(n)

Reconcile ==
    \/ ProcessGone \/ ensureControllersStop \/ ensureControllersKeep \/ ensureControllersReplace
    \/ StartSyncer \/ commit

SyncerStep(s) ==
    \/ ConsumerSynced(s) \/ StartControllers(s) \/ Sweep(s) \/ Unsubscribe(s)
    \/ \E n \in Namespaces : InformerSynced(s, n)

Next ==
    \/ Environment \/ Events \/ Reconcile \/ GetNamespaceFails \/ commitFails
    \/ \E s \in 1..Len(syncers) : SyncerStep(s)

Spec == Init /\ [][Next]_vars

\* Watches deliver, the informers are resynced, the worker and the goroutines run, and the
\* backend serves the APIServiceNamespaces.
FairSpec ==
    /\ Spec
    /\ WF_vars(DeliverExport) /\ WF_vars(DeliverBinding) /\ WF_vars(DeliverCRD) /\ WF_vars(Resync)
    /\ WF_vars(BindingReports) /\ WF_vars(Reconcile)
    /\ \A n \in Namespaces :
          WF_vars(DeliverNamespace(n)) /\ WF_vars(HandlerPanics(n)) /\ WF_vars(NamespaceReady(n))
    /\ \A s \in 1..(2 * MaxOps + 2) : WF_vars(s \in 1..Len(syncers) /\ SyncerStep(s))

-----------------------------------------------------------------------------
\* Type correctness.
TypeOK ==
    /\ export \in Export \cup {None} /\ exportCache \in Export \cup {None}
    /\ binding \in Binding \cup {None} /\ bindingCache \in Binding \cup {None}
    /\ crd \in BOOLEAN /\ crdCache \in BOOLEAN
    /\ fresh \subseteq {"cache", "work"}
    /\ sns \in [Namespaces -> {"absent", "pending", "ready"}]
    /\ snCache \in [Namespaces -> {"absent", "pending", "ready"}]
    /\ scope \in {"Cluster", "Namespaced"}
    /\ queued \in BOOLEAN
    /\ work \in [step : {"idle", "getNamespace", "commit"}, old : Export \cup {None},
                 new : Export \cup {None}, err : BOOLEAN]
    /\ syncers \in Seq(Syncer)
    /\ syncContext \in 0..Len(syncers)
    /\ ops \in 0..MaxOps

\* The registered syncer is the only one whose context is open, although a replacement stops
\* the old one, makes a call that may fail and only then starts the new one: two syncers of
\* one export would both create and delete the same objects.
OneSyncer == \A s \in 1..Len(syncers) : ~syncers[s].cancelled <=> s = syncContext

Wanted == export # None /\ binding # None /\ crd

Serving ==
    /\ syncContext # 0
    /\ syncers[syncContext].generation = export.generation
    /\ syncers[syncContext].phase = "running"
    /\ scope = "Namespaced" =>
          syncers[syncContext].watched = {n \in Namespaces : sns[n] = "ready"}

\* Once nobody intervenes an export with a binding and a CRD is served by a running syncer of
\* its generation, which watches the namespaces there are, and no other export is.  No
\* missed event, failed call, panic or namespace that comes or goes during a start prevents
\* that.
SyncerFollowsExport == <>[](IF Wanted THEN Serving ELSE syncContext = 0)

\* A syncer that was stopped ends its watches, but for those that its handler starts between
\* the two goroutines that end it, and no longer hears of namespaces.
StoppedSyncersEnd ==
    <>[](\A s \in 1..Len(syncers) : syncers[s].cancelled =>
            syncers[s].watched \subseteq syncers[s].late /\ ~syncers[s].subscribed)

\* The provider learns from the export whether it is bound, whether the consumer's schema
\* is in sync and which names the consumer's CRD got, as last seen.
StatusFollowsConsumer ==
    <>[](export # None =>
            /\ export.connected = IF binding = None THEN "false" ELSE "true"
            /\ export.inSync = IF binding # None /\ binding.inSync = "true" THEN "true" ELSE "false"
            /\ crd => export.names)
=============================================================================

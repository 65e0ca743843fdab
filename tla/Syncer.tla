------------------------------- MODULE Syncer -------------------------------
(***************************************************************************)
(* The konnector's syncer for one object of one exported, namespaced       *)
(* resource: the spec, status and adopt controllers, which keep a consumer *)
(* (downstream) object and a provider (upstream) object alike.             *)
(*                                                                         *)
(* The three controllers share two informer caches, one per cluster, and   *)
(* the cache of the APIServiceNamespace that maps the consumer namespace   *)
(* to a provider namespace.  Every read is a cache read and may be stale;  *)
(* every write is an API call.  A reconcile is split at its API calls, so  *)
(* users, the provider, the caches and the other controllers run between   *)
(* what a controller reads and what it writes.                             *)
(*                                                                         *)
(* Objects of different names share nothing but the APIServiceNamespace,   *)
(* so one name is enough.  resourceVersion is represented by the sets      *)
(* consFresh and provFresh: the holders (the cache, or a busy worker) whose*)
(* copy still carries the current version.  An update is accepted exactly  *)
(* when its sender is in the set; otherwise it is answered with Conflict   *)
(* (or NotFound) and the key is requeued.                                  *)
(***************************************************************************)

EXTENDS Naturals

CONSTANTS
    Specs,          \* the values an object's spec can have
    Statuses,       \* the values a provider can report in .status
    NoStatus,       \* .status is absent
    NoObj,          \* the object does not exist
    OperatorActs,   \* what operators do to provider objects behind the konnector's back
    MaxOps          \* how many times the environment intervenes

DownstreamFinalizer == "klutch.anynines.com/syncer"
ForeignFinalizer == "foreign"   \* a finalizer of the provider's own controllers

Object == [spec       : Specs,
           status     : Statuses \cup {NoStatus},
           finalizers : SUBSET {DownstreamFinalizer, ForeignFinalizer},
           deleting   : BOOLEAN,  \* deletionTimestamp is set
           bound      : BOOLEAN]  \* has annotation klutch.anynines.com/bound

ASSUME SyncerAssumption ==
    /\ NoObj \notin Object
    /\ NoStatus \notin Statuses
    /\ OperatorActs \subseteq {"create", "update", "delete"}
    /\ MaxOps \in Nat

VARIABLES
    cons, prov,           \* the objects in the consumer and provider API servers
    consCache, provCache, \* the informers' copies of them
    consFresh, provFresh, \* who holds the current version of them
    consSynced, provSynced, \* the informers' HasSynced
    sn, snCache,          \* the APIServiceNamespace and the informer's copy
    running,              \* the workers of the three controllers are started
    queue,                \* the controllers that have the key in their workqueue
    specW, statusW, adoptW, \* the workers: the next API call and what it needs
    paired,               \* history: prov was created for the current consumer
                          \* object, and no one asked to delete that object
    ops                   \* interventions of the environment so far: users, operators,
                          \* the provider's controllers, failing calls, restarts

objects  == <<cons, prov, consFresh, provFresh>>
caches   == <<consCache, provCache, consSynced, provSynced>>
snVars   == <<sn, snCache>>
workers  == <<specW, statusW, adoptW>>
vars     == <<objects, caches, snVars, running, queue, workers, paired, ops>>

Controllers == {"spec", "status", "adopt"}

SpecCalls   == {"createServiceNamespace", "addFinalizer", "createUpstream",
                "applyUpstream", "deleteUpstream", "removeFinalizer"}
StatusCalls == {"deleteUpstream", "updateStatus"}
AdoptCalls  == {"createDownstream", "annotateDownstream", "annotateUpstream"}

IdleSpec   == [call |-> "none", obj |-> NoObj, up |-> NoObj]
IdleStatus == [call |-> "none", status |-> NoStatus]
IdleAdopt  == [call |-> "none", obj |-> NoObj]

-----------------------------------------------------------------------------
(* The API servers (external): what a request does to the stored object.   *)

\* A delete request marks an object that has finalizers and removes any other.
Deleted(obj) ==
    IF obj.finalizers = {} THEN NoObj ELSE [obj EXCEPT !.deleting = TRUE]

\* An update that leaves a marked object without finalizers completes its deletion.
Stored(obj) ==
    IF obj.deleting /\ obj.finalizers = {} THEN NoObj ELSE obj

\* A write that changes nothing keeps the resourceVersion; any other makes every
\* copy stale except the one returned to the writers in keep.
WriteCons(new, keep) ==
    /\ cons' = new
    /\ consFresh' = IF new = cons THEN consFresh ELSE keep

WriteProv(new) ==
    /\ prov' = new
    /\ provFresh' = IF new = prov THEN provFresh ELSE {}

-----------------------------------------------------------------------------
(* The environment: users of the consumer cluster, the provider's own      *)
(* controllers and operators, and the provider backend.                    *)

\* Interventions are not limited in the real system; MaxOps bounds them here.
Intervene == ops < MaxOps /\ ops' = ops + 1

UserCreate(s) ==
    /\ Intervene
    /\ cons = NoObj
    /\ WriteCons([spec |-> s, status |-> NoStatus, finalizers |-> {},
                  deleting |-> FALSE, bound |-> FALSE], {})
    /\ UNCHANGED <<prov, provFresh, caches, snVars, running, queue, workers, paired>>

UserUpdate(s) ==
    /\ Intervene
    /\ cons # NoObj
    /\ cons.spec # s
    /\ WriteCons([cons EXCEPT !.spec = s], {})
    /\ UNCHANGED <<prov, provFresh, caches, snVars, running, queue, workers, paired>>

UserDelete ==
    /\ Intervene
    /\ cons # NoObj
    /\ ~cons.deleting
    /\ WriteCons(Deleted(cons), {})
    /\ paired' = FALSE
    /\ UNCHANGED <<prov, provFresh, caches, snVars, running, queue, workers>>

\* The provider namespace exists once the APIServiceNamespace is ready.
OperatorCreate(s) ==
    /\ Intervene
    /\ "create" \in OperatorActs
    /\ sn = "ready"
    /\ prov = NoObj
    /\ WriteProv([spec |-> s, status |-> NoStatus, finalizers |-> {},
                  deleting |-> FALSE, bound |-> FALSE])
    /\ UNCHANGED <<cons, consFresh, caches, snVars, running, queue, workers, paired>>

OperatorUpdate(s) ==
    /\ Intervene
    /\ "update" \in OperatorActs
    /\ prov # NoObj
    /\ prov.spec # s
    /\ WriteProv([prov EXCEPT !.spec = s])
    /\ UNCHANGED <<cons, consFresh, caches, snVars, running, queue, workers, paired>>

OperatorDelete ==
    /\ Intervene
    /\ "delete" \in OperatorActs
    /\ prov # NoObj
    /\ ~prov.deleting
    /\ WriteProv(Deleted(prov))
    /\ paired' = FALSE
    /\ UNCHANGED <<cons, consFresh, caches, snVars, running, queue, workers>>

ProviderReport(t) ==
    /\ Intervene
    /\ prov # NoObj
    /\ prov.status # t
    /\ WriteProv([prov EXCEPT !.status = t])
    /\ UNCHANGED <<cons, consFresh, caches, snVars, running, queue, workers, paired>>

ProviderAddFinalizer ==
    /\ Intervene
    /\ prov # NoObj
    /\ ~prov.deleting
    /\ ForeignFinalizer \notin prov.finalizers
    /\ WriteProv([prov EXCEPT !.finalizers = @ \cup {ForeignFinalizer}])
    /\ UNCHANGED <<cons, consFresh, caches, snVars, running, queue, workers, paired>>

ProviderFinalize ==
    /\ prov # NoObj
    /\ prov.deleting
    /\ ForeignFinalizer \in prov.finalizers
    /\ WriteProv(Stored([prov EXCEPT !.finalizers = @ \ {ForeignFinalizer}]))
    /\ UNCHANGED <<cons, consFresh, caches, snVars, running, queue, workers, paired, ops>>

\* The backend's servicenamespace controller fills in status.namespace.
BackendReady ==
    /\ sn = "pending"
    /\ sn' = "ready"
    /\ UNCHANGED <<objects, caches, snCache, running, queue, workers, paired, ops>>

-----------------------------------------------------------------------------
(* Informers and event handlers.                                           *)

\* enqueueConsumer of the three controllers: status and adopt can only build
\* their key when the APIServiceNamespace is ready in the cache.
EnqueueConsumer == IF snCache = "ready" THEN Controllers ELSE {"spec"}

\* enqueueProvider of the three: the namespace must be that of an APIServiceNamespace of
\* this provider in the cache.
EnqueueProvider == IF snCache = "ready" THEN Controllers ELSE {}

\* enqueueServiceNamespace of the three controllers, for the cached objects.
EnqueueServiceNamespace(s) ==
    (IF consCache # NoObj THEN {"spec"} ELSE {})
        \cup (IF s = "ready" /\ provCache # NoObj THEN {"status", "adopt"} ELSE {})

\* A synced informer sees every change, an object that came and went included;
\* the initial list only shows the object that is there.
Unseen(synced, cached, current) == ~synced /\ cached = NoObj /\ current = NoObj

DeliverConsumer ==
    /\ "cache" \notin consFresh
    /\ consCache' = cons
    /\ consFresh' = consFresh \cup {"cache"}
    /\ consSynced' = TRUE
    /\ queue' = IF Unseen(consSynced, consCache, cons) THEN queue
                ELSE queue \cup EnqueueConsumer
    /\ UNCHANGED <<cons, prov, provFresh, provCache, provSynced, snVars, running, workers, paired, ops>>

\* The informer of a provider namespace is started when its APIServiceNamespace
\* is ready in the cache; until it has listed, its lister knows no object.
DeliverProvider ==
    /\ snCache = "ready"
    /\ "cache" \notin provFresh
    /\ provCache' = prov
    /\ provFresh' = provFresh \cup {"cache"}
    /\ provSynced' = TRUE
    /\ queue' = IF Unseen(provSynced, provCache, prov) THEN queue
                ELSE queue \cup EnqueueProvider
    /\ UNCHANGED <<cons, prov, consFresh, consCache, consSynced, snVars, running, workers, paired, ops>>

\* The controllers' handlers for APIServiceNamespaces are added when they start.
DeliverServiceNamespace ==
    /\ snCache # sn
    /\ snCache' = sn
    /\ queue' = IF running THEN queue \cup EnqueueServiceNamespace(sn) ELSE queue
    /\ UNCHANGED <<objects, caches, sn, running, workers, paired, ops>>

\* The informers' periodic resync repeats an update event for every cached object.
Resync ==
    /\ running
    /\ queue' = queue \cup (IF consCache # NoObj THEN EnqueueConsumer ELSE {})
                      \cup (IF provCache # NoObj THEN EnqueueProvider ELSE {})
    /\ UNCHANGED <<objects, caches, snVars, running, workers, paired, ops>>

\* Mutant: the workers are started without waiting for the consumer informer.
StartControllersUnsynced ==
    /\ ~running
    /\ snCache = "none" \/ provSynced
    /\ running' = TRUE
    /\ queue' = IF snCache = "none" THEN queue
                ELSE queue \cup EnqueueServiceNamespace(snCache)
    /\ UNCHANGED <<objects, caches, snVars, workers, paired, ops>>

\* ensureControllers starts the workers when both informers have synced; the
\* multi-namespace informer counts as synced when every APIServiceNamespace it
\* knows has a synced informer.  Adding the handlers replays the known
\* APIServiceNamespaces.
StartControllers ==
    /\ ~running
    /\ consSynced
    /\ snCache = "none" \/ provSynced
    /\ running' = TRUE
    /\ queue' = IF snCache = "none" THEN queue
                ELSE queue \cup EnqueueServiceNamespace(snCache)
    /\ UNCHANGED <<objects, caches, snVars, workers, paired, ops>>

\* The konnector dies, or the syncer is replaced because the APIServiceExport
\* changed; the new one starts with empty queues and caches.  The APIServiceNamespace
\* informer has synced by then, unless that took longer than its deadline.
Restart ==
    /\ Intervene
    /\ consCache' = NoObj /\ provCache' = NoObj
    /\ consSynced' = FALSE /\ provSynced' = FALSE
    /\ consFresh' = {} /\ provFresh' = {}
    /\ snCache' \in {"none", sn}
    /\ running' = FALSE
    /\ queue' = {}
    /\ specW' = IdleSpec /\ statusW' = IdleStatus /\ adoptW' = IdleAdopt
    /\ UNCHANGED <<cons, prov, sn, paired>>

-----------------------------------------------------------------------------
(* processNextWorkItem: the end of a reconcile.  Forget leaves the queue as*)
(* it is, an error or a requeue puts the key back.                         *)

SpecDone(q)   == specW' = IdleSpec     /\ queue' = q
StatusDone(q) == statusW' = IdleStatus /\ queue' = q
AdoptDone(q)  == adoptW' = IdleAdopt   /\ queue' = q

Begin(c, idle) == running /\ c \in queue /\ idle

-----------------------------------------------------------------------------
(* The spec controller: downstream spec and metadata to upstream.          *)

\* Mutant: the upstream object is created before the finalizer is added.
SpecCallFinalizerLast(obj, up) ==
    CASE obj.deleting /\ up = NoObj ->
            IF DownstreamFinalizer \in obj.finalizers THEN "removeFinalizer" ELSE "none"
      [] obj.deleting /\ up # NoObj ->
            IF up.deleting THEN "none" ELSE "deleteUpstream"
      [] ~obj.deleting /\ up = NoObj -> "createUpstream"
      [] ~obj.deleting /\ up # NoObj ->
            IF DownstreamFinalizer \notin obj.finalizers THEN "addFinalizer"
            ELSE IF up.spec = obj.spec THEN "none" ELSE "applyUpstream"

\* Mutant: an upstream object with another spec is replaced instead of updated.
SpecCallReplace(obj, up) ==
    CASE obj.deleting /\ up = NoObj ->
            IF DownstreamFinalizer \in obj.finalizers THEN "removeFinalizer" ELSE "none"
      [] obj.deleting /\ up # NoObj ->
            IF up.deleting THEN "none" ELSE "deleteUpstream"
      [] ~obj.deleting /\ DownstreamFinalizer \notin obj.finalizers -> "addFinalizer"
      [] ~obj.deleting /\ DownstreamFinalizer \in obj.finalizers ->
            IF up = NoObj THEN "createUpstream"
            ELSE IF up.spec = obj.spec THEN "none" ELSE "deleteUpstream"


\* The next API call of reconcile for the downstream copy obj and the upstream
\* copy up, once the provider namespace is known; "none" when it returns.
SpecCall(obj, up) ==
    CASE obj.deleting /\ up = NoObj ->
            IF DownstreamFinalizer \in obj.finalizers THEN "removeFinalizer" ELSE "none"
      [] obj.deleting /\ up # NoObj ->
            IF up.deleting THEN "none" ELSE "deleteUpstream"
      [] ~obj.deleting /\ DownstreamFinalizer \notin obj.finalizers -> "addFinalizer"
      [] ~obj.deleting /\ DownstreamFinalizer \in obj.finalizers ->
            IF up = NoObj THEN "createUpstream"
            ELSE IF up.spec = obj.spec THEN "none" ELSE "applyUpstream"

\* Continue reconcile with the (possibly updated) downstream copy.
SpecContinue(obj, up, fresh) ==
    LET next == SpecCall(obj, up)
    IN  /\ specW' = IF next = "none" THEN IdleSpec
                    ELSE [call |-> next, obj |-> obj, up |-> up]
        /\ consFresh' = IF next = "none" THEN fresh \ {"spec"} ELSE fresh

\* process: the downstream object is not in the cache (any more).
SpecBeginGone ==
    /\ Begin("spec", specW.call = "none")
    /\ consCache = NoObj
    /\ queue' = queue \ {"spec"}
    /\ UNCHANGED <<objects, caches, snVars, running, workers, paired, ops>>

\* reconcile while the provider namespace is not known: a missing APIServiceNamespace
\* is created, for one that is not ready the key is requeued after a second.
SpecBeginNamespace ==
    /\ Begin("spec", specW.call = "none")
    /\ consCache # NoObj
    /\ snCache = "none"
    /\ specW' = [IdleSpec EXCEPT !.call = "createServiceNamespace"]
    /\ queue' = queue \ {"spec"}
    /\ UNCHANGED <<objects, caches, snVars, running, statusW, adoptW, paired, ops>>

\* reconcile up to its first API call, with the cached copies of both objects.
SpecBegin ==
    /\ Begin("spec", specW.call = "none")
    /\ consCache # NoObj
    /\ snCache = "ready"
    /\ SpecContinue(consCache, provCache,
           IF "cache" \in consFresh THEN consFresh \cup {"spec"} ELSE consFresh)
    /\ provFresh' = IF specW'.call # "none" /\ "cache" \in provFresh
                    THEN provFresh \cup {"spec"} ELSE provFresh
    /\ queue' = queue \ {"spec"}
    /\ UNCHANGED <<cons, prov, caches, snVars, running, statusW, adoptW, paired, ops>>

\* createServiceNamespace: the new APIServiceNamespace is not ready, so the key
\* is requeued; AlreadyExists is an error, which requeues it too.
SpecCreateServiceNamespace ==
    /\ specW.call = "createServiceNamespace"
    /\ sn' = IF sn = "none" THEN "pending" ELSE sn
    /\ SpecDone(queue \cup {"spec"})
    /\ UNCHANGED <<objects, caches, snCache, running, statusW, adoptW, paired, ops>>

\* Mutant: a finalizer other than the one that is checked for is added.
SpecAddFinalizerMisnamed ==
    /\ specW.call = "addFinalizer"
    /\ LET new == [specW.obj EXCEPT !.finalizers = @ \cup {"klutch.anynines.com/sync"}]
       IN  IF "spec" \in consFresh
           THEN /\ cons' = new
                /\ SpecContinue(new, specW.up, {"spec"})
                /\ provFresh' = IF specW'.call = "none" THEN provFresh \ {"spec"} ELSE provFresh
                /\ UNCHANGED queue
           ELSE /\ SpecDone(queue \cup {"spec"})
                /\ provFresh' = provFresh \ {"spec"}
                /\ UNCHANGED <<cons, consFresh>>
    /\ UNCHANGED <<prov, caches, snVars, running, statusW, adoptW, paired, ops>>

\* ensureDownstreamFinalizer; reconcile goes on with the object it returns.
SpecAddFinalizer ==
    /\ specW.call = "addFinalizer"
    /\ LET new == [specW.obj EXCEPT !.finalizers = @ \cup {DownstreamFinalizer}]
       IN  IF "spec" \in consFresh
           THEN /\ cons' = new
                /\ SpecContinue(new, specW.up, {"spec"})
                /\ provFresh' = IF specW'.call = "none" THEN provFresh \ {"spec"} ELSE provFresh
                /\ UNCHANGED queue
           ELSE /\ SpecDone(queue \cup {"spec"})
                /\ provFresh' = provFresh \ {"spec"}
                /\ UNCHANGED <<cons, consFresh>>
    /\ UNCHANGED <<prov, caches, snVars, running, statusW, adoptW, paired, ops>>

\* createProviderObject: a clean copy of the downstream object with the bound
\* annotation.  AlreadyExists is tolerated, and the specs compared after it are
\* those of the same object, so reconcile returns either way.
SpecCreateUpstream ==
    /\ specW.call = "createUpstream"
    /\ IF prov = NoObj
       THEN /\ prov' = [spec |-> specW.obj.spec, status |-> NoStatus, finalizers |-> {},
                        deleting |-> FALSE, bound |-> TRUE]
            /\ provFresh' = {}
            /\ paired' = (cons # NoObj /\ ~cons.deleting)
       ELSE /\ provFresh' = provFresh \ {"spec"}
            /\ UNCHANGED <<prov, paired>>
    /\ SpecDone(queue)
    /\ consFresh' = consFresh \ {"spec"}
    /\ UNCHANGED <<cons, caches, snVars, running, statusW, adoptW, ops>>

\* updateProviderObject: a forced server-side apply of the cached upstream object
\* with the downstream spec and the bound annotation.  It carries the cached
\* resourceVersion, so it conflicts when the copy is stale.
SpecApplyUpstream ==
    /\ specW.call = "applyUpstream"
    /\ IF "spec" \in provFresh
       THEN /\ prov' = [specW.up EXCEPT !.spec = specW.obj.spec, !.bound = TRUE]
            /\ provFresh' = {}
            /\ SpecDone(queue)
       ELSE /\ SpecDone(queue \cup {"spec"})
            /\ UNCHANGED <<prov, provFresh>>
    /\ consFresh' = consFresh \ {"spec"}
    /\ UNCHANGED <<cons, caches, snVars, running, statusW, adoptW, paired, ops>>

\* deleteProviderObject deletes by name, whatever object has the name by now;
\* NotFound is tolerated.  The finalizer is the next call.
SpecDeleteUpstream ==
    /\ specW.call = "deleteUpstream"
    /\ IF prov = NoObj THEN UNCHANGED <<prov, paired>> /\ provFresh' = provFresh \ {"spec"}
       ELSE /\ prov' = Deleted(prov)
            /\ provFresh' = IF Deleted(prov) = prov THEN provFresh \ {"spec"} ELSE {}
            /\ paired' = FALSE
    /\ IF DownstreamFinalizer \in specW.obj.finalizers
       THEN /\ specW' = [specW EXCEPT !.call = "removeFinalizer", !.up = NoObj]
            /\ UNCHANGED <<queue, consFresh>>
       ELSE /\ SpecDone(queue)
            /\ consFresh' = consFresh \ {"spec"}
    /\ UNCHANGED <<cons, caches, snVars, running, statusW, adoptW, ops>>

\* removeDownstreamFinalizer
SpecRemoveFinalizer ==
    /\ specW.call = "removeFinalizer"
    /\ IF "spec" \in consFresh
       THEN /\ WriteCons(Stored([specW.obj EXCEPT !.finalizers = @ \ {DownstreamFinalizer}]), {})
            /\ SpecDone(queue)
       ELSE /\ SpecDone(queue \cup {"spec"})
            /\ UNCHANGED <<cons, consFresh>>
    /\ provFresh' = provFresh \ {"spec"}
    /\ UNCHANGED <<prov, caches, snVars, running, statusW, adoptW, paired, ops>>

-----------------------------------------------------------------------------
(* The status controller: upstream status to downstream; upstream objects  *)
(* whose downstream object is gone are deleted.                            *)

\* process: when the upstream object is not in the cache, it looks for the downstream
\* object under the provider namespace's name, which the consumer cluster does not
\* have, and returns.
StatusBeginGone ==
    /\ Begin("status", statusW.call = "none")
    /\ provCache = NoObj
    /\ queue' = queue \ {"status"}
    /\ UNCHANGED <<objects, caches, snVars, running, workers, paired, ops>>


\* reconcile when the downstream object is not in the cache: an upstream object that
\* the konnector bound is to be deleted, any other is left alone.
StatusBeginOrphan ==
    /\ Begin("status", statusW.call = "none")
    /\ provCache # NoObj
    /\ consCache = NoObj
    /\ queue' = queue \ {"status"}
    /\ statusW' = IF provCache.bound
                  THEN [IdleStatus EXCEPT !.call = "deleteUpstream"] ELSE IdleStatus
    /\ UNCHANGED <<objects, caches, snVars, running, specW, adoptW, paired, ops>>

\* reconcile with both objects in the cache: the status is sent when it, or the bound
\* annotation, would change.
StatusBegin ==
    /\ Begin("status", statusW.call = "none")
    /\ provCache # NoObj
    /\ consCache # NoObj
    /\ queue' = queue \ {"status"}
    /\ IF consCache.bound /\ consCache.status = provCache.status
       THEN UNCHANGED <<statusW, consFresh>>
       ELSE /\ statusW' = [call |-> "updateStatus", status |-> provCache.status]
            /\ consFresh' = IF "cache" \in consFresh
                            THEN consFresh \cup {"status"} ELSE consFresh
    /\ UNCHANGED <<cons, prov, provFresh, caches, snVars, running, specW, adoptW, paired, ops>>

\* deleteProviderObject deletes by name; NotFound is an error here.
StatusDeleteUpstream ==
    /\ statusW.call = "deleteUpstream"
    /\ IF prov = NoObj
       THEN /\ StatusDone(queue \cup {"status"})
            /\ UNCHANGED <<prov, provFresh, paired>>
       ELSE /\ WriteProv(Deleted(prov))
            /\ paired' = FALSE
            /\ StatusDone(queue)
    /\ UNCHANGED <<cons, consFresh, caches, snVars, running, specW, adoptW, ops>>

\* updateConsumerObjectStatus: the status subresource, so the annotation that
\* reconcile injected is ignored by the API server.
StatusUpdateStatus ==
    /\ statusW.call = "updateStatus"
    /\ IF "status" \in consFresh
       THEN /\ cons' = [cons EXCEPT !.status = statusW.status]
            /\ consFresh' = IF cons' = cons THEN consFresh \ {"status"} ELSE {}
            /\ StatusDone(queue)
       ELSE /\ StatusDone(queue \cup {"status"})
            /\ UNCHANGED <<cons, consFresh>>
    /\ UNCHANGED <<prov, provFresh, caches, snVars, running, specW, adoptW, paired, ops>>

-----------------------------------------------------------------------------
(* The adopt controller: upstream objects that the konnector did not create*)
(* get a downstream copy, and both are annotated as bound.                 *)

\* process: the upstream object is not in the cache; as in the status controller.
AdoptBeginGone ==
    /\ Begin("adopt", adoptW.call = "none")
    /\ provCache = NoObj
    /\ queue' = queue \ {"adopt"}
    /\ UNCHANGED <<objects, caches, snVars, running, workers, paired, ops>>

\* reconcile when the downstream object is not in the cache: an upstream object
\* without the bound annotation is a candidate for adoption.
AdoptBeginCandidate ==
    /\ Begin("adopt", adoptW.call = "none")
    /\ provCache # NoObj
    /\ consCache = NoObj
    /\ queue' = queue \ {"adopt"}
    /\ adoptW' = IF provCache.bound THEN IdleAdopt
                 ELSE [call |-> "createDownstream", obj |-> provCache]
    /\ UNCHANGED <<objects, caches, snVars, running, specW, statusW, paired, ops>>

\* reconcile with both objects in the cache.  Both updates are sent when the
\* downstream copy lacks the annotation: the second one compares the upstream
\* annotations with those of the same, not yet updated copy.
AdoptBegin ==
    /\ Begin("adopt", adoptW.call = "none")
    /\ provCache # NoObj
    /\ consCache # NoObj
    /\ queue' = queue \ {"adopt"}
    /\ IF consCache.bound
       THEN UNCHANGED <<adoptW, consFresh>>
       ELSE /\ adoptW' = [call |-> "annotateDownstream", obj |-> consCache]
            /\ consFresh' = IF "cache" \in consFresh
                            THEN consFresh \cup {"adopt"} ELSE consFresh
    /\ UNCHANGED <<cons, prov, provFresh, caches, snVars, running, specW, statusW, paired, ops>>

\* createConsumerObject: a copy of the upstream object, its finalizers included;
\* the API server drops the status and the deletion timestamp.
AdoptCreateDownstream ==
    /\ adoptW.call = "createDownstream"
    /\ IF cons = NoObj
       THEN /\ WriteCons([adoptW.obj EXCEPT !.status = NoStatus, !.deleting = FALSE,
                                            !.bound = TRUE], {})
            /\ AdoptDone(queue)
       ELSE /\ AdoptDone(queue \cup {"adopt"})
            /\ UNCHANGED <<cons, consFresh>>
    /\ UNCHANGED <<prov, provFresh, caches, snVars, running, specW, statusW, paired, ops>>

\* Mutant: the resourceVersion is cleared from the object before it is sent.
AdoptAnnotateDownstreamForced ==
    /\ adoptW.call = "annotateDownstream"
    /\ IF cons # NoObj
       THEN WriteCons([adoptW.obj EXCEPT !.bound = TRUE], {})
       ELSE UNCHANGED <<cons, consFresh>>
    /\ adoptW' = [IdleAdopt EXCEPT !.call = "annotateUpstream"]
    /\ UNCHANGED <<prov, provFresh, caches, snVars, running, queue, specW, statusW, paired, ops>>

\* updateConsumerObject; its error is overwritten by that of the next call.
AdoptAnnotateDownstream ==
    /\ adoptW.call = "annotateDownstream"
    /\ IF "adopt" \in consFresh
       THEN WriteCons([adoptW.obj EXCEPT !.bound = TRUE], {})
       ELSE UNCHANGED <<cons, consFresh>>
    /\ adoptW' = [IdleAdopt EXCEPT !.call = "annotateUpstream"]
    /\ UNCHANGED <<prov, provFresh, caches, snVars, running, queue, specW, statusW, paired, ops>>

\* updateProviderObject sends the upstream object to the consumer cluster, which
\* has no such object: NotFound, and the key is requeued.
AdoptAnnotateUpstream ==
    /\ adoptW.call = "annotateUpstream"
    /\ AdoptDone(queue \cup {"adopt"})
    /\ UNCHANGED <<objects, caches, snVars, running, specW, statusW, paired, ops>>

\* An API call fails without effect: the reconcile returns the error and the key is
\* requeued.  Only the adopt controller goes on after a failed downstream update.
CallFails(c) ==
    /\ Intervene
    /\ \/ /\ c = "spec" /\ specW.call # "none"
          /\ SpecDone(queue \cup {c})
          /\ UNCHANGED <<statusW, adoptW>>
       \/ /\ c = "status" /\ statusW.call # "none"
          /\ StatusDone(queue \cup {c})
          /\ UNCHANGED <<specW, adoptW>>
       \/ /\ c = "adopt" /\ adoptW.call \notin {"none", "annotateDownstream"}
          /\ AdoptDone(queue \cup {c})
          /\ UNCHANGED <<specW, statusW>>
       \/ /\ c = "adopt" /\ adoptW.call = "annotateDownstream"
          /\ adoptW' = [IdleAdopt EXCEPT !.call = "annotateUpstream"]
          /\ UNCHANGED <<queue, specW, statusW>>
    /\ consFresh' = consFresh \ {c}
    /\ provFresh' = provFresh \ {c}
    /\ UNCHANGED <<cons, prov, caches, snVars, running, paired>>

-----------------------------------------------------------------------------
Init ==
    /\ cons = NoObj /\ prov = NoObj
    /\ consCache = NoObj /\ provCache = NoObj
    /\ consFresh = {} /\ provFresh = {}
    /\ consSynced = FALSE /\ provSynced = FALSE
    /\ sn \in {"none", "pending", "ready"} \* another object may have needed it already
    /\ snCache \in {"none", sn}
    /\ running = FALSE
    /\ queue = {}
    /\ specW = IdleSpec /\ statusW = IdleStatus /\ adoptW = IdleAdopt
    /\ paired = FALSE
    /\ ops = 0

Environment ==
    \/ \E s \in Specs : UserCreate(s) \/ UserUpdate(s) \/ OperatorCreate(s) \/ OperatorUpdate(s)
    \/ UserDelete \/ OperatorDelete
    \/ \E t \in Statuses : ProviderReport(t)
    \/ ProviderAddFinalizer \/ ProviderFinalize
    \/ BackendReady

Informers ==
    DeliverConsumer \/ DeliverProvider \/ DeliverServiceNamespace \/ Resync
        \/ StartControllers \/ Restart

SpecStep ==
    SpecBeginGone \/ SpecBeginNamespace \/ SpecBegin \/ SpecCreateServiceNamespace \/ SpecAddFinalizer \/ SpecCreateUpstream
        \/ SpecApplyUpstream \/ SpecDeleteUpstream \/ SpecRemoveFinalizer

StatusStep ==
    StatusBeginGone \/ StatusBeginOrphan \/ StatusBegin
        \/ StatusDeleteUpstream \/ StatusUpdateStatus

AdoptStep ==
    AdoptBeginGone \/ AdoptBeginCandidate \/ AdoptBegin \/ AdoptCreateDownstream \/ AdoptAnnotateDownstream \/ AdoptAnnotateUpstream

Konnector == SpecStep \/ StatusStep \/ AdoptStep \/ (\E c \in Controllers : CallFails(c))

Next == Environment \/ Informers \/ Konnector

\* The watches deliver, the workers run and the provider side finishes what it
\* is asked to do.  Nothing is assumed of users, failures, resyncs or restarts.
Fairness ==
    /\ WF_vars(DeliverConsumer) /\ WF_vars(DeliverProvider)
    /\ WF_vars(DeliverServiceNamespace) /\ WF_vars(StartControllers)
    /\ WF_vars(SpecStep) /\ WF_vars(StatusStep) /\ WF_vars(AdoptStep)
    /\ WF_vars(BackendReady) /\ WF_vars(ProviderFinalize)

Spec == Init /\ [][Next]_vars
-----------------------------------------------------------------------------
(* Properties.                                                             *)

ObjectOrNone == Object \cup {NoObj}

\* Type correctness of the API objects, the caches and the workers' snapshots.
TypeOK ==
    /\ cons \in ObjectOrNone /\ prov \in ObjectOrNone
    /\ consCache \in ObjectOrNone /\ provCache \in ObjectOrNone
    /\ consFresh \in SUBSET (Controllers \cup {"cache"})
    /\ provFresh \in SUBSET (Controllers \cup {"cache"})
    /\ consSynced \in BOOLEAN /\ provSynced \in BOOLEAN
    /\ sn \in {"none", "pending", "ready"} /\ snCache \in {"none", "pending", "ready"}
    /\ running \in BOOLEAN
    /\ queue \in SUBSET Controllers
    /\ specW \in [call : SpecCalls \cup {"none"}, obj : ObjectOrNone, up : ObjectOrNone]
    /\ statusW \in [call : StatusCalls \cup {"none"}, status : Statuses \cup {NoStatus}]
    /\ adoptW \in [call : AdoptCalls \cup {"none"}, obj : ObjectOrNone]
    /\ paired \in BOOLEAN
    /\ ops \in 0..MaxOps

\* While the spec controller is about to create or update the upstream object, the
\* downstream object it works for still exists and still carries the finalizer,
\* however stale the controller's copy is: reconcile adds the finalizer before it
\* creates, and nothing but a later reconcile of the same worker removes it.
FinalizerHeld ==
    specW.call \in {"createUpstream", "applyUpstream"} =>
        cons # NoObj /\ DownstreamFinalizer \in cons.finalizers

\* The spec controller never holds a delete call for an upstream object that was
\* created for a downstream object nobody asked to delete.
SpecDeleteIsWanted == specW.call = "deleteUpstream" => ~paired

\* Neither controller decides to delete an upstream object that was created for a
\* downstream object nobody asked to delete: an empty or outdated consumer cache,
\* after a restart in particular, is never mistaken for a deletion.
DeleteDecisionIsWanted ==
    [][/\ specW.call # "deleteUpstream" /\ specW'.call = "deleteUpstream" => ~paired
       /\ statusW.call # "deleteUpstream" /\ statusW'.call = "deleteUpstream" => ~paired]_vars

\* The whole-object updates of the spec and adopt controllers, which send a cached
\* copy back, never undo a user's concurrent change of the downstream spec, a
\* deletion request, or another controller's finalizer or status.
NoLostUpdate ==
    [][Konnector /\ cons # NoObj /\ cons' # NoObj =>
          /\ cons'.spec = cons.spec
          /\ cons'.deleting = cons.deleting
          /\ cons'.finalizers \ {DownstreamFinalizer} = cons.finalizers \ {DownstreamFinalizer}
          /\ cons'.status # cons.status => statusW.call = "updateStatus"]_vars

\* The upstream object, if any, is a live mirror of a live downstream object, and
\* without a downstream object there is no upstream object.
Mirrored ==
    IF cons = NoObj THEN prov = NoObj
    ELSE /\ ~cons.deleting
         /\ prov # NoObj /\ ~prov.deleting
         /\ prov.spec = cons.spec
         /\ prov.status = cons.status
=============================================================================

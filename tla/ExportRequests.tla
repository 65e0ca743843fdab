--------------------------- MODULE ExportRequests ---------------------------
(***************************************************************************)
(* The example backend's controllers of APIServiceExportRequests and of    *)
(* APIServiceExports, for one resource and one consumer's namespace.  A    *)
(* request is answered by creating an export with the schema of the        *)
(* resource's CRD; the export then follows the CRD and is deleted with it. *)
(*                                                                         *)
(* The two controllers run in one process, with one worker each, and share *)
(* their informers.  A reconcile is split at its calls to the API server.  *)
(***************************************************************************)
EXTENDS Schemas

CONSTANTS
    Requests,   \* names of requests for the resource
    CRDs,       \* what the provider makes of the CRD
    None,       \* nothing
    MaxOps      \* how many times users intervene, calls fail or the process restarts

Phases == {"Pending", "Failed", "Succeeded"}

\* Age 1 is more than a minute, age 2 more than ten.
Request == [phase : Phases, ready : {"unknown", "false", "true"}, age : 0..2]

Revs == {c.rev : c \in CRDs}
Export == [spec : ExportSpec(Revs), hash : {APIServiceExportCRDSpecHash(s) : s \in ExportSpec(Revs)},
           inSync : BOOLEAN]

ASSUME ExportRequestsAssumption ==
    /\ CRDs \subseteq CRDSpec(Revs)
    /\ None \notin Requests \cup CRDs \cup Request \cup Export
    /\ MaxOps \in Nat

VARIABLES
    crd,           \* the CustomResourceDefinition in the provider cluster
    crdCache,
    template,      \* whether there is an APIServiceExportTemplate for it
    request,       \* the APIServiceExportRequests
    requestCache,
    staleRequests, \* those whose cached copy is not the current version
    export,        \* the APIServiceExport
    exportCache,
    staleExport,
    requestQueue,
    exportQueue,   \* whether the export's key is queued
    requestWork,   \* the workers: the next call, the copy, whether it is current
    exportWork,
    granted,       \* history: the requests for which an export was found or created
    ops

provider == <<crd, template>>
caches == <<crdCache, requestCache, exportCache>>
vars == <<crd, crdCache, template, request, requestCache, staleRequests, export, exportCache,
          staleExport, requestQueue, exportQueue, requestWork, exportWork, granted, ops>>

\* status is what will be committed, None for no change, spec what the export will have.
RequestIdle == [step |-> "idle", key |-> None, current |-> FALSE, status |-> None,
                spec |-> None, err |-> FALSE]
ExportIdle == [step |-> "idle", current |-> FALSE, new |-> None]

RequestSteps == {"idle", "create", "delete", "commit"}
ExportSteps == {"idle", "delete", "patch"}

Answer == [phase : Phases, ready : {"unknown", "false", "true"}]

RequestWork == [step : RequestSteps, key : Requests \cup {None}, current : BOOLEAN,
                status : Answer \cup {None}, spec : ExportSpec(Revs) \cup {None}, err : BOOLEAN]
ExportWork == [step : ExportSteps, current : BOOLEAN, new : Export \cup {None}]

NewRequest == [phase |-> "Pending", ready |-> "unknown", age |-> 0]

-----------------------------------------------------------------------------
(* Users, clients of the API and the clock (external).                     *)

Intervene == ops < MaxOps /\ ops' = ops + 1

StoreRequest(r, new) ==
    /\ request' = [request EXCEPT ![r] = new]
    /\ staleRequests' = staleRequests \cup {r}

StoreExport(new) == export' = new /\ staleExport' = TRUE

\* A worker's copy does not survive a write to the object.
RequestOutdated(r) ==
    requestWork' = IF requestWork.key = r THEN [requestWork EXCEPT !.current = FALSE]
                                          ELSE requestWork
ExportOutdated == exportWork' = [exportWork EXCEPT !.current = FALSE]

\* The kubectl plugin or the AppClusterBinding controller.
ClientSubmit(r) ==
    /\ Intervene
    /\ request[r] = None
    /\ StoreRequest(r, NewRequest)
    /\ RequestOutdated(r)
    /\ UNCHANGED <<provider, caches, export, staleExport, requestQueue, exportQueue,
                   exportWork, granted>>

ClientRemove(r) ==
    /\ Intervene
    /\ request[r] # None
    /\ StoreRequest(r, None)
    /\ RequestOutdated(r)
    /\ granted' = granted \ {r}
    /\ UNCHANGED <<provider, caches, export, staleExport, requestQueue, exportQueue, exportWork>>

ProviderSetCRD(new) ==
    /\ Intervene
    /\ crd # new
    /\ crd' = new
    /\ UNCHANGED <<template, caches, request, staleRequests, export, staleExport, requestQueue,
                   exportQueue, requestWork, exportWork, granted>>

ProviderSetTemplate ==
    /\ Intervene
    /\ template' = ~template
    /\ UNCHANGED <<crd, caches, request, staleRequests, export, staleExport, requestQueue,
                   exportQueue, requestWork, exportWork, granted>>

\* The AppClusterBinding controller deletes exports that are no longer wanted.
ClientDeleteExport ==
    /\ Intervene
    /\ export # None
    /\ StoreExport(None)
    /\ ExportOutdated
    /\ UNCHANGED <<provider, caches, request, staleRequests, requestQueue, exportQueue,
                   requestWork, granted>>

\* The copy in the cache is the same request or an older one.
Tick(r) ==
    LET older(x) == IF x = None \/ x.age = 2 THEN x ELSE [x EXCEPT !.age = @ + 1]
    IN  /\ request[r] # None
        /\ request[r].age < 2
        /\ request' = [request EXCEPT ![r] = older(@)]
        /\ requestCache' = [requestCache EXCEPT ![r] = older(@)]
        /\ UNCHANGED <<provider, crdCache, exportCache, staleRequests, export, staleExport,
                       requestQueue, exportQueue, requestWork, exportWork, granted, ops>>

-----------------------------------------------------------------------------
(* Informers and their event handlers, in both controllers.                *)

\* IndexServiceExportRequestByGroupResource, IndexServiceExportRequestByServiceExport.
CachedRequests == {r \in Requests : requestCache[r] # None}

\* enqueueServiceExportRequest.
DeliverRequest(r) ==
    /\ r \in staleRequests
    /\ requestCache' = [requestCache EXCEPT ![r] = request[r]]
    /\ staleRequests' = staleRequests \ {r}
    /\ requestQueue' = requestQueue \cup {r}
    /\ UNCHANGED <<provider, crdCache, exportCache, request, export, staleExport, exportQueue,
                   requestWork, exportWork, granted, ops>>

\* enqueueServiceExport of both controllers.
DeliverExport ==
    /\ staleExport
    /\ exportCache' = export
    /\ staleExport' = FALSE
    /\ requestQueue' = requestQueue \cup CachedRequests
    /\ exportQueue' = TRUE
    /\ UNCHANGED <<provider, crdCache, requestCache, request, staleRequests, export,
                   requestWork, exportWork, granted, ops>>

\* enqueueCRD of both controllers; IndexServiceExportByCustomResourceDefinition.
DeliverCRD ==
    /\ crdCache # crd
    /\ crdCache' = crd
    /\ requestQueue' = requestQueue \cup CachedRequests
    /\ exportQueue' = (exportQueue \/ exportCache # None)
    /\ UNCHANGED <<provider, requestCache, exportCache, request, staleRequests, export,
                   staleExport, requestWork, exportWork, granted, ops>>

\* Every informer replays its cache after half an hour.
Resync ==
    /\ requestQueue' = requestQueue \cup CachedRequests
    /\ exportQueue' = (exportQueue \/ exportCache # None)
    /\ UNCHANGED <<provider, caches, request, staleRequests, export, staleExport, requestWork,
                   exportWork, granted, ops>>

\* The process dies; the next one lists everything.
Restart ==
    /\ Intervene
    /\ crdCache' = crd
    /\ requestCache' = request
    /\ exportCache' = export
    /\ staleRequests' = {}
    /\ staleExport' = FALSE
    /\ requestQueue' = {r \in Requests : request[r] # None}
    /\ exportQueue' = (export # None)
    /\ requestWork' = RequestIdle
    /\ exportWork' = ExportIdle
    /\ UNCHANGED <<provider, request, export, granted>>

-----------------------------------------------------------------------------
(* The request controller.                                                 *)

Grant(r) == granted' = granted \cup (IF request[r] # None /\ requestWork'.current THEN {r} ELSE {})

Succeeded == [phase |-> "Succeeded", ready |-> "true"]

\* Mutant: the minute is never checked.
StillPending(obj) == "Pending"

\* The phase of a request whose CRD is missing.
PhaseWithoutCRD(obj) == IF obj.age >= 1 THEN "Failed" ELSE "Pending"

\* ensureExports up to its first call, for a copy of the request from the cache.
ensureExports(r, obj) ==
    LET work(step, status, spec, err) ==
            [step |-> step, key |-> r, current |-> r \notin staleRequests,
             status |-> status, spec |-> spec, err |-> err]
        notFound == [phase |-> PhaseWithoutCRD(obj), ready |-> "false"]
        changed(status) ==
            IF status = [phase |-> obj.phase, ready |-> obj.ready] THEN None ELSE status
    IN  \/ /\ obj.phase = "Pending" /\ crdCache = None
           /\ requestWork' = work("commit", changed(notFound), None, FALSE)
           /\ UNCHANGED granted
        \/ /\ obj.phase = "Pending" /\ crdCache # None /\ exportCache # None
           /\ requestWork' = work("commit", Succeeded, None, FALSE)
           /\ Grant(r)
        \/ /\ obj.phase = "Pending" /\ crdCache # None /\ exportCache = None /\ ~template
           /\ requestWork' = work("commit", None, None, TRUE)
           /\ UNCHANGED granted
        \/ /\ obj.phase = "Pending" /\ crdCache # None /\ exportCache = None /\ template
           /\ requestWork' = work("create", None, CRDToServiceExport(crdCache), FALSE)
           /\ UNCHANGED granted
        \/ /\ obj.phase # "Pending"
           /\ requestWork' = work(IF obj.age = 2 THEN "delete" ELSE "commit", None, None, FALSE)
           /\ UNCHANGED granted

\* process.
ProcessRequest(r) ==
    /\ requestWork.step = "idle"
    /\ r \in requestQueue
    /\ requestQueue' = requestQueue \ {r}
    /\ \/ /\ requestCache[r] = None
          /\ UNCHANGED <<requestWork, granted>>
       \/ /\ requestCache[r] # None
          /\ ensureExports(r, requestCache[r])
    /\ UNCHANGED <<provider, caches, request, staleRequests, export, staleExport, exportQueue,
                   exportWork, ops>>

\* createServiceExport.
createServiceExport ==
    /\ requestWork.step = "create"
    /\ \/ /\ export = None
          /\ StoreExport([spec |-> requestWork.spec, inSync |-> FALSE,
                          hash |-> APIServiceExportCRDSpecHash(requestWork.spec)])
          /\ requestWork' = [requestWork EXCEPT !.step = "commit", !.status = Succeeded]
          /\ Grant(requestWork.key)
          /\ ExportOutdated
       \/ /\ export # None
          /\ requestWork' = [requestWork EXCEPT !.step = "commit", !.err = TRUE]
          /\ UNCHANGED <<export, staleExport, granted, exportWork>>
    /\ UNCHANGED <<provider, caches, request, staleRequests, requestQueue, exportQueue, ops>>

\* deleteServiceExportRequest, ten minutes after its creation: by name.
deleteServiceExportRequest ==
    LET r == requestWork.key
    IN  /\ requestWork.step = "delete"
        /\ IF request[r] # None
             THEN StoreRequest(r, None)
             ELSE UNCHANGED <<request, staleRequests>>
        /\ requestWork' = [requestWork EXCEPT !.step = "commit", !.current = FALSE,
                                              !.err = request[r] = None]
        /\ granted' = granted \ {r}
        /\ UNCHANGED <<provider, caches, export, staleExport, requestQueue, exportQueue,
                       exportWork, ops>>

\* The committer: nothing to do without a change, and a patch carries the version of the
\* copy.  The worker queues the key again after an error.
FinishRequest(failed) ==
    /\ requestWork' = RequestIdle
    /\ requestQueue' = requestQueue \cup (IF failed THEN {requestWork.key} ELSE {})

\* Mutant: the patch carries no version.
commitRequestAnyVersion ==
    LET r == requestWork.key
        changed == requestWork.status # None
    IN  /\ requestWork.step = "commit"
        /\ \/ /\ changed /\ request[r] # None
              /\ StoreRequest(r, [phase |-> requestWork.status.phase, age |-> request[r].age,
                                  ready |-> requestWork.status.ready])
              /\ FinishRequest(requestWork.err)
           \/ /\ ~(changed /\ request[r] # None)
              /\ FinishRequest(requestWork.err \/ changed)
              /\ UNCHANGED <<request, staleRequests>>
        /\ UNCHANGED <<provider, caches, export, staleExport, exportQueue, exportWork, granted,
                       ops>>

commitRequest ==
    LET r == requestWork.key
        changed == requestWork.status # None
    IN  /\ requestWork.step = "commit"
        /\ \/ /\ changed /\ requestWork.current
              /\ StoreRequest(r, [phase |-> requestWork.status.phase, age |-> request[r].age,
                                  ready |-> requestWork.status.ready])
              /\ FinishRequest(requestWork.err)
           \/ /\ ~(changed /\ requestWork.current)
              /\ FinishRequest(requestWork.err \/ changed)
              /\ UNCHANGED <<request, staleRequests>>
        /\ UNCHANGED <<provider, caches, export, staleExport, exportQueue, exportWork, granted,
                       ops>>

\* A call of the request controller fails.
RequestCallFails ==
    /\ Intervene
    /\ requestWork.step # "idle"
    /\ requestWork.step = "commit" => requestWork.status # None
    /\ FinishRequest(TRUE)
    /\ UNCHANGED <<provider, caches, request, staleRequests, export, staleExport, exportQueue,
                   exportWork, granted>>

-----------------------------------------------------------------------------
(* The export controller.                                                  *)

\* ensureSchema.
ensureSchema(obj) ==
    LET work(step, new) == [step |-> step, current |-> ~staleExport, new |-> new]
    IN  \/ /\ crdCache = None
           /\ exportWork' = work("delete", None)
           /\ exportQueue' = FALSE
        \/ LET expected == CRDToServiceExport(crdCache)
               hash == APIServiceExportCRDSpecHash(expected)
           IN  /\ crdCache # None
               /\ IF obj.hash # hash
                    THEN /\ exportWork' = work("patch", [obj EXCEPT !.spec = expected, !.hash = hash])
                         /\ exportQueue' = TRUE    \* requeue
                    ELSE /\ exportWork' = IF obj.inSync THEN ExportIdle
                                          ELSE work("patch", [obj EXCEPT !.inSync = TRUE])
                         /\ exportQueue' = FALSE

\* process.
ProcessExport ==
    /\ exportWork.step = "idle"
    /\ exportQueue
    /\ \/ /\ exportCache = None
          /\ exportQueue' = FALSE
          /\ UNCHANGED exportWork
       \/ /\ exportCache # None
          /\ ensureSchema(exportCache)
    /\ UNCHANGED <<provider, caches, request, staleRequests, export, staleExport, requestQueue,
                   requestWork, granted, ops>>

\* Mutant: the export is left to whoever removed the CRD.
deleteServiceExportKept ==
    /\ exportWork.step = "delete"
    /\ exportWork' = ExportIdle
    /\ UNCHANGED <<provider, caches, request, staleRequests, export, staleExport, requestQueue,
                   exportQueue, requestWork, granted, ops>>

\* deleteServiceExport, by name; an export that is gone is an error, and queued again.
deleteServiceExport ==
    /\ exportWork.step = "delete"
    /\ exportWork' = ExportIdle
    /\ \/ /\ export # None
          /\ StoreExport(None)
          /\ UNCHANGED exportQueue
       \/ /\ export = None
          /\ exportQueue' = TRUE
          /\ UNCHANGED <<export, staleExport>>
    /\ UNCHANGED <<provider, caches, request, staleRequests, requestQueue, requestWork, granted,
                   ops>>

\* The committer.
commitExport ==
    /\ exportWork.step = "patch"
    /\ exportWork' = ExportIdle
    /\ \/ /\ exportWork.current
          /\ StoreExport(exportWork.new)
          /\ UNCHANGED exportQueue
       \/ /\ ~exportWork.current
          /\ exportQueue' = TRUE
          /\ UNCHANGED <<export, staleExport>>
    /\ UNCHANGED <<provider, caches, request, staleRequests, requestQueue, requestWork, granted,
                   ops>>

ExportCallFails ==
    /\ Intervene
    /\ exportWork.step # "idle"
    /\ exportWork' = ExportIdle
    /\ exportQueue' = TRUE
    /\ UNCHANGED <<provider, caches, request, staleRequests, export, staleExport, requestQueue,
                   requestWork, granted>>

-----------------------------------------------------------------------------
\* Requests may be waiting when the backend is first started.
Init ==
    /\ crd \in CRDs \cup {None}
    /\ crdCache = crd
    /\ template = TRUE
    /\ request \in [Requests -> {None, NewRequest}]
    /\ requestCache = [r \in Requests |-> None]
    /\ staleRequests = {r \in Requests : request[r] # None}
    /\ export = None
    /\ exportCache = None
    /\ staleExport = FALSE
    /\ requestQueue = {}
    /\ exportQueue = FALSE
    /\ requestWork = RequestIdle
    /\ exportWork = ExportIdle
    /\ granted = {}
    /\ ops = 0

Users ==
    \/ \E r \in Requests : ClientSubmit(r) \/ ClientRemove(r)
    \/ \E new \in CRDs \cup {None} : ProviderSetCRD(new)
    \/ ProviderSetTemplate
    \/ ClientDeleteExport

RequestController ==
    \/ \E r \in Requests : ProcessRequest(r)
    \/ createServiceExport
    \/ deleteServiceExportRequest
    \/ commitRequest

ExportController ==
    \/ ProcessExport
    \/ deleteServiceExport
    \/ commitExport

Next ==
    \/ Users
    \/ \E r \in Requests : Tick(r) \/ DeliverRequest(r)
    \/ DeliverExport
    \/ DeliverCRD
    \/ Resync
    \/ Restart
    \/ RequestController
    \/ ExportController
    \/ RequestCallFails
    \/ ExportCallFails

Spec == Init /\ [][Next]_vars

\* Informers deliver, the queues are served (a request is not starved by others), time
\* passes, and caches are replayed.
Fairness ==
    /\ \A r \in Requests :
          WF_vars(Tick(r)) /\ WF_vars(DeliverRequest(r)) /\ SF_vars(ProcessRequest(r))
    /\ WF_vars(DeliverExport)
    /\ WF_vars(DeliverCRD)
    /\ WF_vars(Resync)
    /\ WF_vars(createServiceExport \/ deleteServiceExportRequest \/ commitRequest)
    /\ WF_vars(ExportController)

FairSpec == Spec /\ Fairness

-----------------------------------------------------------------------------
\* Objects, caches and workers hold what their types allow.
TypeOK ==
    /\ crd \in CRDs \cup {None}
    /\ crdCache \in CRDs \cup {None}
    /\ template \in BOOLEAN
    /\ request \in [Requests -> Request \cup {None}]
    /\ requestCache \in [Requests -> Request \cup {None}]
    /\ staleRequests \subseteq Requests
    /\ export \in Export \cup {None}
    /\ exportCache \in Export \cup {None}
    /\ staleExport \in BOOLEAN
    /\ requestQueue \subseteq Requests
    /\ exportQueue \in BOOLEAN
    /\ requestWork \in RequestWork
    /\ exportWork \in ExportWork
    /\ granted \subseteq Requests
    /\ ops \in 0..MaxOps

Pending(r) == request[r] # None /\ request[r].phase = "Pending"

\* The request API that clients see is the one of ExportService: a request is answered
\* once, "Succeeded" means that an export was found or created for this very request
\* and not for an earlier one of the same name, and nothing but a request makes an
\* export appear (ensureExports, the committer's preconditions).
Service == INSTANCE ExportService WITH
    phase     <- [r \in Requests |-> IF request[r] = None THEN "none" ELSE request[r].phase],
    taken     <- requestWork.key,
    export    <- export # None,
    NoRequest <- None
ImplementsService == Service!Spec

\* As long as the resource keeps a template, no request stays Pending: whatever calls fail
\* and whenever the backend restarts, it succeeds or, without a CRD, fails; though nothing
\* wakes the controller after the minute it grants but the resync.
EveryRequestIsAnswered ==
    \A r \in Requests : <>[]template => (Pending(r) ~> ~Pending(r))

\* Once the provider leaves the CRD alone, an export has its schema for good and says so,
\* and no export outlives its CRD, not even one created late from a cached CRD.
ExportFollowsCRD ==
    <>[](\/ export = None
         \/ /\ crd # None
            /\ export.spec = CRDToServiceExport(crd)
            /\ export.inSync)
=============================================================================

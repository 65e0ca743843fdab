--------------------------- MODULE ServiceInstance ---------------------------
(***************************************************************************)
(* The ServiceInstance controller of provider-anynines: a managed resource *)
(* in Kubernetes, reconciled with a service instance at an Open Service    *)
(* Broker whose operations are asynchronous.                               *)
(*                                                                         *)
(* Observe, Create, Update and Delete are this repository's.  They are     *)
(* called by the managed reconciler of crossplane-runtime, which reads the *)
(* resource from a cache, decides which of them to call and writes the     *)
(* resource back (external).  A reconcile is split at its calls to the API *)
(* server and to the broker.  As in Syncer, fresh is the set of holders    *)
(* whose copy of the resource carries its current resourceVersion.         *)
(***************************************************************************)
EXTENDS Naturals

CONSTANTS
    Plans,         \* plan names a user can ask for
    Catalog,       \* those the broker's catalog offers
    Names,         \* names of parameters
    Values,        \* values of parameters, "unset" for one that is not given
    Reordered,     \* values (arrays) that the broker returns in another order
    Wanted,        \* the configurations users ask for
    IDs,           \* instance IDs
    Keys,          \* operation keys of the broker
    None,          \* no resource, ID, operation or observation
    FailingOps,    \* operations the broker can fail: "deploying", "updating", "deleting"
    Crashes,       \* whether the provider can crash
    MaxOps         \* how many times the environment intervenes

Config == [plan : Plans, params : [Names -> Values]]

\* The managed resource.  create is the pair of Crossplane's annotations
\* external-create-pending and -succeeded/-failed, the fields after it are its status.
Resource == [desired   : Config,
             deleting  : BOOLEAN,
             finalizer : BOOLEAN,
             create    : {"none", "pending", "failed", "succeeded"},
             id        : IDs \cup {None},   \* status.atProvider.instanceID
             op        : Keys \cup {None},  \* status.pendingOperation
             ready     : BOOLEAN,
             synced    : BOOLEAN]

States == {"absent", "deploying", "provisioned", "updating", "deleting", "deleted", "failed"}

\* An instance at the broker; target is what a running operation will make of it.
Instance == [state : States, config : Config, target : Config, op : Keys \cup {None}]

ASSUME ServiceInstanceAssumption ==
    /\ Catalog \subseteq Plans /\ Wanted \subseteq Config /\ Reordered \subseteq Values
    /\ IDs # {} /\ Keys # {}
    /\ None \notin IDs \cup Keys \cup Resource \cup [state : States, config : Config]
    /\ FailingOps \subseteq {"deploying", "updating", "deleting"}
    /\ Crashes \in BOOLEAN
    /\ MaxOps \in Nat

VARIABLES
    res,      \* the resource in the API server
    cache,    \* the copy in the manager's cache
    fresh,    \* who holds the current version of res: "cache", "work"
    work,     \* the reconcile in progress: its next call, its copy, what it observed
    broker,   \* the instances by ID
    result,   \* the broker's record of each operation
    ops

vars == <<res, cache, fresh, work, broker, result, ops>>

Busy == {"deploying", "updating", "deleting"}  \* states with a running operation

Steps == {"idle", "getParameters", "getOperation", "addFinalizer", "markPending",
          "provision", "annotate", "update", "deprovision", "removeFinalizer", "writeStatus"}

Idle == [step |-> "idle", obj |-> None, seen |-> None]

\* A write to the API server; one that changes nothing keeps the resourceVersion.
WriteRes(new, keep) ==
    /\ res' = new
    /\ fresh' = IF new = res THEN fresh ELSE keep

-----------------------------------------------------------------------------
(* Users and the broker (external).                                        *)

Intervene == ops < MaxOps /\ ops' = ops + 1

UserUpdate(config) ==
    /\ Intervene
    /\ res # None
    /\ res.desired # config
    /\ WriteRes([res EXCEPT !.desired = config], {})
    /\ UNCHANGED <<cache, work, broker, result>>

UserDelete ==
    /\ Intervene
    /\ res # None
    /\ ~res.deleting
    /\ WriteRes(IF res.finalizer THEN [res EXCEPT !.deleting = TRUE] ELSE None, {})
    /\ UNCHANGED <<cache, work, broker, result>>

\* Once the provider has died between marking a creation as pending and recording its
\* outcome, Crossplane waits until an administrator removes the mark.
ClearPending ==
    /\ res # None
    /\ res.create = "pending"
    /\ work.step = "idle"
    /\ WriteRes([res EXCEPT !.create = "none"], {})
    /\ UNCHANGED <<cache, work, broker, result, ops>>

\* A key the broker can use for a new operation: one that nobody remembers.
FreeKeys ==
    Keys \ ({r.op : r \in {res, cache, work.obj} \ {None}} \cup {broker[i].op : i \in IDs})

\* The state in which an operation leaves the instance.
Final(s) == IF s = "deleting" THEN "deleted" ELSE "provisioned"

\* The broker carries out an operation at once, or starts it; k is the key it answers with.
Run(i, s, target, k) ==
    \/ /\ k = None
       /\ broker' = [broker EXCEPT ![i] =
             [state |-> Final(s), config |-> target, target |-> target, op |-> None]]
       /\ UNCHANGED result
    \/ /\ k \in FreeKeys
       /\ broker' = [broker EXCEPT ![i] =
             [state |-> s, config |-> IF s = "deploying" THEN target ELSE broker[i].config,
              target |-> target, op |-> k]]
       /\ result' = [result EXCEPT ![k] = "processing"]

\* A running operation ends well.
Complete(i) ==
    /\ broker[i].state \in Busy
    /\ result' = [result EXCEPT ![broker[i].op] = "succeeded"]
    /\ broker' = [broker EXCEPT ![i] = [state |-> Final(broker[i].state),
          config |-> broker[i].target, target |-> broker[i].target, op |-> None]]
    /\ UNCHANGED <<res, cache, fresh, work, ops>>

\* A running operation fails; an update leaves the instance as it was.
Fail(i) ==
    /\ Intervene
    /\ broker[i].state \in Busy \cap FailingOps
    /\ result' = [result EXCEPT ![broker[i].op] = "failed"]
    /\ broker' = [broker EXCEPT ![i] = [state |-> IF broker[i].state = "updating"
                                                  THEN "provisioned" ELSE "failed",
          config |-> broker[i].config, target |-> broker[i].config, op |-> None]]
    /\ UNCHANGED <<res, cache, fresh, work>>

\* The broker forgets a deleted instance.
Forget(i) ==
    /\ broker[i].state = "deleted"
    /\ broker' = [broker EXCEPT ![i].state = "absent"]
    /\ UNCHANGED <<res, cache, fresh, work, result, ops>>

Deliver ==
    /\ "cache" \notin fresh
    /\ cache' = res
    /\ fresh' = fresh \cup {"cache"}
    /\ UNCHANGED <<res, work, broker, result, ops>>

-----------------------------------------------------------------------------
(* Observe.                                                                *)

\* The managed reconciler reads the resource; it does nothing for one whose creation
\* may have been interrupted.
Reconciling ==
    /\ work.step = "idle"
    /\ cache # None
    /\ cache.create # "pending"

Take(step, obj, seen) ==
    /\ work' = [step |-> step, obj |-> obj, seen |-> seen]
    /\ fresh' = IF "cache" \in fresh THEN fresh \cup {"work"} ELSE fresh \ {"work"}

Goto(step, obj, seen) ==
    /\ work' = [step |-> step, obj |-> obj, seen |-> seen]
    /\ UNCHANGED fresh

\* An error makes the reconciler write the status with Synced=False.
Failed(obj) == [obj EXCEPT !.synced = FALSE]
Succeeded(obj) == [obj EXCEPT !.synced = TRUE]

\* setCrossplaneConditions: Ready is true only without a pending operation.  The broker
\* shows an instance that is being updated as deploying.
SetConditions(obj, seen) ==
    [obj EXCEPT !.ready = obj.op = None /\ seen.state = "provisioned"]

\* SpecMatchesObservedState compares the parameters as the broker returned them.
SpecMatchesObservedState(desired, seen) ==
    \A n \in Names : desired.params[n] = seen.config.params[n] /\ desired.params[n] \notin Reordered

isResourceUpToDate(obj, seen) ==
    \/ obj.op # None
    \/ SpecMatchesObservedState(obj.desired, seen) /\ obj.desired.plan = seen.config.plan

\* What the managed reconciler does with an observation (external); seen is None when
\* the instance does not exist.
Decide(obj, seen) ==
    CASE obj.deleting /\ seen # None -> "deprovision"
      [] obj.deleting /\ seen = None -> "removeFinalizer"
      [] ~obj.deleting /\ ~obj.finalizer -> "addFinalizer"
      [] ~obj.deleting /\ obj.finalizer /\ seen = None -> "markPending"
      [] ~obj.deleting /\ obj.finalizer /\ seen # None ->
            IF isResourceUpToDate(obj, seen) THEN "writeStatus" ELSE "update"

\* genAndCheckUID: an ID that the broker does not know.
genAndCheckUID(i) == broker[i].state = "absent"

\* setUidWithError.
WithUID(obj, i) == Failed([obj EXCEPT !.id = i])

\* getServiceFromCatalog, getPlanFromService.
InCatalog(plan) == plan \in Catalog

\* Mutant: Observe goes on with the ID it has generated.
ObserveNoIDWithoutError ==
    /\ Reconciling
    /\ cache.id = None
    /\ \E i \in IDs :
          /\ genAndCheckUID(i)
          /\ Take(Decide(cache, None), [cache EXCEPT !.id = i], None)
    /\ UNCHANGED <<res, cache, broker, result, ops>>

\* getAndVerifyServiceInstance: a new ID goes into the status, and the error makes the
\* reconciler write it.
ObserveNoID ==
    /\ Reconciling
    /\ cache.id = None
    /\ \E i \in IDs :
          /\ genAndCheckUID(i)
          /\ Take("writeStatus", WithUID(cache, i), None)
    /\ UNCHANGED <<res, cache, broker, result, ops>>

\* getServiceAndPlanIDs.
ObserveUnknownPlan ==
    /\ Reconciling
    /\ cache.id # None
    /\ ~InCatalog(cache.desired.plan)
    /\ Take("writeStatus", Failed(cache), None)
    /\ UNCHANGED <<res, cache, broker, result, ops>>

Observing ==
    /\ Reconciling
    /\ cache.id # None
    /\ InCatalog(cache.desired.plan)

ObserveGone ==
    /\ Observing
    /\ broker[cache.id].state \in {"absent", "deleted"}
    /\ Take(Decide(cache, None), cache, None)
    /\ UNCHANGED <<res, cache, broker, result, ops>>

\* GetInstance returns the state and the plan.
ObserveInstance ==
    /\ Observing
    /\ broker[cache.id].state \notin {"absent", "deleted"}
    /\ Take("getParameters", cache,
            [state |-> broker[cache.id].state, config |-> broker[cache.id].config])
    /\ UNCHANGED <<res, cache, broker, result, ops>>

\* Mutant: every error of GetInstance means that there is no instance.
ObserveFailsAsGone ==
    /\ Intervene
    /\ Reconciling
    /\ Take(Decide(cache, None), cache, None)
    /\ UNCHANGED <<res, cache, broker, result>>

\* A call of Connect or Observe fails.
ObserveFails ==
    /\ Intervene
    /\ Reconciling
    /\ Take("writeStatus", Failed(cache), None)
    /\ UNCHANGED <<res, cache, broker, result>>

\* The end of Observe, and where the reconciler goes on from it.
Observed(obj, seen) ==
    LET step == Decide(obj, seen) IN
    Goto(step, IF step = "writeStatus" THEN Succeeded(obj) ELSE obj, seen)

\* GetServiceInstance returns the parameters, and a pending operation is asked for next.
GetParameters ==
    LET i == work.obj.id
        seen == [work.seen EXCEPT !.config.params = broker[i].config.params]
    IN
    /\ work.step = "getParameters"
    /\ \/ /\ broker[i].state \in {"absent", "deleted"}
          /\ Observed(work.obj, None)
       \/ /\ broker[i].state \notin {"absent", "deleted"}
          /\ IF work.obj.op = None
             THEN Observed(SetConditions(work.obj, seen), seen)
             ELSE Goto("getOperation", work.obj, seen)
    /\ UNCHANGED <<res, cache, broker, result, ops>>

\* What the broker says of an operation: GetOperation of the client.
LastOperation(k) == result[k]

\* processPendingOperation: a failed operation is forgotten, with an error.
GetOperation ==
    LET done == [work.obj EXCEPT !.op = None] IN
    /\ work.step = "getOperation"
    /\ \/ /\ LastOperation(work.obj.op) = "succeeded"
          /\ Observed(SetConditions(done, work.seen), work.seen)
       \/ /\ LastOperation(work.obj.op) = "failed"
          /\ Goto("writeStatus", Failed(done), None)
       \/ /\ LastOperation(work.obj.op) = "processing"
          /\ Observed(SetConditions(work.obj, work.seen), work.seen)
    /\ UNCHANGED <<res, cache, broker, result, ops>>

-----------------------------------------------------------------------------
(* Create, Update and Delete, and what the managed reconciler writes.      *)

\* The reconciler gives up; it will be called again.
Stop == work' = Idle /\ fresh' = fresh \ {"work"}

\* A write with a resourceVersion: the copy in work becomes the stored object, status
\* included, and the reconcile goes on; a conflict ends it.
Save(new, step) ==
    \/ /\ "work" \in fresh
       /\ WriteRes(new, {"work"})
       /\ work' = [work EXCEPT !.step = step, !.obj = new]
    \/ /\ "work" \notin fresh
       /\ Stop
       /\ UNCHANGED res

AddFinalizer ==
    /\ work.step = "addFinalizer"
    /\ Save([res EXCEPT !.finalizer = TRUE], "markPending")
    /\ UNCHANGED <<cache, broker, result, ops>>

MarkPending ==
    /\ work.step = "markPending"
    /\ Save([res EXCEPT !.create = "pending"], "provision")
    /\ UNCHANGED <<cache, broker, result, ops>>

\* logAsyncAction.
LogAsyncAction(obj, k) == IF k = None THEN obj ELSE [obj EXCEPT !.op = k]

\* The answer to an accepted call is received, or lost with the operation's key.
Received(k, step, ok, lost) ==
    \/ /\ Goto(step, LogAsyncAction(ok, k), work.seen)
       /\ UNCHANGED ops
    \/ /\ Intervene
       /\ Goto(step, lost, work.seen)

\* Create: ProvisionInstance needs an ID.  Its outcome is kept in the copy's annotation.
Provision ==
    LET ok == [work.obj EXCEPT !.create = "succeeded"]
        failed == [work.obj EXCEPT !.create = "failed"]
    IN
    /\ work.step = "provision"
    /\ IF work.obj.id = None \/ ~InCatalog(work.obj.desired.plan)
       THEN Goto("annotate", failed, None) /\ UNCHANGED <<broker, result, ops>>
       ELSE \E k \in Keys \cup {None} :
               /\ broker[work.obj.id].state = "absent"
               /\ Run(work.obj.id, "deploying", work.obj.desired, k)
               /\ Received(k, "annotate", ok, failed)
    /\ UNCHANGED <<res, cache>>

\* The annotation is written to whatever is stored, again after a conflict; nothing else
\* of the copy survives, so the key of the operation is lost.
Annotate ==
    LET new == [res EXCEPT !.create = work.obj.create] IN
    /\ work.step = "annotate"
    /\ WriteRes(new, {"work"})
    /\ work' = [step |-> "writeStatus", seen |-> None,
                obj  |-> IF new.create = "failed" THEN Failed(new) ELSE Succeeded(new)]
    /\ UNCHANGED <<cache, broker, result, ops>>

\* ParameterUpdateForBroker: the parameters whose values differ.
ParameterUpdateForBroker(observed, expected) ==
    [n \in {m \in Names : observed[m] # expected[m]} |-> expected[n]]

updateParameters(obj, seen) == ParameterUpdateForBroker(seen.config.params, obj.desired.params)

\* What the broker makes of it (external).
Apply(config, plan, update) ==
    [plan   |-> plan,
     params |-> [n \in Names |-> IF n \in DOMAIN update THEN update[n] ELSE config.params[n]]]

\* The broker refuses a call (external): 422 for an instance it cannot change now, 404 or
\* 410 for one that is gone.
Refusals(i) ==
    CASE broker[i].state = "deleted" -> {410}
      [] broker[i].state = "absent" -> {404, 410}
      [] broker[i].state \notin {"deleted", "absent"} -> {422}

\* The client's reading of a status code.
UpdateInstance(code) == IF code \in {200, 202} THEN "ok" ELSE "error"
DeprovisionInstance(code) == IF code \in {200, 202, 410} THEN "ok" ELSE "error"
IsNotFound(code) == code = 404

\* The status that a call leaves behind.
Outcome(answer, obj) == IF answer = "ok" THEN Succeeded(obj) ELSE Failed(obj)

\* Update: the broker refuses an instance with a running operation.
Update ==
    LET i == work.obj.id
        update == updateParameters(work.obj, work.seen)
    IN
    /\ work.step = "update"
    /\ \/ /\ broker[i].state = "provisioned"
          /\ \E k \in Keys \cup {None} :
                /\ Run(i, "updating", Apply(broker[i].config, work.obj.desired.plan, update), k)
                /\ Received(k, "writeStatus", Succeeded(work.obj), Failed(work.obj))
       \/ /\ broker[i].state # "provisioned"
          /\ \E code \in Refusals(i) :
                Goto("writeStatus", Outcome(UpdateInstance(code), work.obj), None)
          /\ UNCHANGED <<broker, result, ops>>
    /\ UNCHANGED <<res, cache>>

\* Delete: a running operation is refused; for an instance that is gone the broker
\* answers 410, a success, or 404, where the nil response is dereferenced and the panic
\* ends the reconcile.
Deprovision ==
    LET i == work.obj.id
        deleting == [work.obj EXCEPT !.ready = FALSE]
    IN
    /\ work.step = "deprovision"
    /\ \/ /\ broker[i].state \in {"provisioned", "failed"}
          /\ \E k \in Keys \cup {None} :
                /\ Run(i, "deleting", broker[i].config, k)
                /\ Received(k, "writeStatus", Succeeded(deleting), Failed(deleting))
       \/ /\ broker[i].state \notin {"provisioned", "failed"}
          /\ \E code \in Refusals(i) :
                IF IsNotFound(code) THEN Stop
                ELSE Goto("writeStatus", Outcome(DeprovisionInstance(code), deleting), None)
          /\ UNCHANGED <<broker, result, ops>>
    /\ UNCHANGED <<res, cache>>

\* A later call of Observe, or one of Create, Update or Delete, fails without an effect.
CallFails ==
    /\ Intervene
    /\ \/ /\ work.step = "provision"
          /\ Goto("annotate", [work.obj EXCEPT !.create = "failed"], None)
       \/ /\ work.step \in {"getParameters", "getOperation", "update"}
          /\ Goto("writeStatus", Failed(work.obj), None)
       \/ /\ work.step = "deprovision"
          /\ Goto("writeStatus", Failed([work.obj EXCEPT !.ready = FALSE]), None)
    /\ UNCHANGED <<res, cache, broker, result>>

RemoveFinalizer ==
    /\ work.step = "removeFinalizer"
    /\ res' = IF "work" \in fresh THEN None ELSE res
    /\ fresh' = IF "work" \in fresh THEN {} ELSE fresh
    /\ work' = Idle
    /\ UNCHANGED <<cache, broker, result, ops>>

\* Mutant: the status is written whatever the resourceVersion.
WriteStatusForced ==
    /\ work.step = "writeStatus"
    /\ work' = Idle
    /\ res' = work.obj
    /\ fresh' = IF work.obj = res THEN fresh \ {"work"} ELSE {}
    /\ UNCHANGED <<cache, broker, result, ops>>

\* Status().Update: only with the current resourceVersion.
WriteStatus ==
    /\ work.step = "writeStatus"
    /\ work' = Idle
    /\ IF "work" \in fresh
       THEN /\ res' = work.obj
            /\ fresh' = IF work.obj = res THEN fresh \ {"work"} ELSE {}
       ELSE UNCHANGED <<res, fresh>>
    /\ UNCHANGED <<cache, broker, result, ops>>

\* The provider dies, or gives up writing the annotation.
Crash ==
    /\ Crashes
    /\ Intervene
    /\ work.step # "idle"
    /\ Stop
    /\ UNCHANGED <<res, cache, broker, result>>

-----------------------------------------------------------------------------

Init ==
    /\ \E config \in Wanted :
          res = [desired |-> config, deleting |-> FALSE, finalizer |-> FALSE, create |-> "none",
                 id |-> None, op |-> None, ready |-> FALSE, synced |-> FALSE]
    /\ cache = None
    /\ fresh = {}
    /\ work = Idle
    /\ broker = [i \in IDs |-> [state |-> "absent", config |-> res.desired,
                                target |-> res.desired, op |-> None]]
    /\ result = [k \in Keys |-> "succeeded"]
    /\ ops = 0

Environment ==
    \/ \E config \in Wanted : UserUpdate(config)
    \/ UserDelete \/ ClearPending
    \/ \E i \in IDs : Fail(i) \/ Forget(i)
    \/ ObserveFails \/ CallFails \/ Crash

Observe ==
    ObserveNoID \/ ObserveUnknownPlan \/ ObserveGone \/ ObserveInstance \/ GetParameters
    \/ GetOperation

Reconcile ==
    Observe \/ AddFinalizer \/ MarkPending \/ Provision \/ Annotate \/ Update \/ Deprovision
    \/ RemoveFinalizer \/ WriteStatus

Next == Environment \/ Reconcile \/ Deliver \/ \E i \in IDs : Complete(i)

Spec == Init /\ [][Next]_vars

\* Events and the poll interval call Reconcile again and again, the cache catches up, and
\* the broker ends the operations it has started.
FairSpec ==
    /\ Spec
    /\ WF_vars(Reconcile)
    /\ WF_vars(Deliver)
    /\ \A i \in IDs : WF_vars(Complete(i))

-----------------------------------------------------------------------------
(* Properties.                                                             *)

\* Every field of the resource, of its copies and of the broker's instances has its type,
\* and a call that needs an observation has one.
TypeOK ==
    /\ res \in Resource \cup {None}
    /\ cache \in Resource \cup {None}
    /\ fresh \subseteq {"cache", "work"}
    /\ work \in [step : Steps, obj : Resource \cup {None},
                 seen : [state : States, config : Config] \cup {None}]
    /\ (work.step = "idle") = (work.obj = None)
    /\ work.step \in {"getParameters", "getOperation", "update", "deprovision"} => work.seen # None
    /\ broker \in [IDs -> Instance]
    /\ result \in [Keys -> {"processing", "succeeded", "failed"}]
    /\ ops \in 0..MaxOps

\* Whatever exists at the broker belongs to a stored resource that names it and whose
\* finalizer keeps it until the instance is gone: no user deletion, stale cache, failing
\* call, lost answer or crash between ID, finalizer, ProvisionInstance and
\* DeprovisionInstance leaves an instance behind.
NoOrphan ==
    \A i \in IDs : broker[i].state \notin {"absent", "deleted"} =>
        res # None /\ res.finalizer /\ res.id = i

\* The ID in the status, once stored, is never replaced, although a reconcile that reads
\* an old copy generates a new one: "each managed resource is associated with only one
\* service instance throughout its lifecycle" (Create).
IDIsStable ==
    [][res # None /\ res' # None /\ res.id # None => res'.id = res.id]_vars

\* The instance could not be deployed; the broker keeps it as it is.
DeployFailed == res.id # None /\ broker[res.id].state = "failed" /\ ~res.deleting

\* A resource that asks for a plan of the catalog is served as it asks, or is gone.
Settled ==
    res # None /\ res.desired.plan \in Catalog /\ res.create # "pending" /\ ~DeployFailed =>
        /\ ~res.deleting /\ res.ready /\ res.synced
        /\ broker[res.id].state = "provisioned"
        /\ broker[res.id].config = res.desired

\* Once nobody intervenes any more the instance gets the configuration its resource asks
\* for, or is deleted with it: no lost operation key, refused call, failed operation,
\* stale parameter difference or conflict stops the loop of Observe and Update.
Settles == <>[]Settled
=============================================================================

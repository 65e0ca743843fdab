----------------------- MODULE ServiceInstanceProofs -----------------------
(***************************************************************************)
(* Proofs about ServiceInstance, for all values of its constants.          *)
(***************************************************************************)
EXTENDS ServiceInstance, TLAPS

-----------------------------------------------------------------------------
(* The inductive invariant.                                                *)

Live(i) == broker[i].state \notin {"absent", "deleted"}

\* Steps that Observe reaches only with an ID.
Identified == {"getParameters", "getOperation", "addFinalizer", "markPending", "provision",
               "update", "deprovision", "removeFinalizer"}

\* A holder of the current version has the stored finalizer and the stored ID, if there
\* is one; a copy with another ID is only on its way to be written.
CopiesAreCurrent ==
    /\ "cache" \in fresh => cache = res
    /\ "work" \in fresh =>
          /\ work.step # "idle" /\ res # None
          /\ work.obj.finalizer = res.finalizer
          /\ res.id # None \/ work.step \in Identified => work.obj.id = res.id
    /\ work.step \in Identified => work.obj.id \in IDs

\* A creation runs under the finalizer and for the stored ID; it is decided with a
\* finalizer.  While the finalizer is removed there is nothing at the broker.
Protected ==
    /\ work.step = "markPending" => work.obj.finalizer
    /\ work.step \in {"provision", "annotate"} => res # None /\ res.finalizer
    /\ work.step = "provision" => res.id = work.obj.id
    /\ work.step = "removeFinalizer" /\ "work" \in fresh => \A i \in IDs : ~Live(i)

IInv == TypeOK /\ CopiesAreCurrent /\ Protected /\ NoOrphan

-----------------------------------------------------------------------------
(* Facts about the operators.                                              *)

\* Changing single fields of a resource yields a resource.
LEMMA ExceptFacts ==
    ASSUME NEW obj \in Resource, NEW c \in Config, NEW i \in IDs, NEW k \in Keys \cup {None},
           NEW b \in BOOLEAN, NEW o \in {"none", "pending", "failed", "succeeded"}
    PROVE  /\ [obj EXCEPT !.desired = c] \in Resource
           /\ [obj EXCEPT !.deleting = b] \in Resource
           /\ [obj EXCEPT !.finalizer = b] \in Resource
           /\ [obj EXCEPT !.create = o] \in Resource
           /\ [obj EXCEPT !.id = i] \in Resource
           /\ [obj EXCEPT !.op = k] \in Resource
           /\ [obj EXCEPT !.ready = b] \in Resource
           /\ [obj EXCEPT !.synced = b] \in Resource
BY DEF Resource

\* The conditions leave ID, finalizer and deletion alone.
LEMMA ConditionFacts ==
    ASSUME NEW obj \in Resource, NEW seen \in [state : States, config : Config],
           NEW k \in Keys \cup {None}
    PROVE  /\ Failed(obj) \in Resource /\ Succeeded(obj) \in Resource
           /\ SetConditions(obj, seen) \in Resource
           /\ LogAsyncAction(obj, k) \in Resource
           /\ \A o \in {Failed(obj), Succeeded(obj), SetConditions(obj, seen),
                        LogAsyncAction(obj, k)} :
                 o.id = obj.id /\ o.finalizer = obj.finalizer /\ o.deleting = obj.deleting
BY DEF Failed, Succeeded, SetConditions, LogAsyncAction, Resource

\* Where the reconciler goes on, by what was observed.
LEMMA DecideFacts ==
    ASSUME NEW obj \in Resource, NEW seen \in [state : States, config : Config] \cup {None}
    PROVE  /\ Decide(obj, seen) \in {"deprovision", "removeFinalizer", "addFinalizer",
                                     "markPending", "update", "writeStatus"}
           /\ Decide(obj, seen) \in {"deprovision", "update", "writeStatus"} => seen # None
           /\ Decide(obj, seen) = "markPending" => obj.finalizer
           /\ Decide(obj, seen) = "removeFinalizer" => seen = None
BY DEF Decide, Resource

\* The broker's answer changes the one instance, to a state that the operation allows.
LEMMA RunFacts ==
    ASSUME TypeOK, NEW i \in IDs, NEW s \in Busy, NEW t \in Config, NEW k \in Keys \cup {None},
           Run(i, s, t, k)
    PROVE  /\ broker' \in [IDs -> Instance]
           /\ result' \in [Keys -> {"processing", "succeeded", "failed"}]
           /\ \A j \in IDs : j # i => broker'[j] = broker[j]
<1>1. CASE k = None
  BY <1>1, ServiceInstanceAssumption DEF Run, TypeOK, Instance, Final, States, Busy, FreeKeys
<1>2. CASE k \in Keys
  <2>1. broker[i].config \in Config
    BY DEF TypeOK, Instance
  <2>. QED  BY <1>2, <2>1, ServiceInstanceAssumption DEF Run, TypeOK, Instance, States, Busy, FreeKeys
<1>. QED  BY <1>1, <1>2

-----------------------------------------------------------------------------
(* Every step preserves the inductive invariant.                           *)

\* Users, the broker, the cache.
LEMMA ExternalStep ==
    ASSUME IInv,
           \/ \E config \in Wanted : UserUpdate(config)
           \/ UserDelete \/ ClearPending \/ Deliver
           \/ \E i \in IDs : Fail(i) \/ Forget(i) \/ Complete(i)
    PROVE  IInv'
<1> USE ServiceInstanceAssumption
        DEF IInv, TypeOK, CopiesAreCurrent, Protected, NoOrphan, Live, Identified
<1>1. ASSUME NEW config \in Wanted, UserUpdate(config) PROVE IInv'
    BY <1>1 DEF UserUpdate, Intervene, WriteRes, Resource
<1>2. CASE UserDelete
  <2>1. res \in Resource /\ ~res.deleting /\ ops' \in 0..MaxOps
    BY <1>2 DEF UserDelete, Intervene
  <2>2. CASE res.finalizer
    <3> DEFINE new == [res EXCEPT !.deleting = TRUE]
    <3>1. new \in Resource /\ new # res /\ new.id = res.id /\ new.finalizer
      BY <2>1, <2>2 DEF Resource
    <3> HIDE DEF new
    <3>2. res' = new /\ fresh' = {}
      BY <1>2, <2>2, <3>1 DEF UserDelete, WriteRes, new
    <3>. QED  BY <1>2, <2>1, <2>2, <3>1, <3>2 DEF UserDelete
  <2>3. CASE ~res.finalizer
    BY <1>2, <2>1, <2>3 DEF UserDelete, WriteRes
  <2>. QED  BY <2>2, <2>3
<1>3. CASE ClearPending
    BY <1>3 DEF ClearPending, WriteRes, Resource
<1>4. CASE Deliver
    BY <1>4 DEF Deliver
<1>5. ASSUME NEW i \in IDs, Fail(i) PROVE IInv'
  <2> DEFINE s == IF broker[i].state = "updating" THEN "provisioned" ELSE "failed"
             new == [state |-> s, config |-> broker[i].config, target |-> broker[i].config,
                     op |-> None]
  <2>0. new \in Instance
    BY DEF Instance, States
  <2> HIDE DEF new
  <2>1. /\ broker' \in [IDs -> Instance] /\ ops' \in 0..MaxOps
        /\ result' \in [Keys -> {"processing", "succeeded", "failed"}]
    <3>1. broker' = [broker EXCEPT ![i] = new]
      BY <1>5 DEF Fail, new
    <3>2. result' = [result EXCEPT ![broker[i].op] = "failed"] /\ ops' \in 0..MaxOps
      BY <1>5 DEF Fail, Intervene
    <3>. QED  BY <2>0, <3>1, <3>2
  <2>2. Live(i) /\ \A j \in IDs : j # i => broker'[j] = broker[j]
    BY <1>5 DEF Fail, Busy
  <2>. QED  BY <1>5, <2>1, <2>2 DEF Fail
<1>6. ASSUME NEW i \in IDs, Forget(i) PROVE IInv'
    BY <1>6 DEF Forget, Instance, States
<1>7. ASSUME NEW i \in IDs, Complete(i) PROVE IInv'
  <2>1. /\ broker' \in [IDs -> Instance]
        /\ result' \in [Keys -> {"processing", "succeeded", "failed"}]
    BY <1>7 DEF Complete, Instance, States, Final
  <2>2. Live(i) /\ \A j \in IDs : j # i => broker'[j] = broker[j]
    BY <1>7 DEF Complete, Busy
  <2>. QED  BY <1>7, <2>1, <2>2 DEF Complete
<1>. QED  BY <1>1, <1>2, <1>3, <1>4, <1>5, <1>6, <1>7

\* Observe reads the cached resource.
LEMMA ObserveStep ==
    ASSUME IInv,
           ObserveNoID \/ ObserveUnknownPlan \/ ObserveGone \/ ObserveInstance \/ ObserveFails
    PROVE  IInv'
<1> USE ServiceInstanceAssumption
        DEF IInv, TypeOK, CopiesAreCurrent, Protected, NoOrphan, Live, Identified, Take,
            Reconciling, Steps
<1>1. CASE ObserveNoID
  <2>1. PICK i \in IDs : Take("writeStatus", WithUID(cache, i), None)
    BY <1>1 DEF ObserveNoID
  <2>2. cache \in Resource /\ cache.id = None
    BY <1>1 DEF ObserveNoID
  <2> DEFINE obj == WithUID(cache, i)
  <2>3. obj \in Resource /\ obj.finalizer = cache.finalizer
    BY <2>2 DEF WithUID, Failed, Resource
  <2> HIDE DEF obj
  <2>4. work' = [step |-> "writeStatus", obj |-> obj, seen |-> None]
    BY <2>1 DEF obj
  <2>. QED  BY <1>1, <2>1, <2>2, <2>3, <2>4 DEF ObserveNoID
<1>2. CASE ObserveUnknownPlan \/ ObserveFails
  <2>1. cache \in Resource
    BY <1>2 DEF ObserveUnknownPlan, ObserveFails
  <2>2. Failed(cache) \in Resource /\ Failed(cache).finalizer = cache.finalizer
          /\ Failed(cache).id = cache.id
    BY <2>1 DEF Failed, Resource
  <2>3. work' = [step |-> "writeStatus", obj |-> Failed(cache), seen |-> None]
    BY <1>2 DEF ObserveUnknownPlan, ObserveFails
  <2>4. ops' \in 0..MaxOps
    BY <1>2 DEF ObserveUnknownPlan, ObserveFails, Intervene
  <2>5. /\ UNCHANGED <<res, cache, broker, result>>
        /\ work.step = "idle"
        /\ fresh' = IF "cache" \in fresh THEN fresh \cup {"work"} ELSE fresh \ {"work"}
    BY <1>2 DEF ObserveUnknownPlan, ObserveFails
  <2>. QED  BY <2>1, <2>2, <2>3, <2>4, <2>5
<1>3. CASE ObserveGone
  <2>1. cache \in Resource /\ cache.id \in IDs
    BY <1>3 DEF ObserveGone, Observing, Resource
  <2> DEFINE step == Decide(cache, None)
  <2>2. /\ step \in {"removeFinalizer", "addFinalizer", "markPending"}
        /\ step = "markPending" => cache.finalizer
    BY <2>1, DecideFacts
  <2> HIDE DEF step
  <2>3. work' = [step |-> step, obj |-> cache, seen |-> None]
    BY <1>3 DEF ObserveGone, step
  <2>. QED  BY <1>3, <2>1, <2>2, <2>3 DEF ObserveGone, Observing
<1>4. CASE ObserveInstance
  <2>1. cache \in Resource /\ cache.id \in IDs
    BY <1>4 DEF ObserveInstance, Observing, Resource
  <2>2. broker[cache.id].state \in States /\ broker[cache.id].config \in Config
    BY <2>1 DEF Instance
  <2>. QED  BY <1>4, <2>1, <2>2 DEF ObserveInstance, Observing
<1>. QED  BY <1>1, <1>2, <1>3, <1>4

\* The end of Observe: where it goes from a copy with the same ID, finalizer and deletion.
LEMMA ObservedStep ==
    ASSUME IInv, work.step \in {"getParameters", "getOperation"},
           NEW obj \in Resource, NEW seen \in [state : States, config : Config] \cup {None},
           obj.id = work.obj.id, obj.finalizer = work.obj.finalizer,
           seen = None => broker[work.obj.id].state \in {"absent", "deleted"},
           Observed(obj, seen), UNCHANGED <<res, cache, broker, result, ops>>
    PROVE  IInv'
<1> USE ServiceInstanceAssumption
<1> DEFINE step == Decide(obj, seen)
           next == IF step = "writeStatus" THEN Succeeded(obj) ELSE obj
<1>1. next \in Resource /\ next.id = obj.id /\ next.finalizer = obj.finalizer
    BY DEF Succeeded, Resource
<1>2. /\ step \in {"deprovision", "removeFinalizer", "addFinalizer", "markPending", "update",
                   "writeStatus"}
      /\ step \in {"deprovision", "update"} => seen # None
      /\ step = "markPending" => obj.finalizer
      /\ step = "removeFinalizer" => seen = None
    BY DecideFacts
<1>3. work' = [step |-> step, obj |-> next, seen |-> seen] /\ fresh' = fresh
    BY DEF Observed, Goto
<1> HIDE DEF step, next
<1>. QED  BY <1>1, <1>2, <1>3
           DEF IInv, TypeOK, CopiesAreCurrent, Protected, NoOrphan, Live, Identified, Steps

LEMMA GetStep ==
    ASSUME IInv, GetParameters \/ GetOperation
    PROVE  IInv'
<1> USE ServiceInstanceAssumption
<1>1. work.obj \in Resource /\ work.obj.id \in IDs
        /\ work.seen \in [state : States, config : Config]
    BY DEF IInv, TypeOK, CopiesAreCurrent, Identified, GetParameters, GetOperation, LastOperation
<1>2. CASE GetParameters
  <2> DEFINE i == work.obj.id
             seen == [work.seen EXCEPT !.config.params = broker[i].config.params]
  <2>1. seen \in [state : States, config : Config]
    BY <1>1 DEF IInv, TypeOK, Instance, Config
  <2>2. CASE broker[i].state \in {"absent", "deleted"} /\ Observed(work.obj, None)
    BY <1>1, <1>2, <2>2, ObservedStep DEF GetParameters
  <2>3. CASE Observed(SetConditions(work.obj, seen), seen)
    <3>1. seen # None
      BY <2>1
    <3>2. SetConditions(work.obj, seen) \in Resource
            /\ SetConditions(work.obj, seen).id = work.obj.id
            /\ SetConditions(work.obj, seen).finalizer = work.obj.finalizer
      BY <1>1 DEF SetConditions, Resource
    <3> HIDE DEF seen
    <3>. QED  BY <1>2, <2>1, <2>3, <3>1, <3>2, ObservedStep DEF GetParameters
  <2>4. CASE Goto("getOperation", work.obj, seen)
    BY <1>1, <1>2, <2>1, <2>4
       DEF GetParameters, Goto, IInv, TypeOK, CopiesAreCurrent, Protected, NoOrphan, Live,
           Identified, Steps
  <2>. QED  BY <1>2, <2>2, <2>3, <2>4 DEF GetParameters
<1>3. CASE GetOperation
  <2> DEFINE done == [work.obj EXCEPT !.op = None]
  <2>1. /\ done \in Resource /\ done.id = work.obj.id /\ done.finalizer = work.obj.finalizer
    BY <1>1 DEF Resource
  <2> HIDE DEF done
  <2>2. CASE Observed(SetConditions(done, work.seen), work.seen)
    <3>1. SetConditions(done, work.seen) \in Resource
            /\ SetConditions(done, work.seen).id = done.id
            /\ SetConditions(done, work.seen).finalizer = done.finalizer
      BY <2>1 DEF SetConditions, Resource
    <3>. QED  BY <1>1, <1>3, <2>1, <2>2, <3>1, ObservedStep DEF GetOperation, LastOperation
  <2>3. CASE Goto("writeStatus", Failed(done), None)
    <3>1. Failed(done) \in Resource /\ Failed(done).id = done.id
            /\ Failed(done).finalizer = done.finalizer
      BY <2>1 DEF Failed, Resource
    <3>. QED  BY <1>1, <1>3, <2>1, <2>3, <3>1
           DEF GetOperation, LastOperation, Goto, IInv, TypeOK, CopiesAreCurrent, Protected, NoOrphan, Live,
               Identified, Steps
  <2>4. CASE Observed(SetConditions(work.obj, work.seen), work.seen)
    <3>1. SetConditions(work.obj, work.seen) \in Resource
            /\ SetConditions(work.obj, work.seen).id = work.obj.id
            /\ SetConditions(work.obj, work.seen).finalizer = work.obj.finalizer
      BY <1>1 DEF SetConditions, Resource
    <3>. QED  BY <1>1, <1>3, <2>4, <3>1, ObservedStep DEF GetOperation, LastOperation
  <2>. QED  BY <1>3, <2>2, <2>3, <2>4 DEF GetOperation, LastOperation, done
<1>. QED  BY <1>2, <1>3

\* A broker call that accepts an operation on the instance the reconcile is about keeps
\* the invariant when the copy it goes on with is the same but for outcome and status.
LEMMA AcceptedStep ==
    ASSUME IInv, work.step \in {"provision", "update", "deprovision"},
           NEW s \in Busy, NEW t \in Config, NEW k \in Keys \cup {None},
           Run(work.obj.id, s, t, k),
           work.step = "provision" \/ Live(work.obj.id),
           NEW step \in {"annotate", "writeStatus"}, (step = "annotate") = (work.step = "provision"),
           NEW ok \in Resource, NEW lost \in Resource,
           ok.id = work.obj.id, ok.finalizer = work.obj.finalizer,
           lost.id = work.obj.id, lost.finalizer = work.obj.finalizer,
           Received(k, step, ok, lost), UNCHANGED <<res, cache>>
    PROVE  IInv'
<1> USE ServiceInstanceAssumption
<1> DEFINE i == work.obj.id
<1>1. i \in IDs /\ TypeOK
    BY DEF IInv, CopiesAreCurrent, Identified
<1>2. /\ broker' \in [IDs -> Instance]
      /\ result' \in [Keys -> {"processing", "succeeded", "failed"}]
      /\ \A j \in IDs : j # i => broker'[j] = broker[j]
    BY <1>1, RunFacts
<1>3. PICK obj \in Resource :
         /\ obj.id = i /\ obj.finalizer = work.obj.finalizer
         /\ work' = [step |-> step, obj |-> obj, seen |-> work.seen] /\ fresh' = fresh
         /\ ops' \in 0..MaxOps
  <2>1. LogAsyncAction(ok, k) \in Resource /\ LogAsyncAction(ok, k).id = i
          /\ LogAsyncAction(ok, k).finalizer = work.obj.finalizer
    BY DEF LogAsyncAction, Resource
  <2>. QED  BY <1>1, <2>1 DEF Received, Goto, Intervene, TypeOK
<1>4. NoOrphan'
  <2>1. res # None /\ res.finalizer /\ res.id = i
    BY <1>1 DEF IInv, Protected, NoOrphan, Live
  <2>. QED  BY <1>1, <1>2, <2>1 DEF IInv, NoOrphan
<1>5. TypeOK'
    BY <1>1, <1>2, <1>3 DEF IInv, TypeOK, Steps
<1>. QED  BY <1>1, <1>3, <1>4, <1>5
           DEF IInv, CopiesAreCurrent, Protected, Identified

\* Create, Update and Delete.
LEMMA CallStep ==
    ASSUME IInv, Provision \/ Update \/ Deprovision
    PROVE  IInv'
<1> USE ServiceInstanceAssumption
<1>1. work.obj \in Resource /\ work.obj.id \in IDs
    BY DEF IInv, TypeOK, CopiesAreCurrent, Identified, Provision, Update, Deprovision
<1>2. ASSUME NEW obj \in Resource, NEW step \in {"annotate", "writeStatus"},
             obj.id = work.obj.id, obj.finalizer = work.obj.finalizer,
             work.step \in {"provision", "update", "deprovision"},
             step = "annotate" => work.step = "provision",
             Goto(step, obj, None), UNCHANGED <<res, cache, broker, result, ops>>
      PROVE  IInv'
    BY <1>1, <1>2 DEF Goto, IInv, TypeOK, CopiesAreCurrent, Protected, NoOrphan, Live,
                      Identified, Steps
<1>3. CASE Provision
  <2> DEFINE ok == [work.obj EXCEPT !.create = "succeeded"]
             failed == [work.obj EXCEPT !.create = "failed"]
  <2>1. /\ ok \in Resource /\ ok.id = work.obj.id /\ ok.finalizer = work.obj.finalizer
        /\ failed \in Resource /\ failed.id = work.obj.id
        /\ failed.finalizer = work.obj.finalizer
    BY <1>1 DEF Resource
  <2>2. work.obj.desired \in Config
    BY <1>1 DEF Resource
  <2> HIDE DEF ok, failed
  <2>3. CASE Goto("annotate", failed, None) /\ UNCHANGED <<broker, result, ops>>
    BY <1>2, <1>3, <2>1, <2>3 DEF Provision
  <2>4. CASE \E k \in Keys \cup {None} :
               /\ Run(work.obj.id, "deploying", work.obj.desired, k)
               /\ Received(k, "annotate", ok, failed)
    BY <1>3, <2>1, <2>2, <2>4, AcceptedStep DEF Provision, Busy
  <2>. QED  BY <1>3, <2>3, <2>4 DEF Provision, ok, failed
<1>4. CASE Update
  <2> DEFINE i == work.obj.id
             update == updateParameters(work.obj, work.seen)
             target == Apply(broker[i].config, work.obj.desired.plan, update)
  <2>1. /\ Succeeded(work.obj) \in Resource /\ Succeeded(work.obj).id = work.obj.id
        /\ Succeeded(work.obj).finalizer = work.obj.finalizer
        /\ Failed(work.obj) \in Resource /\ Failed(work.obj).id = work.obj.id
        /\ Failed(work.obj).finalizer = work.obj.finalizer
    BY <1>1 DEF Resource, Succeeded, Failed
  <2>2. target \in Config
    <3>1. broker[i].config \in Config /\ work.obj.desired \in Config
      BY <1>1 DEF IInv, TypeOK, Instance, Resource
    <3>2. \A n \in Names : n \in DOMAIN update => update[n] \in Values
      BY <3>1 DEF updateParameters, ParameterUpdateForBroker, Config
    <3>. QED  BY <3>1, <3>2 DEF Apply, Config
  <2> HIDE DEF target
  <2>3. ASSUME broker[i].state = "provisioned", NEW k \in Keys \cup {None},
               Run(i, "updating", target, k),
               Received(k, "writeStatus", Succeeded(work.obj), Failed(work.obj))
        PROVE  IInv'
    BY <1>4, <2>1, <2>2, <2>3, AcceptedStep DEF Update, Busy, Live
  <2>4. ASSUME NEW code \in Refusals(i),
               Goto("writeStatus", Outcome(UpdateInstance(code), work.obj), None),
               UNCHANGED <<broker, result, ops>>
        PROVE  IInv'
    BY <1>2, <1>4, <2>1, <2>4 DEF Update, Outcome
  <2>. QED  BY <1>4, <2>3, <2>4 DEF Update, target
<1>5. CASE Deprovision
  <2> DEFINE i == work.obj.id
             deleting == [work.obj EXCEPT !.ready = FALSE]
  <2>1. deleting \in Resource /\ deleting.id = i /\ deleting.finalizer = work.obj.finalizer
    BY <1>1 DEF Resource
  <2> HIDE DEF deleting
  <2>2. /\ Succeeded(deleting) \in Resource /\ Succeeded(deleting).id = i
        /\ Succeeded(deleting).finalizer = work.obj.finalizer
        /\ Failed(deleting) \in Resource /\ Failed(deleting).id = i
        /\ Failed(deleting).finalizer = work.obj.finalizer
    BY <2>1 DEF Resource, Succeeded, Failed
  <2>3. broker[i].config \in Config
    BY <1>1 DEF IInv, TypeOK, Instance
  <2>4. ASSUME broker[i].state \in {"provisioned", "failed"}, NEW k \in Keys \cup {None},
               Run(i, "deleting", broker[i].config, k),
               Received(k, "writeStatus", Succeeded(deleting), Failed(deleting))
        PROVE  IInv'
    BY <1>5, <2>2, <2>3, <2>4, AcceptedStep DEF Deprovision, Busy, Live
  <2>5. ASSUME NEW code \in Refusals(i),
               Goto("writeStatus", Outcome(DeprovisionInstance(code), deleting), None),
               UNCHANGED <<broker, result, ops>>
        PROVE  IInv'
    BY <1>2, <1>5, <2>2, <2>5 DEF Deprovision, Outcome
  <2>6. CASE Stop /\ UNCHANGED <<broker, result, ops>>
    BY <1>5, <2>6 DEF Deprovision, Stop, Idle, IInv, TypeOK, CopiesAreCurrent, Protected,
                      NoOrphan, Live, Identified, Steps
  <2>. QED  BY <1>5, <2>4, <2>5, <2>6 DEF Deprovision, deleting
<1>. QED  BY <1>3, <1>4, <1>5

\* The writes of the reconciler, failing calls and crashes.
LEMMA ReconcilerStep ==
    ASSUME IInv,
           \/ AddFinalizer \/ MarkPending \/ Annotate \/ RemoveFinalizer \/ WriteStatus
           \/ CallFails \/ Crash
    PROVE  IInv'
<1> USE ServiceInstanceAssumption
        DEF IInv, TypeOK, CopiesAreCurrent, Protected, NoOrphan, Live, Identified, Steps, Idle
<1>1. CASE AddFinalizer
  <2> DEFINE new == [res EXCEPT !.finalizer = TRUE]
  <2>1. "work" \in fresh => new \in Resource /\ new.finalizer /\ new.id = res.id
    BY DEF Resource
  <2> HIDE DEF new
  <2>2. Save(new, "markPending") /\ work.step = "addFinalizer"
          /\ UNCHANGED <<cache, broker, result, ops>>
    BY <1>1 DEF AddFinalizer, new
  <2>3. CASE "work" \in fresh
    <3>1. res' = new /\ fresh' \in {fresh, {"work"}} /\ (fresh' = fresh => new = res \/ fresh = {"work"})
      BY <2>2, <2>3 DEF Save, WriteRes
    <3>2. work' = [work EXCEPT !.step = "markPending", !.obj = new]
      BY <2>2, <2>3 DEF Save
    <3>. QED  BY <2>1, <2>2, <2>3, <3>1, <3>2
  <2>4. CASE "work" \notin fresh
    BY <2>2, <2>4 DEF Save, Stop
  <2>. QED  BY <2>3, <2>4
<1>2. CASE MarkPending
  <2> DEFINE new == [res EXCEPT !.create = "pending"]
  <2>1. "work" \in fresh => new \in Resource /\ new.finalizer = res.finalizer /\ new.id = res.id
    BY DEF Resource
  <2> HIDE DEF new
  <2>2. Save(new, "provision") /\ work.step = "markPending"
          /\ UNCHANGED <<cache, broker, result, ops>>
    BY <1>2 DEF MarkPending, new
  <2>3. CASE "work" \in fresh
    <3>1. res' = new /\ fresh' \in {fresh, {"work"}} /\ (fresh' = fresh => new = res \/ fresh = {"work"})
      BY <2>2, <2>3 DEF Save, WriteRes
    <3>2. work' = [work EXCEPT !.step = "provision", !.obj = new]
      BY <2>2, <2>3 DEF Save
    <3>. QED  BY <2>1, <2>2, <2>3, <3>1, <3>2
  <2>4. CASE "work" \notin fresh
    BY <2>2, <2>4 DEF Save, Stop
  <2>. QED  BY <2>3, <2>4
<1>3. CASE Annotate
  <2> DEFINE new == [res EXCEPT !.create = work.obj.create]
             obj == IF new.create = "failed" THEN Failed(new) ELSE Succeeded(new)
  <2>1. new \in Resource /\ new.finalizer /\ new.id = res.id
    BY <1>3 DEF Annotate, Resource
  <2> HIDE DEF new
  <2>2. obj \in Resource /\ obj.finalizer = new.finalizer /\ obj.id = new.id
    BY <2>1 DEF Failed, Succeeded, Resource
  <2> HIDE DEF obj
  <2>3. /\ WriteRes(new, {"work"}) /\ work' = [step |-> "writeStatus", seen |-> None, obj |-> obj]
        /\ UNCHANGED <<cache, broker, result, ops>>
    BY <1>3 DEF Annotate, new, obj
  <2>4. work.step = "annotate" /\ res # None /\ res.finalizer
    BY <1>3 DEF Annotate
  <2>5. CASE new = res
    BY <2>1, <2>2, <2>3, <2>4, <2>5 DEF WriteRes
  <2>6. CASE new # res
    BY <2>1, <2>2, <2>3, <2>4, <2>6 DEF WriteRes
  <2>. QED  BY <2>5, <2>6
<1>4. CASE RemoveFinalizer
    BY <1>4 DEF RemoveFinalizer
<1>5. CASE WriteStatus
  <2>1. CASE "work" \in fresh
    <3>1. /\ res' = work.obj /\ work.obj \in Resource /\ work' = Idle
          /\ fresh' = IF work.obj = res THEN fresh \ {"work"} ELSE {}
          /\ UNCHANGED <<cache, broker, result, ops>>
      BY <1>5, <2>1 DEF WriteStatus
    <3>2. res # None /\ work.obj.finalizer = res.finalizer
            /\ (res.id # None => work.obj.id = res.id)
      BY <2>1
    <3>. QED  BY <3>1, <3>2
  <2>2. CASE "work" \notin fresh
    BY <1>5, <2>2 DEF WriteStatus
  <2>. QED  BY <2>1, <2>2
<1>6. CASE CallFails
  <2>1. PICK obj \in Resource, step \in {"annotate", "writeStatus"} :
           /\ obj.id = work.obj.id /\ obj.finalizer = work.obj.finalizer
           /\ step = "annotate" => work.step = "provision"
           /\ Goto(step, obj, None)
    BY <1>6 DEF CallFails, Failed, Resource
  <2>2. work.step \in Identified /\ ops' \in 0..MaxOps /\ UNCHANGED <<res, cache, broker, result>>
    BY <1>6 DEF CallFails, Intervene
  <2>. QED  BY <2>1, <2>2 DEF Goto
<1>7. CASE Crash
    BY <1>7 DEF Crash, Stop, Intervene
<1>. QED  BY <1>1, <1>2, <1>3, <1>4, <1>5, <1>6, <1>7

-----------------------------------------------------------------------------
(* Theorems.                                                               *)

THEOREM Invariance == Spec => []IInv
<1>1. Init => IInv
  <2> SUFFICES ASSUME Init PROVE IInv
    OBVIOUS
  <2>1. res \in Resource /\ res.id = None
    BY ServiceInstanceAssumption DEF Init, Resource
  <2>2. broker \in [IDs -> Instance] /\ \A i \in IDs : broker[i].state = "absent"
    <3>1. res.desired \in Config
      BY <2>1 DEF Resource
    <3>. QED  BY <3>1 DEF Init, Instance, States
  <2>. QED  BY <2>1, <2>2, ServiceInstanceAssumption
         DEF Init, Idle, Steps, IInv, TypeOK, CopiesAreCurrent, Protected, NoOrphan, Live,
             Identified
<1>2. IInv /\ [Next]_vars => IInv'
  <2> SUFFICES ASSUME IInv, [Next]_vars PROVE IInv'
    OBVIOUS
  <2>1. CASE Environment
    BY <2>1, ExternalStep, ObserveStep, ReconcilerStep DEF Environment
  <2>2. CASE Reconcile
    BY <2>2, ObserveStep, GetStep, CallStep, ReconcilerStep DEF Reconcile, Observe
  <2>3. CASE Deliver \/ \E i \in IDs : Complete(i)
    BY <2>3, ExternalStep
  <2>4. CASE UNCHANGED vars
    BY <2>4 DEF vars, IInv, TypeOK, CopiesAreCurrent, Protected, NoOrphan, Live
  <2>. QED  BY <2>1, <2>2, <2>3, <2>4 DEF Next
<1>. QED  BY <1>1, <1>2, PTL DEF Spec

\* The resource, its copies and the broker's instances keep their types.
THEOREM TypeCorrect == Spec => []TypeOK
BY Invariance, PTL DEF IInv

\* ProvisionInstance is called for the stored ID under the finalizer, and the finalizer
\* goes after the instance, whatever is lost, stale or retried in between.
THEOREM NothingIsOrphaned == Spec => []NoOrphan
BY Invariance, PTL DEF IInv

\* A status with a new ID is only written over one without.
THEOREM IDStaysTheSame == Spec => IDIsStable
<1>1. IInv /\ [Next]_vars =>
        [res # None /\ res' # None /\ res.id # None => res'.id = res.id]_vars
  <2> SUFFICES ASSUME IInv, Next, res # None, res' # None, res.id # None
               PROVE  res'.id = res.id
    BY DEF vars
  <2>1. res \in Resource
    BY DEF IInv, TypeOK
  <2> USE DEF WriteRes, Resource
  <2>2. CASE Environment
    BY <2>1, <2>2 DEF Environment, UserUpdate, UserDelete, ClearPending, Fail, Forget,
                      ObserveFails, CallFails, Crash
  <2>3. CASE Observe \/ Deliver \/ \E i \in IDs : Complete(i)
    BY <2>1, <2>3 DEF Observe, ObserveNoID, ObserveUnknownPlan, ObserveGone, ObserveInstance,
                      GetParameters, GetOperation, Deliver, Complete
  <2>4. CASE AddFinalizer \/ MarkPending \/ Annotate
    BY <2>1, <2>4 DEF AddFinalizer, MarkPending, Annotate, Save
  <2>5. CASE Provision \/ Update \/ Deprovision
    BY <2>5 DEF Provision, Update, Deprovision
  <2>6. CASE RemoveFinalizer \/ WriteStatus
    BY <2>6 DEF RemoveFinalizer, WriteStatus, IInv, CopiesAreCurrent
  <2>. QED  BY <2>2, <2>3, <2>4, <2>5, <2>6 DEF Next, Reconcile
<1>. QED  BY <1>1, Invariance, PTL DEF Spec, IDIsStable
=============================================================================

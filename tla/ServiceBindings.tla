--------------------------- MODULE ServiceBindings ---------------------------
(***************************************************************************)
(* The konnector's two controllers of an APIServiceBinding: the one that   *)
(* checks the kubeconfig Secret, and the one, of the cluster it points to, *)
(* that turns the provider's APIServiceExport into a CRD of the consumer   *)
(* cluster.  Both write the status of the binding, whose conditions are    *)
(* one list, by patches that carry the version of their copy; so does the  *)
(* start of the cluster's controllers and, after every heartbeat, the      *)
(* controller of the ClusterBinding, which both leave Ready as it is.      *)
(*                                                                         *)
(* One binding and one resource.  Bindings share the informers, so each of *)
(* the controllers sees the same copy.  A reconcile is split at its calls. *)
(***************************************************************************)
EXTENDS Schemas, Conditions, Functions

CONSTANTS
    Exports,    \* schemas that the provider exports
    Contents,   \* what users put into the kubeconfig Secret
    ControlPlaneMode,
    Nothing,
    MaxSBOps    \* how many times users intervene, calls fail, the konnector restarts or another
                \* writer writes the conditions

\* The types of a binding's conditions but Ready, sorted.
Types == <<"Connected", "Heartbeating", "InformersSynced", "SecretValid">>

Reasons == {"", "KubeconfigSecretNotFound", "KubeconfigSecretInvalid", "APIServiceExportNotFound",
            "CustomResourceDefinitionCreateFailed", "CustomResourceDefinitionUpdateFailed",
            "ForeignCustomResourceDefinition", "ClusterBindingUpdateFailed"}

Status == [Range(Types) \cup {ReadyCondition} -> Condition(Reasons) \cup {NoCondition}]

NoStatus == [type \in Range(Types) \cup {ReadyCondition} |-> NoCondition]

Uids == 1..(MaxSBOps + 1)
Binding == [uid : Uids, status : Status]

\* The Secret is absent, without the key, no kubeconfig, without a current context,
\* without a namespace, or good.
Secret == {"absent", "noKey", "unparsable", "noContext", "noNamespace", "valid"}

Revs == {e.rev : e \in Exports}

\* A CRD of the consumer cluster: owner is the UID in its owner reference, 0 for a CRD
\* that is not the konnector's; stored is status.storedVersions.
ConsumerCRD ==
    [spec : {ServiceExportToCRD(e) : e \in Exports} \cup {Nothing}, owner : Uids \cup {0},
     stored : SUBSET Names]

ASSUME ServiceBindingsAssumption ==
    /\ Exports \subseteq ExportSpec(Revs)
    /\ Nothing \notin Exports \cup ConsumerCRD
    /\ NoCondition \notin Condition(Reasons)
    /\ \A e \in Exports : Nothing # ServiceExportToCRD(e)
    /\ "valid" \in Contents
    /\ Contents \subseteq Secret
    /\ ControlPlaneMode \in BOOLEAN
    /\ MaxSBOps \in Nat

VARIABLES
    export,        \* the APIServiceExport in the provider cluster
    exportCache,
    kubeSecret,    \* the kubeconfig Secret
    secretCache,
    binding,       \* the APIServiceBinding
    bindingCache,
    staleBinding,  \* whether the cached copy is not the current version
    crd,           \* the CRD in the consumer cluster
    crdCache,
    staleCRD,
    secretQueue,   \* whether the binding's key is queued
    bindingQueue,
    secretWork,    \* the workers: the next call, the copies, whether they are current
    bindingWork,
    created,       \* the number of bindings created
    sbOps

world == <<export, kubeSecret, created>>
caches == <<exportCache, secretCache, bindingCache, crdCache>>
sbVars == <<export, exportCache, kubeSecret, secretCache, binding, bindingCache,
            staleBinding, crd, crdCache, staleCRD, secretQueue, bindingQueue, secretWork,
            bindingWork, created, sbOps>>

\* status is what will be committed, Nothing for no change.
IdleWorker == [step |-> "idle", uid |-> 0, old |-> Nothing, current |-> FALSE, status |-> Nothing,
         spec |-> Nothing, currentCRD |-> FALSE, err |-> FALSE]

Work == [step : {"idle", "create", "update", "commit"}, uid : Uids \cup {0},
         old : Status \cup {Nothing}, current : BOOLEAN, status : Status \cup {Nothing},
         spec : {ServiceExportToCRD(e) : e \in Exports} \cup {Nothing}, currentCRD : BOOLEAN,
         err : BOOLEAN]

-----------------------------------------------------------------------------
(* Users, the provider, and the API server (external).                     *)

SBIntervene == sbOps < MaxSBOps /\ sbOps' = sbOps + 1

StoreBinding(new) == binding' = new /\ staleBinding' = TRUE
StoreCRD(new) == crd' = new /\ staleCRD' = TRUE

Outdated(work) == [work EXCEPT !.current = FALSE]

UserBind ==
    /\ SBIntervene
    /\ binding = Nothing
    /\ created' = created + 1
    /\ StoreBinding([uid |-> created + 1,
                     status |-> NoStatus])
    /\ UNCHANGED <<export, kubeSecret, caches, crd, staleCRD, secretQueue, bindingQueue,
                   secretWork, bindingWork>>

\* The CRD stays: its owner reference names a namespaced object, which the garbage
\* collector does not resolve for a cluster-scoped one.
UserUnbind ==
    /\ SBIntervene
    /\ binding # Nothing
    /\ StoreBinding(Nothing)
    /\ secretWork' = Outdated(secretWork)
    /\ bindingWork' = Outdated(bindingWork)
    /\ UNCHANGED <<world, caches, crd, staleCRD, secretQueue, bindingQueue>>

UserSecret(content) ==
    /\ SBIntervene
    /\ kubeSecret # content
    /\ kubeSecret' = content
    /\ UNCHANGED <<export, created, caches, binding, staleBinding, crd, staleCRD, secretQueue,
                   bindingQueue, secretWork, bindingWork>>

\* Somebody deletes the CRD, or creates one of that name.
UserCRD ==
    /\ SBIntervene
    /\ StoreCRD(IF crd = Nothing THEN [spec |-> Nothing, owner |-> 0, stored |-> {}] ELSE Nothing)
    /\ bindingWork' = [bindingWork EXCEPT !.currentCRD = FALSE]
    /\ UNCHANGED <<world, caches, binding, staleBinding, secretQueue, bindingQueue, secretWork>>

\* The backend (module ExportRequests).
ProviderExport(new) ==
    /\ SBIntervene
    /\ export # new
    /\ export' = new
    /\ UNCHANGED <<kubeSecret, created, caches, binding, staleBinding, crd, staleCRD,
                   secretQueue, bindingQueue, secretWork, bindingWork>>

-----------------------------------------------------------------------------
(* Informers and their event handlers.                                     *)

Bound == bindingCache # Nothing

\* enqueueServiceBinding of both controllers.
DeliverBinding ==
    /\ staleBinding
    /\ bindingCache' = binding
    /\ staleBinding' = FALSE
    /\ secretQueue' = TRUE
    /\ bindingQueue' = TRUE
    /\ UNCHANGED <<world, exportCache, secretCache, crdCache, binding, crd, staleCRD,
                   secretWork, bindingWork, sbOps>>

\* enqueueConsumerSecret; IndexServiceBindingByKubeconfigSecret.
DeliverSecret ==
    /\ secretCache # kubeSecret
    /\ secretCache' = kubeSecret
    /\ secretQueue' = (secretQueue \/ Bound)
    /\ UNCHANGED <<world, exportCache, bindingCache, crdCache, binding, staleBinding, crd,
                   staleCRD, bindingQueue, secretWork, bindingWork, sbOps>>

\* enqueueServiceExport: all bindings of the Secret.
DeliverExport ==
    /\ exportCache # export
    /\ exportCache' = export
    /\ bindingQueue' = (bindingQueue \/ Bound)
    /\ UNCHANGED <<world, secretCache, bindingCache, crdCache, binding, staleBinding, crd,
                   staleCRD, secretQueue, secretWork, bindingWork, sbOps>>

\* enqueueCRD: only for a CRD that is exported.
DeliverCRD ==
    /\ staleCRD
    /\ crdCache' = crd
    /\ staleCRD' = FALSE
    /\ bindingQueue' = (bindingQueue \/ (Bound /\ exportCache # Nothing))
    /\ UNCHANGED <<world, exportCache, secretCache, bindingCache, binding, staleBinding, crd,
                   secretQueue, secretWork, bindingWork, sbOps>>

\* Every informer replays its cache after half an hour.
InformersResync ==
    /\ secretQueue' = (secretQueue \/ Bound)
    /\ bindingQueue' = (bindingQueue \/ Bound)
    /\ UNCHANGED <<world, caches, binding, staleBinding, crd, staleCRD, secretWork, bindingWork,
                   sbOps>>

\* The konnector dies; the next one lists everything.
KonnectorRestarts ==
    /\ SBIntervene
    /\ exportCache' = export
    /\ secretCache' = kubeSecret
    /\ bindingCache' = binding
    /\ crdCache' = crd
    /\ staleBinding' = FALSE
    /\ staleCRD' = FALSE
    /\ secretQueue' = (binding # Nothing)
    /\ bindingQueue' = (binding # Nothing)
    /\ secretWork' = IdleWorker
    /\ bindingWork' = IdleWorker
    /\ UNCHANGED <<world, binding, crd>>

-----------------------------------------------------------------------------
(* The controller of the Secret.                                           *)

\* A reconcile of the cached copy that will commit this status.
StartWork(status) ==
    [IdleWorker EXCEPT !.step = "commit", !.uid = bindingCache.uid, !.old = bindingCache.status,
                 !.current = ~staleBinding, !.status = status]

\* ensureValidKubeconfigSecret.
ensureValidKubeconfigSecret(status, content) ==
    CASE content = "valid" \/ (ControlPlaneMode /\ content = "noNamespace") ->
            MarkTrue(status, "SecretValid")
      [] content = "absent" -> MarkFalse(status, "SecretValid", "KubeconfigSecretNotFound", "Error")
      [] OTHER -> MarkFalse(status, "SecretValid", "KubeconfigSecretInvalid", "Error")

\* process.
ProcessSecret ==
    /\ secretWork.step = "idle"
    /\ secretQueue
    /\ secretQueue' = FALSE
    /\ secretWork' =
          IF bindingCache = Nothing THEN IdleWorker
          ELSE StartWork(ensureValidKubeconfigSecret(bindingCache.status, secretCache))
    /\ UNCHANGED <<world, caches, binding, staleBinding, crd, staleCRD, bindingQueue,
                   bindingWork, sbOps>>

\* reconcile ends with the summary.
Outcome(work) == SetSummary(work.status, Types)

\* The committer: no call without a change; a copy that is not current is a conflict.
Conflict(work, new) == ~work.current /\ new # work.old

\* Mutant: the patch carries no version.
WrittenAnyVersion(work, new) == binding # Nothing /\ new # work.old

Written(work, new) == work.current /\ new # work.old

commitSecret ==
    LET new == Outcome(secretWork)
    IN  /\ secretWork.step = "commit"
        /\ secretWork' = IdleWorker
        /\ secretQueue' = (secretQueue \/ Conflict(secretWork, new))
        /\ IF Written(secretWork, new)
             THEN /\ StoreBinding([binding EXCEPT !.status = new])
                  /\ bindingWork' = Outdated(bindingWork)
             ELSE UNCHANGED <<binding, staleBinding, bindingWork>>
        /\ UNCHANGED <<world, caches, crd, staleCRD, bindingQueue, sbOps>>

-----------------------------------------------------------------------------
(* The controller of the CRD.                                              *)

\* Mutant: the name of the owner is enough.
IsOwnedByName(uid, existing) == existing.owner # 0

\* IsOwnedByBinding.
IsOwnedByBinding(uid, existing) == existing.owner = uid

Connected(work) == [work EXCEPT !.status = MarkTrue(@, "Connected")]
NotConnected(work, reason) == [work EXCEPT !.status = MarkFalse(@, "Connected", reason, "Error")]

\* ensureCRDs up to its call; ensureValidServiceExport has set Connected.
ensureCRDs(valid) ==
    LET crdSpec == ServiceExportToCRD(exportCache)
        call(step) == [valid EXCEPT !.step = step, !.spec = crdSpec, !.currentCRD = ~staleCRD]
    IN  CASE crdCache = Nothing -> call("create")
          [] crdCache # Nothing /\ ~IsOwnedByBinding(valid.uid, crdCache) ->
                NotConnected(valid, "ForeignCustomResourceDefinition")
          [] crdCache # Nothing /\ IsOwnedByBinding(valid.uid, crdCache) -> call("update")

\* process, ensureValidServiceExport.
ProcessBinding ==
    LET work == StartWork(bindingCache.status)
    IN  /\ bindingWork.step = "idle"
        /\ bindingQueue
        /\ bindingQueue' = FALSE
        /\ bindingWork' =
              CASE bindingCache = Nothing -> IdleWorker
                [] bindingCache # Nothing /\ exportCache = Nothing ->
                      NotConnected(work, "APIServiceExportNotFound")
                [] bindingCache # Nothing /\ exportCache # Nothing -> ensureCRDs(Connected(work))
        /\ UNCHANGED <<world, caches, binding, staleBinding, crd, staleCRD, secretQueue,
                       secretWork, sbOps>>

\* createCRD: an invalid CRD is a condition, one that exists an error.
createCRD ==
    LET new == bindingWork.spec
        done == [bindingWork EXCEPT !.step = "commit"]
    IN  /\ bindingWork.step = "create"
        /\ \/ /\ crd # Nothing
              /\ bindingWork' = [done EXCEPT !.err = TRUE]
              /\ UNCHANGED <<crd, staleCRD>>
           \/ /\ crd = Nothing /\ ~IsValid(new, {})
              /\ bindingWork' = NotConnected(done, "CustomResourceDefinitionCreateFailed")
              /\ UNCHANGED <<crd, staleCRD>>
           \/ /\ crd = Nothing /\ IsValid(new, {})
              /\ StoreCRD([spec |-> new, owner |-> bindingWork.uid, stored |-> {new.storage}])
              /\ bindingWork' = done
        /\ UNCHANGED <<world, caches, binding, staleBinding, secretQueue, bindingQueue,
                       secretWork, sbOps>>

\* Mutant: the update carries no version.
updateCRDAnyVersion ==
    LET new == bindingWork.spec
        done == [bindingWork EXCEPT !.step = "commit"]
    IN  /\ bindingWork.step = "update"
        /\ \/ /\ crd = Nothing
              /\ bindingWork' = done
              /\ UNCHANGED <<crd, staleCRD>>
           \/ /\ crd # Nothing /\ ~IsValid(new, crd.stored)
              /\ bindingWork' = NotConnected(done, "CustomResourceDefinitionUpdateFailed")
              /\ UNCHANGED <<crd, staleCRD>>
           \/ /\ crd # Nothing /\ IsValid(new, crd.stored)
              /\ bindingWork' = done
              /\ IF crd.spec = new
                   THEN UNCHANGED <<crd, staleCRD>>
                   ELSE StoreCRD([crd EXCEPT !.spec = new, !.stored = @ \cup {new.storage}])
        /\ UNCHANGED <<world, caches, binding, staleBinding, secretQueue, bindingQueue,
                       secretWork, sbOps>>

\* Mutant: no error is looked at.
updateCRDUnchecked ==
    LET new == bindingWork.spec
        done == [bindingWork EXCEPT !.step = "commit"]
    IN  /\ bindingWork.step = "update"
        /\ \/ /\ ~bindingWork.currentCRD
              /\ bindingWork' = done
              /\ UNCHANGED <<crd, staleCRD>>
           \/ /\ bindingWork.currentCRD /\ ~IsValid(new, crd.stored)
              /\ bindingWork' = done
              /\ UNCHANGED <<crd, staleCRD>>
           \/ /\ bindingWork.currentCRD /\ IsValid(new, crd.stored)
              /\ bindingWork' = done
              /\ IF crd.spec = new
                   THEN UNCHANGED <<crd, staleCRD>>
                   ELSE StoreCRD([crd EXCEPT !.spec = new, !.stored = @ \cup {new.storage}])
        /\ UNCHANGED <<world, caches, binding, staleBinding, secretQueue, bindingQueue,
                       secretWork, sbOps>>

\* updateCRD with the metadata of the cached copy.  A conflict, as every error but an
\* invalid CRD, is dropped.
updateCRD ==
    LET new == bindingWork.spec
        done == [bindingWork EXCEPT !.step = "commit"]
    IN  /\ bindingWork.step = "update"
        /\ \/ /\ ~bindingWork.currentCRD
              /\ bindingWork' = done
              /\ UNCHANGED <<crd, staleCRD>>
           \/ /\ bindingWork.currentCRD /\ ~IsValid(new, crd.stored)
              /\ bindingWork' = NotConnected(done, "CustomResourceDefinitionUpdateFailed")
              /\ UNCHANGED <<crd, staleCRD>>
           \/ /\ bindingWork.currentCRD /\ IsValid(new, crd.stored)
              /\ bindingWork' = done
              /\ IF crd.spec = new
                   THEN UNCHANGED <<crd, staleCRD>>
                   ELSE StoreCRD([crd EXCEPT !.spec = new, !.stored = @ \cup {new.storage}])
        /\ UNCHANGED <<world, caches, binding, staleBinding, secretQueue, bindingQueue,
                       secretWork, sbOps>>

\* The call to the CRD fails: an error of createCRD is returned, one of updateCRD is not.
CRDCallFails ==
    /\ SBIntervene
    /\ bindingWork.step \in {"create", "update"}
    /\ bindingWork' = [bindingWork EXCEPT !.step = "commit", !.err = bindingWork.step = "create"]
    /\ UNCHANGED <<world, caches, binding, staleBinding, crd, staleCRD, secretQueue,
                   bindingQueue, secretWork>>

\* ensurePrettyName cannot get the ClusterBinding; the status is committed all the same.
ensurePrettyNameFails ==
    /\ SBIntervene
    /\ bindingWork.step = "commit"
    /\ bindingWork' = [bindingWork EXCEPT !.err = TRUE]
    /\ UNCHANGED <<world, caches, binding, staleBinding, crd, staleCRD, secretQueue,
                   bindingQueue, secretWork>>

commitBinding ==
    LET new == Outcome(bindingWork)
    IN  /\ bindingWork.step = "commit"
        /\ bindingWork' = IdleWorker
        /\ bindingQueue' = (bindingQueue \/ bindingWork.err \/ Conflict(bindingWork, new))
        /\ IF Written(bindingWork, new)
             THEN /\ StoreBinding([binding EXCEPT !.status = new])
                  /\ secretWork' = Outdated(secretWork)
             ELSE UNCHANGED <<binding, staleBinding, secretWork>>
        /\ UNCHANGED <<world, caches, crd, staleCRD, secretQueue, sbOps>>

\* A patch of the status fails.
CommitFails ==
    /\ SBIntervene
    /\ \/ /\ secretWork.step = "commit" /\ Outcome(secretWork) # secretWork.old
          /\ secretWork' = IdleWorker
          /\ secretQueue' = TRUE
          /\ UNCHANGED <<bindingWork, bindingQueue>>
       \/ /\ bindingWork.step = "commit" /\ Outcome(bindingWork) # bindingWork.old
          /\ bindingWork' = IdleWorker
          /\ bindingQueue' = TRUE
          /\ UNCHANGED <<secretWork, secretQueue>>
    /\ UNCHANGED <<world, caches, binding, staleBinding, crd, staleCRD>>

-----------------------------------------------------------------------------
(* The other writers of the conditions.                                    *)

\* updateServiceBindings of both: the call with a copy that is not current fails, which is
\* only logged.
updateServiceBindings(status) ==
    /\ SBIntervene
    /\ Bound /\ ~staleBinding
    /\ status # bindingCache.status
    /\ StoreBinding([binding EXCEPT !.status = status])
    /\ secretWork' = Outdated(secretWork)
    /\ bindingWork' = Outdated(bindingWork)
    /\ UNCHANGED <<world, caches, crd, staleCRD, secretQueue, bindingQueue>>

\* Start of the cluster's controllers, once their informers have synced.
Start == updateServiceBindings(MarkTrue(bindingCache.status, "InformersSynced"))

\* process of the ClusterBinding's controller (module Heartbeat).
ClusterBindingCommitted ==
    updateServiceBindings(MarkTrue(bindingCache.status, "Heartbeating"))

ClusterBindingCommitFails ==
    updateServiceBindings(MarkFalse(bindingCache.status, "Heartbeating",
                                    "ClusterBindingUpdateFailed", "Warning"))

-----------------------------------------------------------------------------
SBInit ==
    /\ export \in Exports \cup {Nothing}
    /\ exportCache = export
    /\ kubeSecret = "valid"
    /\ secretCache = kubeSecret
    /\ binding = [uid |-> 1, status |-> NoStatus]
    /\ bindingCache = Nothing
    /\ staleBinding = TRUE
    /\ crd = Nothing
    /\ crdCache = Nothing
    /\ staleCRD = FALSE
    /\ secretQueue = FALSE
    /\ bindingQueue = FALSE
    /\ secretWork = IdleWorker
    /\ bindingWork = IdleWorker
    /\ created = 1
    /\ sbOps = 0

Users ==
    \/ UserBind
    \/ UserUnbind
    \/ \E content \in Contents : UserSecret(content)
    \/ UserCRD
    \/ \E new \in Exports \cup {Nothing} : ProviderExport(new)

SecretController == ProcessSecret \/ commitSecret

BindingController == ProcessBinding \/ createCRD \/ updateCRD \/ commitBinding

SBNext ==
    \/ Users
    \/ DeliverBinding
    \/ DeliverSecret
    \/ DeliverExport
    \/ DeliverCRD
    \/ InformersResync
    \/ KonnectorRestarts
    \/ SecretController
    \/ BindingController
    \/ CRDCallFails
    \/ ensurePrettyNameFails
    \/ CommitFails
    \/ Start
    \/ ClusterBindingCommitted
    \/ ClusterBindingCommitFails

SBSpec == SBInit /\ [][SBNext]_sbVars

\* Informers deliver and replay their caches, and the workers work.
SBFairness ==
    /\ WF_sbVars(DeliverBinding)
    /\ WF_sbVars(DeliverSecret)
    /\ WF_sbVars(DeliverExport)
    /\ WF_sbVars(DeliverCRD)
    /\ WF_sbVars(InformersResync)
    /\ WF_sbVars(SecretController)
    /\ WF_sbVars(BindingController)

SBFairSpec == SBSpec /\ SBFairness

-----------------------------------------------------------------------------
\* Objects, caches and workers hold what their types allow.
SBTypeOK ==
    /\ export \in Exports \cup {Nothing}
    /\ exportCache \in Exports \cup {Nothing}
    /\ kubeSecret \in Contents
    /\ secretCache \in Contents
    /\ binding \in Binding \cup {Nothing}
    /\ bindingCache \in Binding \cup {Nothing}
    /\ staleBinding \in BOOLEAN
    /\ crd \in ConsumerCRD \cup {Nothing}
    /\ crdCache \in ConsumerCRD \cup {Nothing}
    /\ staleCRD \in BOOLEAN
    /\ secretQueue \in BOOLEAN
    /\ bindingQueue \in BOOLEAN
    /\ secretWork \in Work
    /\ bindingWork \in Work
    /\ created \in Uids
    /\ sbOps \in 0..MaxSBOps

\* "we don't override something else" (ensureCRDs): the schema of a CRD is only replaced by
\* the binding that owns it, also when the CRD that ensureCRDs looked at in its cache has
\* meanwhile made way for another.
ForeignCRDsAreKept ==
    [][crd # Nothing /\ crd' # Nothing /\ crd'.spec # crd.spec =>
          crd.owner = bindingWork.uid /\ crd'.owner = crd.owner]_sbVars

\* Four writers send the whole list of conditions, yet none undoes or anticipates the
\* verdict of another on the same binding, but for Ready, which both controllers write.
ConditionsAreKept ==
    [][binding # Nothing /\ binding' # Nothing /\ binding.uid = binding'.uid =>
          \E type \in Range(Types) :
             /\ \A other \in Range(Types) \ {type} :
                   binding'.status[other] = binding.status[other]
             /\ binding'.status # binding.status =>
                   /\ type = "SecretValid" => secretWork.step = "commit"
                   /\ type = "Connected" => bindingWork.step = "commit"]_sbVars

=============================================================================

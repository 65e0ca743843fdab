-------------------------- MODULE AppClusterBinding --------------------------
(***************************************************************************)
(* The AppClusterBinding controller of the example backend.  For every     *)
(* AppClusterBinding it keeps a binding root namespace on the control      *)
(* plane: a service account, a copy of the app cluster's kubeconfig, a     *)
(* ClusterBinding, RBAC, an APIServiceBinding and an APIServiceExport-     *)
(* Request per API, and the konnector's Deployment; a finalizer holds the  *)
(* AppClusterBinding until all of it is gone.                              *)
(*                                                                         *)
(* One worker takes keys from the queue.  A reconcile is split at its      *)
(* calls to the API server.  AppClusterBindings and Secrets are read from  *)
(* informer caches, everything else from the API server.  The controller   *)
(* of export requests is seen from outside (module ExportRequests models   *)
(* it).                                                                    *)
(***************************************************************************)
EXTENDS Naturals, Sequences, FiniteSets

CONSTANTS
    Bindings,   \* AppClusterBindings
    Ident,      \* their namespace and name, each a sequence of parts between dashes
    APIs,       \* group/resources
    Offered,    \* those with an APIServiceExportTemplate
    Wanted,     \* what users ask for: the APIs, and whether to deploy a konnector
    Versions,   \* valid kubeconfigs
    None,       \* nothing
    MaxOps      \* how many times users intervene or calls fail

\* The kubeconfig Secret of an app cluster.
Contents == Versions \cup {"absent", "invalid"}

Conditions == {"unknown", "false", "true"}

Status == [secretValid : Conditions, deployed : Conditions]

\* AppClusterBindingSpec without the immutable reference to the Secret.
Wish == [exports : SUBSET APIs, deploy : BOOLEAN]

Object == [spec : Wish, deleting : BOOLEAN, finalizer : BOOLEAN, status : Status]

\* getBindingRootNamespace: the parts joined by dashes.
getBindingRootNamespace(b) == Ident[b].namespace \o Ident[b].name

Roots == {getBindingRootNamespace(b) : b \in Bindings}

\* An export request is named after its binding and its template.
Request == [api : APIs, owner : Bindings, done : BOOLEAN]

\* A binding root namespace and the objects in it.
Root == [phase       : {"absent", "active", "terminating"},
         account     : BOOLEAN,
         mirror      : Versions \cup {None},
         cluster     : Bindings \cup {None},
         role        : {"none", "drifted", "ok"},
         roleBinding : {"none", "drifted", "ok"},
         bindings    : [APIs -> Bindings \cup {None}],  \* APIServiceBindings and their label
         requests    : SUBSET Request,
         exports     : SUBSET APIs,
         konnectors  : SUBSET Bindings]                 \* Deployments

\* newAPIServiceExportRequest, newServiceBinding: the names come from the template, and for
\* a request from the binding too; ensureBindingLabels records whose they are.
newAPIServiceExportRequest(b, a) == [api |-> a, owner |-> b, done |-> FALSE]
newServiceBinding(b, a) == [api |-> a, owner |-> b]

EmptyRoot == [phase |-> "absent", account |-> FALSE, mirror |-> None, cluster |-> None,
              role |-> "none", roleBinding |-> "none", bindings |-> [a \in APIs |-> None],
              requests |-> {}, exports |-> {}, konnectors |-> {}]

ASSUME AppClusterBindingAssumption ==
    /\ Offered \subseteq APIs
    /\ Wanted \subseteq Wish
    /\ None \notin Bindings \cup Versions \cup Object
    /\ Versions # {} /\ {"absent", "invalid"} \cap Versions = {}
    /\ MaxOps \in Nat

VARIABLES
    acb,          \* the AppClusterBindings in the API server
    cache,        \* the informer's copies
    fresh,        \* the bindings whose cached copy is the current version
    secret,       \* the kubeconfig Secrets of the app clusters
    secretCache,  \* the informer's copies
    mirrorCache,  \* the informer's copies of the mirrored Secrets
    ns,           \* the binding root namespaces
    legacy,       \* bindings whose klutch-konnector ClusterRole and binding still exist
    late,         \* requests gone from the API server that their controller still works on
    queue,
    work,         \* the key in process: its next call, its copy, the status it will write
    ops

vars == <<acb, cache, fresh, secret, secretCache, mirrorCache, ns, legacy, late, queue, work, ops>>
objects == <<acb, cache, fresh>>
secrets == <<secret, secretCache, mirrorCache>>

NoStatus == [secretValid |-> "unknown", deployed |-> "unknown"]

\* seen is what listExports found.
Idle == [step |-> "idle", key |-> None, obj |-> None, current |-> FALSE, status |-> NoStatus,
         err |-> FALSE, seen |-> None]

\* The order of reconcile, and where it goes on after an error.
Succ == [namespace |-> "mirror", mirror |-> "clusterBinding", clusterBinding |-> "role",
         role |-> "roleBinding", roleBinding |-> "serviceBindings",
         serviceBindings |-> "listExports", listExports |-> "applyExports",
         applyExports |-> "deployment", deployment |-> "status"]
Skip == [namespace |-> "role", mirror |-> "role", clusterBinding |-> "role",
         role |-> "serviceBindings", roleBinding |-> "serviceBindings",
         serviceBindings |-> "listExports", listExports |-> "deployment",
         applyExports |-> "deployment", deployment |-> "status"]

\* ensureDeleted goes through all of its steps whatever fails.
DeleteSucc == [deleteBindings |-> "deleteClusterRoles", deleteClusterRoles |-> "deleteNamespace",
               deleteNamespace |-> "verifyNamespace", verifyNamespace |-> "removeFinalizer"]

Steps == DOMAIN Succ \cup DOMAIN DeleteSucc
            \cup {"idle", "addFinalizer", "secret", "status", "removeFinalizer"}

Seen == [desired : SUBSET APIs, exports : SUBSET APIs, requests : SUBSET Request]

-----------------------------------------------------------------------------
(* Users, Kubernetes, and the controller of export requests (external).    *)

Intervene == ops < MaxOps /\ ops' = ops + 1

\* A write to an AppClusterBinding: copies of it become stale.
Store(b, new) ==
    /\ acb' = [acb EXCEPT ![b] = new]
    /\ fresh' = fresh \ {b}

Outdate(b) == work' = IF work.key = b THEN [work EXCEPT !.current = FALSE] ELSE work

UserUpdate(b, spec) ==
    /\ Intervene
    /\ acb[b] # None
    /\ acb[b].spec # spec
    /\ Store(b, [acb[b] EXCEPT !.spec = spec])
    /\ Outdate(b)
    /\ UNCHANGED <<cache, secrets, ns, legacy, late, queue>>

UserDelete(b) ==
    /\ Intervene
    /\ acb[b] # None
    /\ ~acb[b].deleting
    /\ Store(b, IF acb[b].finalizer THEN [acb[b] EXCEPT !.deleting = TRUE] ELSE None)
    /\ Outdate(b)
    /\ UNCHANGED <<cache, secrets, ns, legacy, late, queue>>

New(spec, old) == [spec |-> spec, deleting |-> FALSE, finalizer |-> old, status |-> NoStatus]

UserCreate(b, spec) ==
    /\ Intervene
    /\ acb[b] = None
    /\ Store(b, New(spec, FALSE))
    /\ Outdate(b)
    /\ UNCHANGED <<cache, secrets, ns, legacy, late, queue>>

UserSecret(b, content) ==
    /\ Intervene
    /\ secret[b] # content
    /\ secret' = [secret EXCEPT ![b] = content]
    /\ UNCHANGED <<objects, secretCache, mirrorCache, ns, legacy, late, queue, work>>

\* Somebody edits the role: enqueueRBACResourceOwner looks for an owner reference, which
\* ensureControlPlaneConnectorRBAC does not set, so that no key is queued.
DriftRole(n) ==
    /\ Intervene
    /\ \E field \in {"role", "roleBinding"} :
          /\ ns[n][field] = "ok"
          /\ ns' = [ns EXCEPT ![n][field] = "drifted"]
    /\ UNCHANGED <<objects, secrets, legacy, late, queue, work>>

\* Somebody deletes a Deployment: enqueueDeploymentOwner queues the binding of its label.
DriftDeployment(n, b) ==
    /\ Intervene
    /\ b \in ns[n].konnectors
    /\ ns' = [ns EXCEPT ![n].konnectors = @ \ {b}]
    /\ queue' = queue \cup {b}
    /\ UNCHANGED <<objects, secrets, legacy, late, work>>

\* The same of an APIServiceBinding: enqueueAPIServiceBinding.
DriftBinding(n, a) ==
    /\ Intervene
    /\ ns[n].bindings[a] # None
    /\ ns' = [ns EXCEPT ![n].bindings[a] = None]
    /\ queue' = queue \cup {ns[n].bindings[a]}
    /\ UNCHANGED <<objects, secrets, legacy, late, work>>

\* Kubernetes empties a terminating namespace.
NamespaceGone(n) ==
    /\ ns[n].phase = "terminating"
    /\ ns' = [ns EXCEPT ![n] = EmptyRoot]
    /\ queue' = queue \cup ns[n].konnectors \cup ({ns[n].bindings[a] : a \in APIs} \ {None})
    /\ UNCHANGED <<objects, secrets, legacy, late, work, ops>>

\* The request's controller creates the export.
Serve(n, r) ==
    /\ ns[n].phase = "active"
    /\ r \in ns[n].requests
    /\ ~r.done
    /\ ns' = [ns EXCEPT ![n].exports = @ \cup {r.api},
                        ![n].requests = (@ \ {r}) \cup {[r EXCEPT !.done = TRUE]}]
    /\ UNCHANGED <<objects, secrets, legacy, late, queue, work, ops>>

\* It works on a cached request that has been deleted; in a namespace that is not active
\* the creation fails.
ServeLate(n, a) ==
    /\ <<n, a>> \in late
    /\ late' = late \ {<<n, a>>}
    /\ ns' = IF ns[n].phase = "active" THEN [ns EXCEPT ![n].exports = @ \cup {a}] ELSE ns
    /\ UNCHANGED <<objects, secrets, legacy, queue, work, ops>>

\* A request that was served is deleted ten minutes after its creation.
Expire(n, r) ==
    /\ r \in ns[n].requests
    /\ r.done
    /\ ns' = [ns EXCEPT ![n].requests = @ \ {r}]
    /\ UNCHANGED <<objects, secrets, legacy, late, queue, work, ops>>

-----------------------------------------------------------------------------
(* Informers and their event handlers.                                     *)

\* enqueueAppClusterBinding.
Deliver(b) ==
    /\ b \notin fresh
    /\ cache' = [cache EXCEPT ![b] = acb[b]]
    /\ fresh' = fresh \cup {b}
    /\ queue' = queue \cup {b}
    /\ UNCHANGED <<acb, secrets, ns, legacy, late, work, ops>>

\* The dynamic informer's resync calls the update handler.
Resync(b) ==
    /\ cache[b] # None
    /\ b \notin queue
    /\ queue' = queue \cup {b}
    /\ UNCHANGED <<objects, secrets, ns, legacy, late, work, ops>>

\* indexAppClusterBindingByKubeconfigSecret: the cached bindings that refer to b's Secret.
Referring(b) == {c \in {b} : cache[c] # None}

\* enqueueSecret.
DeliverSecret(b) ==
    /\ secretCache[b] # secret[b]
    /\ secretCache' = [secretCache EXCEPT ![b] = secret[b]]
    /\ queue' = queue \cup Referring(b)
    /\ UNCHANGED <<objects, secret, mirrorCache, ns, legacy, late, work, ops>>

\* Nothing refers to the mirrored Secret.
DeliverMirror(n) ==
    /\ mirrorCache[n] # ns[n].mirror
    /\ mirrorCache' = [mirrorCache EXCEPT ![n] = ns[n].mirror]
    /\ UNCHANGED <<objects, secret, secretCache, ns, legacy, late, queue, work, ops>>

-----------------------------------------------------------------------------
(* process, ensureFinalizer.                                               *)

\* A key of the queue; an object that is being deleted without the finalizer has
\* nothing left to do.
FirstStep(obj) ==
    CASE ~obj.deleting /\ ~obj.finalizer -> "addFinalizer"
      [] ~obj.deleting /\ obj.finalizer -> "secret"
      [] obj.deleting /\ obj.finalizer -> "deleteBindings"
      [] obj.deleting /\ ~obj.finalizer -> "idle"

Process(b) ==
    /\ work.step = "idle"
    /\ b \in queue
    /\ queue' = queue \ {b}
    /\ work' = IF cache[b] = None \/ FirstStep(cache[b]) = "idle" THEN Idle
               ELSE [step |-> FirstStep(cache[b]), key |-> b, obj |-> cache[b],
                     current |-> b \in fresh, status |-> cache[b].status, err |-> FALSE,
                     seen |-> None]
    /\ UNCHANGED <<objects, secrets, ns, legacy, late, ops>>

\* AddRateLimited after an error, Forget otherwise.
End(err) ==
    /\ work' = Idle
    /\ queue' = IF err THEN queue \cup {work.key} ELSE queue

\* An update with a resourceVersion: a conflict is an error.
Save(new) ==
    /\ IF work.current THEN Store(work.key, new) ELSE UNCHANGED <<acb, fresh>>
    /\ End(~work.current)
    /\ UNCHANGED <<cache, secrets, ns, legacy, late, ops>>

ensureFinalizer ==
    /\ work.step = "addFinalizer"
    /\ Save([acb[work.key] EXCEPT !.finalizer = TRUE])

\* UpdateStatus, unless reconcile failed or the status is the one that was read.
updateStatus ==
    /\ work.step = "status"
    /\ IF work.err \/ work.status = work.obj.status
       THEN /\ End(work.err)
            /\ UNCHANGED <<objects, secrets, ns, legacy, late, ops>>
       ELSE Save([acb[work.key] EXCEPT !.status = work.status])

-----------------------------------------------------------------------------
(* reconcile.                                                              *)

root == getBindingRootNamespace(work.key)

\* The step's calls succeed and leave the namespace as new; or one of them fails.
Ok(new) ==
    /\ ns' = [ns EXCEPT ![root] = new]
    /\ work' = [work EXCEPT !.step = Succ[work.step]]
Error ==
    /\ work' = [work EXCEPT !.step = Skip[work.step], !.err = TRUE]
    /\ UNCHANGED ns

\* An object is created, which a terminating namespace refuses, or updated.
Put(field, value) ==
    IF ns[root].phase = "active" \/ ns[root][field] # EmptyRoot[field]
    THEN Ok([ns[root] EXCEPT ![field] = value])
    ELSE Error

InReconcile == UNCHANGED <<objects, secrets, legacy, queue, ops>>

ensureValidKubeconfigSecret ==
    LET valid == secretCache[work.key] \in Versions IN
    /\ work.step = "secret"
    /\ work' = [work EXCEPT !.step = IF valid THEN "namespace" ELSE "status",
                            !.status.secretValid = IF valid THEN "true" ELSE "false"]
    /\ InReconcile
    /\ UNCHANGED <<ns, late>>

\* EnsureBindingRootResources: the namespace and the service account.
EnsureNamespace ==
    /\ work.step = "namespace"
    /\ CASE ns[root].phase = "absent" -> Ok([ns[root] EXCEPT !.phase = "active", !.account = TRUE])
         [] ns[root].phase # "absent" -> Put("account", TRUE)
    /\ InReconcile
    /\ UNCHANGED late

\* Mutant: a mirror that exists is not updated.
ensureBindingRootKubeconfigSecretOnce ==
    /\ work.step = "mirror"
    /\ CASE secretCache[work.key] \in {"absent", "invalid"} -> Error
         [] secretCache[work.key] \in Versions /\ ns[root].mirror = None ->
               Put("mirror", secretCache[work.key])
         [] secretCache[work.key] \in Versions /\ ns[root].mirror # None -> Ok(ns[root])
    /\ InReconcile
    /\ UNCHANGED late

\* ensureBindingRootKubeconfigSecret works on cached Secrets: the source may be gone by
\* now, and a write against a stale copy of the mirror fails.
ensureBindingRootKubeconfigSecret ==
    LET source == secretCache[work.key] IN
    /\ work.step = "mirror"
    /\ CASE source \in {"absent", "invalid"} -> Error
         [] source \in Versions /\ mirrorCache[root] = source -> Ok(ns[root])
         [] source \in Versions /\ mirrorCache[root] # source ->
               IF mirrorCache[root] = ns[root].mirror THEN Put("mirror", source) ELSE Error
    /\ InReconcile
    /\ UNCHANGED late

EnsureClusterBinding ==
    /\ work.step = "clusterBinding"
    /\ Put("cluster", work.key)
    /\ InReconcile
    /\ UNCHANGED late

ensureControlPlaneConnectorRBAC ==
    /\ work.step \in {"role", "roleBinding"}
    /\ Put(work.step, "ok")
    /\ InReconcile
    /\ UNCHANGED late

\* resolveTemplate, TemplateFor.
WithTemplate(apis) == apis \cap Offered

\* ensureServiceBindings: the first template that is not found ends it.  The bindings of
\* this owner's label are listed; one of the same name and another label stays as it is.
ensureServiceBindings ==
    LET have == ns[root].bindings
        want == work.obj.spec.exports
        next(a) == CASE have[a] = work.key /\ a \notin want -> None
                     [] have[a] = None /\ a \in want -> newServiceBinding(work.key, a).owner
                     [] OTHER -> have[a]
    IN
    /\ work.step = "serviceBindings"
    /\ \/ /\ WithTemplate(want) # want
          /\ Error
       \/ /\ WithTemplate(want) = want
          /\ ns[root].phase = "active"
          /\ Ok([ns[root] EXCEPT !.bindings = [a \in APIs |-> next(a)]])
       \/ /\ WithTemplate(want) = want
          /\ ns[root].phase # "active"
          /\ ns' = [ns EXCEPT ![root].bindings = [a \in APIs |-> IF have[a] = None THEN None ELSE next(a)]]
          /\ work' = [work EXCEPT !.step = Skip[work.step],
                                  !.err = work.err \/ \E a \in want : have[a] = None]
    /\ InReconcile
    /\ UNCHANGED late

\* ensureServiceExportRequests: the templates are looked up, and exports and requests are
\* listed.  A template that is not found, or whose lookup fails, is an error, but the
\* rest goes on without it.
Lookup(found) ==
    /\ work' = [work EXCEPT !.step = "applyExports",
                            !.seen = [desired |-> found, exports |-> ns[root].exports,
                                      requests |-> {r \in ns[root].requests : r.owner = work.key}],
                            !.err = work.err \/ found # work.obj.spec.exports]
    /\ UNCHANGED <<objects, secrets, ns, legacy, late, queue>>

listExports ==
    /\ work.step = "listExports"
    /\ Lookup(WithTemplate(work.obj.spec.exports))
    /\ UNCHANGED ops

\* The calls of TemplateFor for some of the APIs fail.
listExportsFails ==
    /\ work.step = "listExports"
    /\ Intervene
    /\ \E failed \in SUBSET work.obj.spec.exports :
          /\ failed # {}
          /\ Lookup(WithTemplate(work.obj.spec.exports \ failed))

\* Exports and requests that are not desired are deleted, whoever made them, and requests
\* are created for what is desired and neither exported nor requested.
applyExports ==
    LET seen == work.seen
        stale == {r \in ns[root].requests : r \in seen.requests /\ r.api \notin seen.desired}
        missing == {a \in seen.desired \ seen.exports : \A r \in seen.requests : r.api # a}
        requested == {newAPIServiceExportRequest(r.owner, r.api) : r \in ns[root].requests}
        new == {newAPIServiceExportRequest(work.key, a) : a \in missing} \ requested
        refused == new # {} /\ ns[root].phase # "active"
    IN
    /\ work.step = "applyExports"
    /\ ns' = [ns EXCEPT ![root].exports = @ \ (seen.exports \ seen.desired),
                        ![root].requests = (@ \ stale) \cup (IF refused THEN {} ELSE new)]
    /\ late' = late \cup {<<root, r.api>> : r \in {x \in stale : ~x.done}}
    /\ work' = [work EXCEPT !.step = "deployment", !.seen = None, !.err = work.err \/ refused]
    /\ InReconcile

ensureKonnectorDeployment ==
    LET have == ns[root].konnectors
        refused == work.obj.spec.deploy /\ work.key \notin have /\ ns[root].phase # "active"
    IN
    /\ work.step = "deployment"
    /\ work' = [work EXCEPT !.step = "status", !.err = work.err \/ refused,
                            !.status.deployed = IF refused THEN "false" ELSE "true"]
    /\ ns' = IF refused THEN ns
             ELSE [ns EXCEPT ![root].konnectors = IF work.obj.spec.deploy THEN have \cup {work.key}
                                                  ELSE have \ {work.key}]
    /\ InReconcile
    /\ UNCHANGED late

\* A call of reconcile fails without an effect; after the namespace has been created the
\* service account may still be missing.
StepFails ==
    /\ Intervene
    /\ work.step \in DOMAIN Skip
    /\ work' = [work EXCEPT !.step = Skip[work.step], !.err = TRUE,
                            !.status.deployed = IF work.step = "deployment" THEN "false" ELSE @]
    /\ \/ UNCHANGED ns
       \/ /\ work.step = "namespace"
          /\ ns[root].phase = "absent"
          /\ ns' = [ns EXCEPT ![root].phase = "active"]
    /\ UNCHANGED <<objects, secrets, legacy, late, queue>>

-----------------------------------------------------------------------------
(* ensureDeleted, removeFinalizer.                                         *)

Deleting(err) ==
    /\ work' = [work EXCEPT !.step = DeleteSucc[work.step], !.err = work.err \/ err]
    /\ UNCHANGED <<objects, secrets, late, queue, ops>>

deleteServiceBindings ==
    /\ work.step = "deleteBindings"
    /\ ns' = [ns EXCEPT ![root].bindings =
                 [a \in APIs |-> IF ns[root].bindings[a] = work.key THEN None ELSE ns[root].bindings[a]]]
    /\ Deleting(FALSE)
    /\ UNCHANGED legacy

deleteClusterRoles ==
    /\ work.step = "deleteClusterRoles"
    /\ legacy' = legacy \ {work.key}
    /\ Deleting(FALSE)
    /\ UNCHANGED ns

deleteNamespace ==
    /\ work.step = "deleteNamespace"
    /\ ns' = IF ns[root].phase = "active" THEN [ns EXCEPT ![root].phase = "terminating"] ELSE ns
    /\ Deleting(FALSE)
    /\ UNCHANGED legacy

\* Mutant: a namespace that has been asked to go is taken for gone.
verifyNamespaceNot ==
    /\ work.step = "verifyNamespace"
    /\ Deleting(FALSE)
    /\ UNCHANGED <<ns, legacy>>

verifyNamespace ==
    /\ work.step = "verifyNamespace"
    /\ Deleting(ns[root].phase # "absent")
    /\ UNCHANGED <<ns, legacy>>

\* A call of ensureDeleted fails without an effect.
DeleteFails ==
    /\ Intervene
    /\ work.step \in DOMAIN DeleteSucc
    /\ work' = [work EXCEPT !.step = DeleteSucc[work.step], !.err = TRUE]
    /\ UNCHANGED <<objects, secrets, ns, legacy, late, queue>>

\* The last finalizer: the object is gone.
removeFinalizer ==
    /\ work.step = "removeFinalizer"
    /\ IF work.err
       THEN /\ End(TRUE)
            /\ UNCHANGED <<objects, secrets, ns, legacy, late, ops>>
       ELSE Save(None)

-----------------------------------------------------------------------------

\* Objects are new, or an earlier release has left them with ClusterRoles.
Init ==
    /\ \E spec \in Wanted, old \in BOOLEAN :
          /\ acb = [b \in Bindings |-> New(spec, old)]
          /\ legacy = IF old THEN Bindings ELSE {}
    /\ cache = [b \in Bindings |-> None]
    /\ fresh = {}
    /\ secret = [b \in Bindings |-> CHOOSE v \in Versions : TRUE]
    /\ secretCache = [b \in Bindings |-> "absent"]
    /\ mirrorCache = [n \in Roots |-> None]
    /\ ns = [n \in Roots |-> EmptyRoot]
    /\ late = {}
    /\ queue = {}
    /\ work = Idle
    /\ ops = 0

Users ==
    \/ \E b \in Bindings :
          \/ \E spec \in Wanted : UserUpdate(b, spec) \/ UserCreate(b, spec)
          \/ UserDelete(b)
          \/ \E content \in Contents : UserSecret(b, content)
    \/ \E n \in Roots :
          \/ DriftRole(n)
          \/ \E b \in Bindings : DriftDeployment(n, b)
          \/ \E a \in APIs : DriftBinding(n, a)

Faults == listExportsFails \/ StepFails \/ DeleteFails

Kubernetes(n) ==
    \/ NamespaceGone(n) \/ DeliverMirror(n)
    \/ \E r \in ns[n].requests : Serve(n, r) \/ Expire(n, r)
    \/ \E a \in APIs : ServeLate(n, a)

reconcile ==
    \/ ensureValidKubeconfigSecret \/ EnsureNamespace \/ ensureBindingRootKubeconfigSecret
    \/ EnsureClusterBinding \/ ensureControlPlaneConnectorRBAC \/ ensureServiceBindings
    \/ listExports \/ applyExports \/ ensureKonnectorDeployment

ensureDeleted ==
    deleteServiceBindings \/ deleteClusterRoles \/ deleteNamespace \/ verifyNamespace

Worker ==
    ensureFinalizer \/ reconcile \/ updateStatus \/ ensureDeleted \/ removeFinalizer

Informers(b) == Deliver(b) \/ DeliverSecret(b)

Next ==
    \/ Users \/ Faults \/ Worker
    \/ \E n \in Roots : Kubernetes(n)
    \/ \E b \in Bindings : Informers(b) \/ Resync(b) \/ Process(b)

Spec == Init /\ [][Next]_vars

\* The worker takes every key, informers catch up and resync, Kubernetes removes
\* terminating namespaces, and requests are served and expire.
FairSpec ==
    /\ Spec
    /\ WF_vars(Worker)
    /\ \A b \in Bindings : WF_vars(Process(b)) /\ WF_vars(Informers(b)) /\ WF_vars(Resync(b))
    /\ \A n \in Roots : WF_vars(Kubernetes(n))

-----------------------------------------------------------------------------
(* Properties.                                                             *)

\* Every object, copy and step has its type, and an absent namespace holds nothing.
TypeOK ==
    /\ acb \in [Bindings -> Object \cup {None}]
    /\ cache \in [Bindings -> Object \cup {None}]
    /\ fresh \subseteq Bindings
    /\ secret \in [Bindings -> Contents]
    /\ secretCache \in [Bindings -> Contents]
    /\ mirrorCache \in [Roots -> Versions \cup {None}]
    /\ ns \in [Roots -> Root]
    /\ \A n \in Roots : ns[n].phase = "absent" => ns[n] = EmptyRoot
    /\ legacy \subseteq Bindings
    /\ late \subseteq Roots \X APIs
    /\ queue \subseteq Bindings
    /\ work \in [step : Steps, key : Bindings \cup {None}, obj : Object \cup {None},
                 current : BOOLEAN, status : Status, err : BOOLEAN, seen : Seen \cup {None}]
    /\ ops \in 0..MaxOps

\* An AppClusterBinding that is gone has left nothing behind: the finalizer is added
\* before the first object is made and removed when the namespace has really gone, so
\* that no deletion in the middle of a reconcile, stale copy, failing call or slowly
\* terminating namespace leaks a konnector, a kubeconfig or a ClusterRole.
NoLeftovers ==
    \A b \in Bindings :
        acb[b] = None => ns[getBindingRootNamespace(b)] = EmptyRoot /\ b \notin legacy

\* What the binding asks for is there, and nothing else is.
Settled(b) ==
    LET n == ns[getBindingRootNamespace(b)] IN
    IF acb[b] = None THEN n = EmptyRoot
    ELSE secret[b] \in Versions /\ acb[b].spec.exports \subseteq Offered =>
        /\ ~acb[b].deleting
        /\ n.phase = "active" /\ n.account /\ n.mirror = secret[b] /\ n.cluster = b
        /\ n.role = "ok" /\ n.roleBinding = "ok"
        /\ n.bindings = [a \in APIs |-> IF a \in acb[b].spec.exports THEN b ELSE None]
        /\ n.exports = acb[b].spec.exports
        /\ n.konnectors = IF acb[b].spec.deploy THEN {b} ELSE {}
        /\ acb[b].status = [secretValid |-> "true", deployed |-> "true"]

\* Once nobody intervenes the namespace becomes what its AppClusterBinding asks for, or
\* goes with it: no error path of reconcile, lost kubeconfig update, terminating
\* namespace, drift without an event or export served late stops that.
Settles == \A b \in Bindings : <>[]Settled(b)
=============================================================================

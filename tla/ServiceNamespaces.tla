------------------------- MODULE ServiceNamespaces -------------------------
(***************************************************************************)
(* A namespace of the consumer and the namespace of the provider that      *)
(* stands for it: the backend's controller of APIServiceNamespaces creates *)
(* the provider's namespace and the consumer's access to it, and deletes   *)
(* it with the APIServiceNamespace, which the konnector's namespace        *)
(* deletion controller deletes with the consumer's namespace.              *)
(*                                                                         *)
(* What the consumer may do there is in a ClusterRole, which the backend's *)
(* controller of ClusterBindings keeps as the APIServiceExports have it.   *)
(*                                                                         *)
(* The name of the provider's namespace is determined by the               *)
(* APIServiceNamespace, so a later one gets the namespace of an earlier    *)
(* one, while the API server may still be deleting it.                     *)
(***************************************************************************)
EXTENDS Naturals

CONSTANT MaxNSOps   \* how many times users intervene, calls fail, the backend crashes

ASSUME ServiceNamespacesAssumption == MaxNSOps \in Nat

VARIABLES
    cns, cnsCache,      \* whether the consumer's namespace exists; the konnector's copy
    sn,                 \* the APIServiceNamespace: "none", "pending", "ready"
    snCache,            \* the konnector's copy
    snBackend,          \* the backend's copy
    snFresh,            \* who has the current version: "konnector", "backend", "work"
    pns, pnsCache,      \* the provider's namespace; the backend's copy
    pnsFresh,           \* whether the backend got the last event of it
    rb, rbCache,        \* whether the RoleBinding exists; the backend's copy
    scope,              \* of the consumers' access: "Cluster", "Namespaced"
    access,             \* the access rights of the consumer, see Access
    queueD,             \* the namespace deletion controller's key is queued
    queueB, workB,      \* the backend's key is queued; its reconcile in progress
    lost,               \* the backend crashed before it knew of a deletion
    nsOps

konnectorSide == <<cns, cnsCache, snCache, queueD>>
backendSide == <<snBackend, pnsCache, rbCache, queueB, workB>>
namespace == <<pns, pnsFresh>>
aside == <<scope, access, lost>>
nsVars == <<konnectorSide, backendSide, sn, snFresh, namespace, rb, aside, nsOps>>

SNStates == {"none", "pending", "ready"}
NSStates == {"none", "active", "terminating"}
Steps == {"idle", "rbac", "commit"}
Rules == {"none", "empty", "rule"}

\* Whether there is an APIServiceExport, the ClusterRole (its rule is for the export), the
\* ClusterRoleBinding, and the informers' copies of them.
Access == [export : BOOLEAN, exportSeen : BOOLEAN, role : Rules, roleSeen : Rules,
           roleFresh : BOOLEAN, crb : BOOLEAN, crbSeen : BOOLEAN]

NSIntervene == nsOps < MaxNSOps /\ nsOps' = nsOps + 1

WriteSN(new) == sn' = new /\ snFresh' = {}
WriteNamespace(new) == pns' = new /\ pnsFresh' = (pnsFresh /\ new = pns)

-----------------------------------------------------------------------------
(* The consumer and the konnector.                                         *)

ConsumerNamespaceChanges ==
    /\ NSIntervene
    /\ cns' = ~cns
    /\ UNCHANGED <<cnsCache, snCache, queueD, backendSide, sn, snFresh, namespace, rb, aside>>

\* The spec controller of a syncer needs a provider namespace; its copy of the object may
\* be as old as the copy of the namespace.
createServiceNamespace ==
    /\ cns \/ cnsCache
    /\ snCache = "none" /\ sn = "none"
    /\ WriteSN("pending")
    /\ UNCHANGED <<konnectorSide, backendSide, namespace, rb, aside, nsOps>>

\* enqueueNamespace of the deletion controller.
DeliverConsumerNamespace ==
    /\ cnsCache # cns
    /\ cnsCache' = cns
    /\ queueD' = TRUE
    /\ UNCHANGED <<cns, snCache, backendSide, sn, snFresh, namespace, rb, aside, nsOps>>

\* enqueueServiceNamespace of the deletion controller.
DeliverServiceNamespace ==
    /\ "konnector" \notin snFresh
    /\ snCache' = sn
    /\ snFresh' = snFresh \cup {"konnector"}
    /\ queueD' = TRUE
    /\ UNCHANGED <<cns, cnsCache, backendSide, sn, namespace, rb, aside, nsOps>>

\* process of the deletion controller.
processDeletion ==
    /\ queueD
    /\ queueD' = FALSE
    /\ IF cnsCache \/ sn = "none" THEN UNCHANGED <<sn, snFresh>> ELSE WriteSN("none")
    /\ UNCHANGED <<cns, cnsCache, snCache, backendSide, namespace, rb, aside, nsOps>>

-----------------------------------------------------------------------------
(* The backend.                                                            *)

\* enqueueServiceNamespace.
DeliverServiceNamespaceToBackend ==
    /\ "backend" \notin snFresh
    /\ snBackend' = sn
    /\ snFresh' = snFresh \cup {"backend"}
    /\ queueB' = TRUE
    /\ UNCHANGED <<konnectorSide, sn, namespace, pnsCache, rb, rbCache, workB,
                   aside, nsOps>>

\* Mutant: the event of a namespace enqueues nothing.
EnqueuesNoNamespace ==
    /\ ~pnsFresh
    /\ pnsCache' = pns
    /\ pnsFresh' = TRUE
    /\ UNCHANGED <<konnectorSide, sn, snBackend, snFresh, pns, rb, rbCache, queueB, workB,
                   aside, nsOps>>

\* enqueueNamespace, by the index of the namespaces that are in a status.
DeliverProviderNamespace ==
    /\ ~pnsFresh
    /\ pnsCache' = pns
    /\ pnsFresh' = TRUE
    /\ queueB' = (queueB \/ snBackend = "ready")
    /\ UNCHANGED <<konnectorSide, sn, snBackend, snFresh, pns, rb, rbCache, workB, aside,
                   nsOps>>

\* No handler waits for RoleBindings.
DeliverRoleBinding ==
    /\ rbCache # rb
    /\ rbCache' = rb
    /\ UNCHANGED <<konnectorSide, sn, snBackend, snFresh, namespace, pnsCache, rb, queueB,
                   workB, aside, nsOps>>

\* The informers' resync; a new ClusterBinding or APIServiceExport does the same.
ResyncBackend ==
    /\ snBackend # "none"
    /\ queueB' = TRUE
    /\ UNCHANGED <<konnectorSide, sn, snBackend, snFresh, namespace, pnsCache, rb, rbCache,
                   workB, aside, nsOps>>

Begin ==
    /\ workB.step = "idle"
    /\ queueB
    /\ queueB' = FALSE
    /\ snFresh' = IF "backend" \in snFresh THEN snFresh \cup {"work"} ELSE snFresh \ {"work"}

\* process: the APIServiceNamespace is gone, and so goes the namespace.
processGone ==
    /\ Begin
    /\ snBackend = "none"
    /\ WriteNamespace(IF pns = "active" THEN "terminating" ELSE pns)
    /\ UNCHANGED <<konnectorSide, sn, snBackend, pnsCache, rb, rbCache, workB, aside, nsOps>>

Finish(err) ==
    /\ workB' = [step |-> "idle", old |-> "none"]
    /\ queueB' = (queueB \/ err)
    /\ UNCHANGED <<konnectorSide, snBackend, pnsCache, rbCache, aside>>

\* reconcile: the namespace is created unless it is known to be there; one that exists
\* already will do, a terminating one too.
reconcileNamespace ==
    /\ Begin
    /\ snBackend # "none"
    /\ WriteNamespace(IF (snBackend = "pending" \/ pnsCache = "none") /\ pns = "none"
                         THEN "active" ELSE pns)
    /\ workB' = [step |-> IF scope = "Namespaced" THEN "rbac" ELSE "commit", old |-> snBackend]
    /\ UNCHANGED <<konnectorSide, sn, snBackend, pnsCache, rb, rbCache, aside, nsOps>>

\* Mutant: the RoleBinding is created only with the namespace.
ensuresOnce ==
    /\ workB.step = "rbac"
    /\ \/ /\ rbCache \/ workB.old = "ready"
          /\ workB' = [workB EXCEPT !.step = "commit"]
          /\ UNCHANGED <<konnectorSide, snBackend, pnsCache, rbCache, queueB, rb, aside>>
       \/ /\ ~rbCache /\ pns = "active" /\ ~rb
          /\ rb' = TRUE
          /\ workB' = [workB EXCEPT !.step = "commit"]
          /\ UNCHANGED <<konnectorSide, snBackend, pnsCache, rbCache, queueB, aside>>
       \/ /\ ~rbCache /\ (pns # "active" \/ rb)
          /\ Finish(TRUE)
          /\ UNCHANGED rb
    /\ UNCHANGED <<sn, snFresh, namespace, nsOps>>

\* ensureRBACRoleBinding: by the cache; the creation fails in a namespace that is gone or
\* terminating, and when the RoleBinding exists already.
ensureRBACRoleBinding ==
    /\ workB.step = "rbac"
    /\ \/ /\ rbCache
          /\ workB' = [workB EXCEPT !.step = "commit"]
          /\ UNCHANGED <<konnectorSide, snBackend, pnsCache, rbCache, queueB, rb, aside>>
       \/ /\ ~rbCache /\ pns = "active" /\ ~rb
          /\ rb' = TRUE
          /\ workB' = [workB EXCEPT !.step = "commit"]
          /\ UNCHANGED <<konnectorSide, snBackend, pnsCache, rbCache, queueB, aside>>
       \/ /\ ~rbCache /\ (pns # "active" \/ rb)
          /\ Finish(TRUE)
          /\ UNCHANGED rb
    /\ UNCHANGED <<sn, snFresh, namespace, nsOps>>

\* commit: a patch of the status for the version that was read.
commitStatus ==
    /\ workB.step = "commit"
    /\ \/ /\ workB.old = "ready"
          /\ UNCHANGED <<sn, snFresh>>
          /\ Finish(FALSE)
       \/ /\ workB.old = "pending" /\ "work" \in snFresh
          /\ WriteSN("ready")
          /\ Finish(FALSE)
       \/ /\ workB.old = "pending" /\ "work" \notin snFresh
          /\ UNCHANGED <<sn, snFresh>>
          /\ Finish(TRUE)
    /\ UNCHANGED <<namespace, rb, nsOps>>

\* A call of the reconcile fails.
BackendCallFails ==
    /\ NSIntervene
    /\ workB.step # "idle"
    /\ Finish(TRUE)
    /\ UNCHANGED <<sn, snFresh, namespace, rb>>

\* A new process lists what there is; nobody tells it of an APIServiceNamespace that is gone.
RestartBackend ==
    /\ NSIntervene
    /\ snBackend' = sn
    /\ snFresh' = (snFresh \ {"work"}) \cup {"backend"}
    /\ pnsCache' = pns
    /\ pnsFresh' = TRUE
    /\ rbCache' = rb
    /\ queueB' = (sn # "none")
    /\ workB' = [step |-> "idle", old |-> "none"]
    /\ lost' = (lost \/ (sn = "none" /\ pns = "active"))
    /\ UNCHANGED <<konnectorSide, sn, pns, rb, scope, access>>

\* The API server has deleted what was in the namespace.
NamespaceTerminated ==
    /\ pns = "terminating"
    /\ WriteNamespace("none")
    /\ rb' = FALSE
    /\ UNCHANGED <<konnectorSide, backendSide, sn, snFresh, aside, nsOps>>

-----------------------------------------------------------------------------
(* The access rights.  A controller that gets every heartbeat of the       *)
(* konnector writes them, and nobody else, so that it never has long to    *)
(* wait for its key and its calls are one step.                            *)

exceptAccess == <<konnectorSide, backendSide, sn, snFresh, namespace, rb, scope, lost>>

ExportChanges ==
    /\ NSIntervene
    /\ access' = [access EXCEPT !.export = ~@]
    /\ UNCHANGED exceptAccess

RoleDeleted ==
    /\ NSIntervene
    /\ access.role # "none"
    /\ access' = [access EXCEPT !.role = "none", !.roleFresh = FALSE]
    /\ UNCHANGED exceptAccess

DeliverExportToBackend ==
    /\ access' = [access EXCEPT !.exportSeen = access.export]
    /\ access' # access
    /\ UNCHANGED <<exceptAccess, nsOps>>

DeliverRBAC ==
    /\ access' = [access EXCEPT !.roleSeen = access.role, !.roleFresh = TRUE,
                                !.crbSeen = access.crb]
    /\ access' # access
    /\ UNCHANGED <<exceptAccess, nsOps>>

expectedRules(a) == IF a.exportSeen THEN "rule" ELSE "empty"

\* Mutant: an existing role is left alone.
CreatesRoleOnly(a) ==
    IF a.roleSeen = "none" /\ a.role = "none"
      THEN [a EXCEPT !.role = expectedRules(a), !.roleFresh = FALSE]
      ELSE a

\* ensureRBACClusterRole: by the copy of the role.  One that exists cannot be created, and a
\* stale copy cannot be written back.
ensureRBACClusterRole(a) ==
    IF \/ a.roleSeen = "none" /\ a.role = "none"
       \/ a.roleSeen \notin {"none", expectedRules(a)} /\ a.roleFresh
      THEN [a EXCEPT !.role = expectedRules(a), !.roleFresh = FALSE]
      ELSE a

\* ensureRBACClusterRoleBinding: outside of the scope Cluster it is deleted first, and
\* created again if the copy says that there was none.
ensureRBACClusterRoleBinding(a) ==
    [a EXCEPT !.crb = IF scope = "Cluster" THEN a.crb \/ ~a.crbSeen ELSE ~a.crbSeen]

\* process, reconcile: each of them, whether the other fails or not.
reconcileAccess ==
    /\ access' = ensureRBACClusterRoleBinding(ensureRBACClusterRole(access))
    /\ UNCHANGED <<exceptAccess, nsOps>>

-----------------------------------------------------------------------------
NSInit ==
    /\ cns = TRUE /\ cnsCache = TRUE
    /\ sn = "none" /\ snCache = "none" /\ snBackend = "none" /\ snFresh = {"konnector", "backend"}
    /\ pns = "none" /\ pnsCache = "none" /\ pnsFresh = TRUE
    /\ rb = FALSE /\ rbCache = FALSE
    /\ scope \in {"Cluster", "Namespaced"}
    /\ access = [export |-> TRUE, exportSeen |-> TRUE, role |-> "rule", roleSeen |-> "rule",
                 roleFresh |-> TRUE, crb |-> scope = "Cluster", crbSeen |-> scope = "Cluster"]
    /\ queueD = FALSE /\ queueB = FALSE
    /\ workB = [step |-> "idle", old |-> "none"]
    /\ lost = FALSE
    /\ nsOps = 0

Deliver == DeliverConsumerNamespace \/ DeliverServiceNamespace \/ DeliverServiceNamespaceToBackend
           \/ DeliverProviderNamespace \/ DeliverRoleBinding

Backend == processGone \/ reconcileNamespace \/ ensureRBACRoleBinding \/ commitStatus

NSNext ==
    \/ ConsumerNamespaceChanges \/ createServiceNamespace \/ Deliver \/ processDeletion
    \/ ResyncBackend \/ Backend \/ BackendCallFails \/ RestartBackend \/ NamespaceTerminated
    \/ ExportChanges \/ RoleDeleted \/ DeliverExportToBackend \/ DeliverRBAC \/ reconcileAccess

NSSpec == NSInit /\ [][NSNext]_nsVars

NSFairness ==
    /\ WF_nsVars(createServiceNamespace) /\ WF_nsVars(processDeletion)
    /\ WF_nsVars(DeliverConsumerNamespace) /\ WF_nsVars(DeliverServiceNamespace)
    /\ WF_nsVars(DeliverServiceNamespaceToBackend) /\ WF_nsVars(DeliverProviderNamespace)
    /\ WF_nsVars(DeliverRoleBinding) /\ WF_nsVars(ResyncBackend)
    /\ WF_nsVars(Backend) /\ WF_nsVars(NamespaceTerminated)
    /\ WF_nsVars(DeliverExportToBackend) /\ WF_nsVars(DeliverRBAC) /\ WF_nsVars(reconcileAccess)

NSFairSpec == NSSpec /\ NSFairness

-----------------------------------------------------------------------------
\* Objects and copies are of their types, and a reconcile is of an APIServiceNamespace that
\* the backend knows.
NSTypeOK ==
    /\ cns \in BOOLEAN /\ cnsCache \in BOOLEAN /\ queueD \in BOOLEAN /\ queueB \in BOOLEAN
    /\ sn \in SNStates /\ snCache \in SNStates /\ snBackend \in SNStates
    /\ snFresh \subseteq {"konnector", "backend", "work"}
    /\ pns \in NSStates /\ pnsCache \in NSStates /\ pnsFresh \in BOOLEAN
    /\ rb \in BOOLEAN /\ rbCache \in BOOLEAN /\ lost \in BOOLEAN
    /\ scope \in {"Cluster", "Namespaced"}
    /\ access \in Access
    /\ workB \in [step : Steps, old : SNStates]
    /\ workB.old = "none" <=> workB.step = "idle"
    /\ nsOps \in 0..MaxNSOps

\* A namespace that the consumer was told of and that is gone is never forgotten: an event
\* of it or of the APIServiceNamespace is under way, or the key is in the queue: it does not
\* depend on a reconcile that is in progress, which has seen older copies.
GoneIsNoticed ==
    sn = "ready" /\ pns = "none" =>
        ~pnsFresh \/ queueB \/ "backend" \notin snFresh

\* Once nobody intervenes a consumer namespace has its counterpart, with the access that
\* its scope needs, and one that was deleted has none, unless the backend crashed before it
\* learnt of the deletion.
CounterpartFollows ==
    <>[](IF cns THEN sn = "ready" /\ pns = "active" /\ (scope = "Namespaced" => rb)
                ELSE sn = "none" /\ (pns = "none" \/ lost))

\* What the consumer may do follows its exports in the end, though the role is compared with
\* a copy that may be stale and nothing but the next heartbeat brings it up again.
AccessFollowsExports ==
    <>[](access.role = (IF access.export THEN "rule" ELSE "empty")
         /\ (scope = "Cluster" => access.crb))
=============================================================================

-------------------------- MODULE KonnectorProofs --------------------------
(***************************************************************************)
(* Proofs about the konnector's controllers: for any number of bindings,   *)
(* Secrets, kubeconfigs and workers, the cluster controllers of module     *)
(* Konnector; then ServiceBindings and ClaimedResources.                   *)
(***************************************************************************)
EXTENDS Konnector, ServiceBindings, ClaimedResources, TLAPS

-----------------------------------------------------------------------------
(* The inductive invariant.                                                *)

\* The map m and the sets of bindings in the contexts cs agree in both directions, a
\* context is cancelled when its set is empty, and live contexts differ in kubeconfig.
Consistent(cs, m) ==
    /\ cs \in Seq(Context)
    /\ m \in [Bindings -> 0..Len(cs)]
    /\ \A b \in Bindings : m[b] # 0 => b \in cs[m[b]].serviceBindings
    /\ \A c \in 1..Len(cs) : \A b \in cs[c].serviceBindings : m[b] = c
    /\ \A c \in 1..Len(cs) : ~cs[c].cancelled <=> cs[c].serviceBindings # {}
    /\ \A c, d \in 1..Len(cs) :
          ~cs[c].cancelled /\ ~cs[d].cancelled /\ cs[c].kubeconfig = cs[d].kubeconfig => c = d

QueueTypeOK ==
    /\ bound \in SUBSET Bindings
    /\ secret \in [Secrets -> Kubeconfigs \cup {NoConfig}]
    /\ queue \in SUBSET Bindings
    /\ reading \in [Bindings -> Kubeconfigs \cup {NoConfig, Idle}]
    /\ ops \in 0..MaxOps

IInv == QueueTypeOK /\ Consistent(contexts, controllers)

\* The members of a context are bindings.
LEMMA ContextTyped ==
    ASSUME NEW cs, NEW m, Consistent(cs, m), NEW c \in 1..Len(cs)
    PROVE  cs[c] \in Context /\ cs[c].serviceBindings \subseteq Bindings
<1>1. cs[c] \in Context
    BY DEF Consistent
<1> QED
    BY <1>1 DEF Context

-----------------------------------------------------------------------------
(* The three things reconcile does to the map.                             *)

\* Leaving a context with another kubeconfig keeps the map consistent, and leaves the
\* binding either without a context or in one with the kubeconfig that was read.
LEMMA LeaveConsistent ==
    ASSUME IInv, NEW b \in Bindings
    PROVE  /\ Consistent(LeftContexts(b), LeftControllers(b))
           /\ Len(LeftContexts(b)) = Len(contexts)
           /\ \A c \in 1..Len(contexts) : LeftContexts(b)[c].kubeconfig = contexts[c].kubeconfig
           /\ LeftControllers(b)[b] # 0 =>
                 contexts[LeftControllers(b)[b]].kubeconfig = reading[b]
<1>1. CASE ~Moved(b)
    BY <1>1 DEF IInv, LeftContexts, LeftControllers, Moved
<1>2. CASE Moved(b)
  <2> DEFINE c == controllers[b]
             old == contexts[c]
             new == Without(old, b)
             cs == [contexts EXCEPT ![c] = new]
             m == [controllers EXCEPT ![b] = 0]
  <2>1. c \in 1..Len(contexts) /\ old \in Context /\ b \in old.serviceBindings
    BY <1>2 DEF IInv, Consistent, Moved
  <2>2. /\ new \in Context
        /\ new.kubeconfig = old.kubeconfig
        /\ new.serviceBindings = old.serviceBindings \ {b}
        /\ new.cancelled <=> (old.cancelled \/ old.serviceBindings \subseteq {b})
    BY <2>1 DEF Context, Without
  <2>3. LeftContexts(b) = cs /\ LeftControllers(b) = m
    BY <1>2 DEF LeftContexts, LeftControllers
  <2> HIDE DEF new
  <2>4. /\ cs \in Seq(Context) /\ Len(cs) = Len(contexts)
        /\ cs[c] = new
        /\ \A d \in 1..Len(contexts) : d # c => cs[d] = contexts[d]
    BY <2>1, <2>2 DEF IInv, Consistent
  <2> HIDE DEF cs, old
  <2>5. m \in [Bindings -> 0..Len(cs)] /\ m[b] = 0 /\ \A x \in Bindings : x # b => m[x] = controllers[x]
    BY <2>4 DEF IInv, Consistent
  <2> HIDE DEF m
  <2>6. \A x \in Bindings : m[x] # 0 => x \in cs[m[x]].serviceBindings
    BY <2>1, <2>2, <2>4, <2>5 DEF IInv, Consistent, old
  <2>7. \A d \in 1..Len(cs) : \A x \in cs[d].serviceBindings : m[x] = d
    <3> SUFFICES ASSUME NEW d \in 1..Len(cs), NEW x \in cs[d].serviceBindings PROVE m[x] = d
      OBVIOUS
    <3>1. CASE d = c
      BY <3>1, <2>1, <2>2, <2>4, <2>5 DEF IInv, Consistent, old, Context
    <3>2. CASE d # c
      <4>1. x \in contexts[d].serviceBindings /\ d \in 1..Len(contexts)
        BY <3>2, <2>4
      <4>2. controllers[x] = d /\ x \in Bindings
        BY <4>1, ContextTyped DEF IInv, Consistent
      <4> QED
        BY <4>2, <3>2, <2>5
    <3> QED
      BY <3>1, <3>2
  <2>8. \A d \in 1..Len(cs) : ~cs[d].cancelled <=> cs[d].serviceBindings # {}
    <3> SUFFICES ASSUME NEW d \in 1..Len(cs)
                 PROVE  ~cs[d].cancelled <=> cs[d].serviceBindings # {}
      OBVIOUS
    <3>1. CASE d = c
      <4>1. ~old.cancelled
        BY <2>1 DEF IInv, Consistent, old
      <4>2. new.cancelled <=> new.serviceBindings = {}
        BY <4>1, <2>1, <2>2
      <4> QED
        BY <3>1, <4>2, <2>4
    <3>2. CASE d # c
      BY <3>2, <2>4 DEF IInv, Consistent
    <3> QED
      BY <3>1, <3>2
  <2>9. \A d, e \in 1..Len(cs) :
          ~cs[d].cancelled /\ ~cs[e].cancelled /\ cs[d].kubeconfig = cs[e].kubeconfig => d = e
    <3>1. \A d \in 1..Len(cs) : /\ cs[d].kubeconfig = contexts[d].kubeconfig
                                /\ ~cs[d].cancelled => ~contexts[d].cancelled
      BY <2>2, <2>4 DEF old
    <3> QED
      BY <3>1, <2>4 DEF IInv, Consistent
  <2>10. \A d \in 1..Len(contexts) : cs[d].kubeconfig = contexts[d].kubeconfig
    BY <2>2, <2>4 DEF old
  <2> QED
    BY <2>3, <2>4, <2>5, <2>6, <2>7, <2>8, <2>9, <2>10 DEF Consistent
<1> QED
    BY <1>1, <1>2

\* Adding a binding to a context of the map keeps the map consistent, when the binding
\* is in no context or in one with the same kubeconfig.
LEMMA JoinConsistent ==
    ASSUME NEW cs, NEW m, Consistent(cs, m), NEW b \in Bindings, NEW c \in 1..Len(cs),
           \E x \in Bindings : m[x] = c,
           m[b] # 0 => cs[m[b]].kubeconfig = cs[c].kubeconfig
    PROVE  Consistent([cs EXCEPT ![c] = With(cs[c], b)], [m EXCEPT ![b] = c])
<1> DEFINE new == With(cs[c], b)
           ds == [cs EXCEPT ![c] = With(cs[c], b)]
           n == [m EXCEPT ![b] = c]
<1>1. cs[c] \in Context /\ ~cs[c].cancelled /\ cs[c].serviceBindings # {}
    BY DEF Consistent
<1>2. m[b] # 0 => m[b] = c
    BY <1>1 DEF Consistent
<1>3. /\ new \in Context /\ new.kubeconfig = cs[c].kubeconfig /\ ~new.cancelled
      /\ new.serviceBindings = cs[c].serviceBindings \cup {b}
    BY <1>1 DEF Context, With
<1>4. /\ ds \in Seq(Context) /\ Len(ds) = Len(cs) /\ ds[c] = new
      /\ \A d \in 1..Len(cs) : d # c => ds[d] = cs[d]
    BY <1>3 DEF Consistent
<1>5. n \in [Bindings -> 0..Len(ds)] /\ n[b] = c /\ \A x \in Bindings : x # b => n[x] = m[x]
    BY <1>4 DEF Consistent
<1> HIDE DEF ds, n, new
<1>6. ASSUME NEW x \in Bindings, n[x] # 0 PROVE x \in ds[n[x]].serviceBindings
    <2>1. CASE x = b
        BY <1>3, <1>4, <1>5, <2>1
    <2>2. CASE x # b
        <3>1. n[x] = m[x] /\ m[x] \in 1..Len(cs) /\ x \in cs[m[x]].serviceBindings
            BY <1>5, <1>6, <2>2 DEF Consistent
        <3> QED
            BY <1>3, <1>4, <3>1
    <2> QED
        BY <2>1, <2>2
<1>7. \A d \in 1..Len(ds) : \A x \in ds[d].serviceBindings : n[x] = d
    <2> SUFFICES ASSUME NEW d \in 1..Len(ds), NEW x \in ds[d].serviceBindings PROVE n[x] = d
      OBVIOUS
    <2>1. CASE d = c
      <3>1. x = b \/ (x \in cs[c].serviceBindings)
        BY <2>1, <1>3, <1>4
      <3>2. x \in cs[c].serviceBindings => x \in Bindings /\ m[x] = c
        BY ContextTyped DEF Consistent
      <3> QED
        BY <2>1, <3>1, <3>2, <1>5
    <2>2. CASE d # c
      <3>1. x \in cs[d].serviceBindings /\ d \in 1..Len(cs)
        BY <2>2, <1>4
      <3>2. m[x] = d /\ x \in Bindings
        BY <3>1, ContextTyped DEF Consistent
      <3> QED
        BY <3>2, <2>2, <1>2, <1>5
    <2> QED
      BY <2>1, <2>2
<1>8. \A d \in 1..Len(ds) : ~ds[d].cancelled <=> ds[d].serviceBindings # {}
    BY <1>3, <1>4 DEF Consistent
<1>9. \A d, e \in 1..Len(ds) :
        ~ds[d].cancelled /\ ~ds[e].cancelled /\ ds[d].kubeconfig = ds[e].kubeconfig => d = e
  <2>1. \A d \in 1..Len(ds) : /\ ds[d].kubeconfig = cs[d].kubeconfig
                              /\ ~ds[d].cancelled => ~cs[d].cancelled
    BY <1>1, <1>3, <1>4
  <2> QED
    BY <2>1, <1>4 DEF Consistent
<1>10. Consistent(ds, n)
    BY <1>4, <1>5, <1>6, <1>7, <1>8, <1>9 DEF Consistent
<1> QED
    BY <1>10 DEF ds, n

\* Creating a context for a binding without one keeps the map consistent, when no
\* context of the map has the kubeconfig.
LEMMA StartConsistent ==
    ASSUME NEW cs, NEW m, Consistent(cs, m), NEW b \in Bindings, m[b] = 0,
           NEW new \in Context, new.serviceBindings = {b}, ~new.cancelled,
           \A c \in 1..Len(cs) : cs[c].kubeconfig = new.kubeconfig => \A x \in Bindings : m[x] # c
    PROVE  Consistent(Append(cs, new), [m EXCEPT ![b] = Len(cs) + 1])
<1> DEFINE ds == Append(cs, new)
           n == [m EXCEPT ![b] = Len(cs) + 1]
<1>1. /\ ds \in Seq(Context) /\ Len(ds) = Len(cs) + 1 /\ ds[Len(cs) + 1] = new
      /\ \A d \in 1..Len(cs) : ds[d] = cs[d]
      /\ Len(cs) \in Nat
    BY DEF Consistent
<1>2. n \in [Bindings -> 0..Len(ds)] /\ n[b] = Len(cs) + 1 /\ \A x \in Bindings : x # b => n[x] = m[x]
    BY <1>1 DEF Consistent
<1> HIDE DEF ds, n
<1>3. \A d \in 1..Len(ds) : d = Len(cs) + 1 \/ d \in 1..Len(cs)
    BY <1>1
<1>4. \A x \in Bindings : n[x] # 0 => x \in ds[n[x]].serviceBindings
    BY <1>1, <1>2 DEF Consistent
<1>5. \A d \in 1..Len(ds) : \A x \in ds[d].serviceBindings : n[x] = d
    <2> SUFFICES ASSUME NEW d \in 1..Len(ds), NEW x \in ds[d].serviceBindings PROVE n[x] = d
      OBVIOUS
    <2>1. CASE d = Len(cs) + 1
      BY <2>1, <1>1, <1>2
    <2>2. CASE d \in 1..Len(cs)
      <3>1. x \in cs[d].serviceBindings
        BY <2>2, <1>1
      <3>2. x \in Bindings /\ m[x] = d
        BY <2>2, <3>1, ContextTyped DEF Consistent
      <3> QED
        BY <2>2, <3>2, <1>2
    <2> QED
      BY <1>3, <2>1, <2>2
<1>6. \A d \in 1..Len(ds) : ~ds[d].cancelled <=> ds[d].serviceBindings # {}
    BY <1>1, <1>3 DEF Consistent
<1>7. \A d \in 1..Len(cs) : ~cs[d].cancelled => cs[d].kubeconfig # new.kubeconfig
    <2> SUFFICES ASSUME NEW d \in 1..Len(cs), ~cs[d].cancelled
                 PROVE  cs[d].kubeconfig # new.kubeconfig
      OBVIOUS
    <2>1. PICK x \in cs[d].serviceBindings : m[x] = d
      BY DEF Consistent
    <2>2. x \in Bindings
      BY <2>1, ContextTyped
    <2> QED
      BY <2>1, <2>2
<1>8. \A d, e \in 1..Len(ds) :
        ~ds[d].cancelled /\ ~ds[e].cancelled /\ ds[d].kubeconfig = ds[e].kubeconfig => d = e
    BY <1>1, <1>3, <1>7 DEF Consistent
<1>9. Consistent(ds, n)
    BY <1>1, <1>2, <1>4, <1>5, <1>6, <1>8 DEF Consistent
<1> QED
    BY <1>9 DEF ds, n

-----------------------------------------------------------------------------
(* Every step preserves the inductive invariant.                           *)

\* A new process starts with a consistent, empty map.
LEMMA ResetConsistent ==
    Consistent(<<>>, [b \in Bindings |-> 0])
BY DEF Consistent

\* The ways in which a reconcile can end.
LEMMA ReconcileStep ==
    ASSUME IInv, NEW b \in Bindings, Reconcile(b)
    PROVE  IInv'
<1> USE KonnectorAssumption DEF environment
<1> DEFINE cs == LeftContexts(b)
           m == LeftControllers(b)
<1>1. /\ Consistent(cs, m) /\ Len(cs) = Len(contexts)
      /\ \A c \in 1..Len(contexts) : cs[c].kubeconfig = contexts[c].kubeconfig
      /\ m[b] # 0 => m[b] \in 1..Len(contexts) /\ contexts[m[b]].kubeconfig = reading[b]
    BY LeaveConsistent DEF Consistent
<1>2. QueueTypeOK'
    BY DEF Reconcile, ReconcileNone, ReconcileJoin, ReconcileStart, ReconcileStartFails, IInv,
           QueueTypeOK
<1>3. Consistent(contexts', controllers')
  <2>1. CASE ReconcileNone(b)
    BY <2>1, <1>1 DEF ReconcileNone
  <2>2. CASE ReconcileJoin(b)
    <3>1. PICK c \in Existing(b) : /\ contexts' = [cs EXCEPT ![c] = With(cs[c], b)]
                                   /\ controllers' = [m EXCEPT ![b] = c]
      BY <2>2 DEF ReconcileJoin
    <3>2. c \in 1..Len(cs) /\ cs[c].kubeconfig = reading[b] /\ \E x \in Bindings : m[x] = c
      BY <1>1 DEF Existing
    <3>3. m[b] # 0 => cs[m[b]].kubeconfig = cs[c].kubeconfig
      BY <1>1, <3>2
    <3> HIDE DEF cs, m
    <3> QED
      BY <1>1, <3>1, <3>2, <3>3, JoinConsistent
  <2>3. ASSUME NEW started \in BOOLEAN, reading[b] \in Valid, Existing(b) = {},
               contexts' = Append(cs, NewContext(b, started)),
               controllers' = [m EXCEPT ![b] = Len(contexts) + 1]
        PROVE  Consistent(contexts', controllers')
    <3>1. /\ NewContext(b, started) \in Context
          /\ NewContext(b, started).serviceBindings = {b}
          /\ ~NewContext(b, started).cancelled
          /\ NewContext(b, started).kubeconfig = reading[b]
      BY <2>3 DEF NewContext, Context
    <3>2. \A c \in 1..Len(cs) : cs[c].kubeconfig = reading[b] => \A x \in Bindings : m[x] # c
      BY <2>3, <1>1 DEF Existing
    <3>3. m[b] = 0
      BY <3>2, <1>1
    <3> HIDE DEF cs, m
    <3> QED
      BY <2>3, <1>1, <3>1, <3>2, <3>3, StartConsistent
  <2>4. CASE ReconcileStart(b)
    BY <2>4, <2>3 DEF ReconcileStart
  <2>5. CASE ReconcileStartFails(b)
    BY <2>5, <2>3 DEF ReconcileStartFails
  <2> QED
    BY <2>1, <2>2, <2>4, <2>5 DEF Reconcile
<1> QED
    BY <1>2, <1>3 DEF IInv

\* Every step of the konnector and its environment.
LEMMA NextStep == IInv /\ [Next]_vars => IInv'
<1> SUFFICES ASSUME IInv, [Next]_vars PROVE IInv'
    OBVIOUS
<1> USE KonnectorAssumption DEF environment, vars
<1>1. ASSUME NEW b \in Bindings, Bind(b) \/ Unbind(b) PROVE IInv'
    BY <1>1 DEF Bind, Unbind, Intervene, IInv, QueueTypeOK
<1>2. ASSUME NEW s \in Secrets, NEW k \in Kubeconfigs \cup {NoConfig}, ChangeSecret(s, k) PROVE IInv'
    BY <1>2 DEF ChangeSecret, EnqueueSecret, Intervene, IInv, QueueTypeOK
<1>3. ASSUME NEW b \in Bindings, ProcessGone(b) \/ ReadSecret(b) PROVE IInv'
    BY <1>3 DEF ProcessGone, ReadSecret, IInv, QueueTypeOK
<1>4. ASSUME Reset, ops' \in 0..MaxOps PROVE IInv'
  <2>1. QueueTypeOK'
    BY <1>4 DEF Reset, IInv, QueueTypeOK
  <2>2. Consistent(contexts', controllers')
    BY <1>4, ResetConsistent DEF Reset
  <2> QED
    BY <2>1, <2>2 DEF IInv
<1>5. ASSUME NEW c \in 1..Len(contexts), CallbackPanics(c) PROVE IInv'
    BY <1>4, <1>5 DEF CallbackPanics, IInv, QueueTypeOK
<1>6. CASE Restart
    BY <1>4, <1>6 DEF Restart, Intervene, IInv, QueueTypeOK
<1>7. CASE UNCHANGED vars
    BY <1>7 DEF IInv, QueueTypeOK
<1> QED
    BY <1>1, <1>2, <1>3, <1>5, <1>6, <1>7, ReconcileStep DEF Next

\* The inductive invariant holds in every reachable state.
LEMMA Invariance == Spec => []IInv
<1>1. Init => IInv
    BY ResetConsistent, KonnectorAssumption DEF Init, IInv, QueueTypeOK
<1> QED
    BY <1>1, NextStep, PTL DEF Spec

-----------------------------------------------------------------------------
(* The theorems.                                                           *)

\* The konnector's state is well typed: no map entry refers to a context that was never
\* created.
THEOREM TypeCorrect == Spec => []TypeOK
<1>1. IInv => TypeOK
    BY DEF IInv, QueueTypeOK, Consistent, TypeOK
<1> QED
    BY <1>1, Invariance, PTL

\* However kubeconfigs are rotated and bindings come and go, there is at most one
\* running cluster controller for a kubeconfig.
THEOREM SingleController == Spec => []OneControllerPerKubeconfig
<1>1. IInv => OneControllerPerKubeconfig
    BY DEF IInv, Consistent, OneControllerPerKubeconfig, Live
<1> QED
    BY <1>1, Invariance, PTL

\* A controller is stopped when, and only when, the last binding has left it.
THEOREM StopsWhenUnused == Spec => []StoppedWhenUnused
<1>1. IInv => StoppedWhenUnused
    BY DEF IInv, Consistent, StoppedWhenUnused, Live
<1> QED
    BY <1>1, Invariance, PTL

-----------------------------------------------------------------------------
(* ServiceBindings: the two controllers of an APIServiceBinding.  Nothing  *)
(* is assumed of its constants.  First, the CRD.                           *)

\* The fields of a worker, whatever is in them.
IsBindingWork(w) ==
    w = [f \in {"step", "uid", "old", "current", "status", "spec", "currentCRD", "err"} |-> w[f]]

\* The CRD has its fields; the copy of it is the stored one unless an event is still to come;
\* and an update that will meet no conflict is of a CRD that the binding owns.
CRDInv ==
    /\ IsBindingWork(bindingWork)
    /\ crd # Nothing => crd = [f \in {"spec", "owner", "stored"} |-> crd[f]]
    /\ ~staleCRD => crdCache = crd
    /\ bindingWork.step = "update" /\ bindingWork.currentCRD =>
          crd # Nothing /\ crd.owner = bindingWork.uid

\* What a step may do to a CRD.
CRDStep ==
    crd # Nothing /\ crd' # Nothing /\ crd'.spec # crd.spec =>
        crd.owner = bindingWork.uid /\ crd'.owner = crd.owner

LEMMA IdleBindingShape == IsBindingWork(IdleWorker) /\ IdleWorker.step = "idle" /\ IdleWorker.current = FALSE
  BY DEF IsBindingWork, IdleWorker

LEMMA OutdatedKeeps ==
    ASSUME NEW w, IsBindingWork(w)
    PROVE  /\ IsBindingWork(Outdated(w)) /\ Outdated(w).step = w.step /\ Outdated(w).uid = w.uid
           /\ Outdated(w).currentCRD = w.currentCRD /\ Outdated(w).old = w.old
           /\ Outdated(w).status = w.status /\ Outdated(w).current = FALSE
  BY DEF IsBindingWork, Outdated

LEMMA NotConnectedKeeps ==
    ASSUME NEW w, IsBindingWork(w), NEW reason
    PROVE  LET u == NotConnected(w, reason) IN
           /\ IsBindingWork(u) /\ u.step = w.step /\ u.uid = w.uid /\ u.old = w.old
           /\ u.current = w.current
           /\ u.status = MarkFalse(w.status, "Connected", reason, "Error")
<1> DEFINE verdict == MarkFalse(w.status, "Connected", reason, "Error")
<1>1. NotConnected(w, reason) = [w EXCEPT !.status = verdict]
  BY DEF NotConnected
<1> HIDE DEF verdict
<1>2. LET u == [w EXCEPT !.status = verdict] IN
      /\ IsBindingWork(u) /\ u.step = w.step /\ u.uid = w.uid /\ u.old = w.old
      /\ u.current = w.current /\ u.status = verdict
  BY DEF IsBindingWork
<1> QED
  BY <1>1, <1>2 DEF verdict

\* A reconcile that reads its caches: it makes the call that updates only for a CRD of its own.
LEMMA ProcessBindingWork ==
    ASSUME ProcessBinding
    PROVE  /\ IsBindingWork(bindingWork')
           /\ bindingWork'.step = "update" =>
                 /\ bindingWork'.currentCRD = ~staleCRD
                 /\ crdCache # Nothing /\ crdCache.owner = bindingWork'.uid
<1> DEFINE begun == StartWork(bindingCache.status)
           valid == Connected(begun)
           call(step) == [valid EXCEPT !.step = step, !.spec = ServiceExportToCRD(exportCache),
                                       !.currentCRD = ~staleCRD]
<1>1. IsBindingWork(begun) /\ begun.step = "commit"
  <2> DEFINE st == bindingCache.status  id == bindingCache.uid
  <2>1. begun = [IdleWorker EXCEPT !.step = "commit", !.uid = id, !.old = st,
                            !.current = ~staleBinding, !.status = st]
    BY DEF StartWork
  <2> HIDE DEF st, id
  <2> QED
    BY <2>1 DEF IdleWorker, IsBindingWork
<1> HIDE DEF begun
<1>2. IsBindingWork(valid) /\ valid.step = "commit"
  <2> DEFINE st == MarkTrue(begun.status, "Connected")
  <2>1. valid = [begun EXCEPT !.status = st]
    BY DEF Connected
  <2> HIDE DEF st, valid
  <2> QED
    BY <1>1, <2>1 DEF IsBindingWork
<1> HIDE DEF valid
<1>3. CASE bindingCache = Nothing
  BY <1>3, IdleBindingShape DEF ProcessBinding
<1>4. CASE bindingCache # Nothing /\ exportCache = Nothing
  <2>1. bindingWork' = NotConnected(begun, "APIServiceExportNotFound")
    BY <1>4 DEF ProcessBinding, begun
  <2> QED
    BY <1>1, <2>1, NotConnectedKeeps
<1>5. CASE bindingCache # Nothing /\ exportCache # Nothing
  <2>1. bindingWork' = ensureCRDs(valid)
    BY <1>5 DEF ProcessBinding, begun, valid
  <2>2. CASE crdCache = Nothing
    <3>1. bindingWork' = call("create")
      BY <2>1, <2>2 DEF ensureCRDs
    <3> QED
      BY <1>2, <3>1 DEF IsBindingWork
  <2>3. CASE crdCache # Nothing /\ ~IsOwnedByBinding(valid.uid, crdCache)
    <3>1. bindingWork' = NotConnected(valid, "ForeignCustomResourceDefinition")
      BY <2>1, <2>3 DEF ensureCRDs
    <3> QED
      BY <1>2, <3>1, NotConnectedKeeps
  <2>4. CASE crdCache # Nothing /\ IsOwnedByBinding(valid.uid, crdCache)
    <3>1. bindingWork' = call("update")
      BY <2>1, <2>4 DEF ensureCRDs
    <3>2. /\ IsBindingWork(bindingWork') /\ bindingWork'.uid = valid.uid
          /\ bindingWork'.currentCRD = ~staleCRD
      BY <1>2, <3>1 DEF IsBindingWork
    <3> QED
      BY <2>4, <3>2 DEF IsOwnedByBinding
  <2> QED
    BY <2>2, <2>3, <2>4
<1> QED
  BY <1>3, <1>4, <1>5

\* The calls of createCRD and updateCRD end in a commit.
LEMMA CRDCallWork ==
    ASSUME CRDInv, createCRD \/ updateCRD \/ CRDCallFails
    PROVE  /\ IsBindingWork(bindingWork') /\ bindingWork'.step = "commit"
           /\ bindingWork'.old = bindingWork.old /\ bindingWork'.current = bindingWork.current
           /\ \/ bindingWork'.status = bindingWork.status
              \/ \E reason : bindingWork'.status =
                                MarkFalse(bindingWork.status, "Connected", reason, "Error")
<1> DEFINE done == [bindingWork EXCEPT !.step = "commit"]
           failed == [done EXCEPT !.err = TRUE]
<1>1. /\ IsBindingWork(done) /\ done.step = "commit" /\ done.old = bindingWork.old
      /\ done.current = bindingWork.current /\ done.status = bindingWork.status
  BY DEF CRDInv, IsBindingWork
<1>2. \/ bindingWork' = done
      \/ bindingWork' = failed
      \/ \E b : bindingWork' = [bindingWork EXCEPT !.step = "commit", !.err = b]
      \/ \E reason : bindingWork' = NotConnected(done, reason)
  <2> HIDE DEF done
  <2>1. CASE createCRD
    BY <2>1 DEF createCRD, done
  <2>2. CASE updateCRD
    BY <2>2 DEF updateCRD, done
  <2>3. CASE CRDCallFails
    BY <2>3 DEF CRDCallFails
  <2> QED
    BY <2>1, <2>2, <2>3
<1>3. ASSUME NEW b, bindingWork' = [bindingWork EXCEPT !.step = "commit", !.err = b]
      PROVE  /\ IsBindingWork(bindingWork') /\ bindingWork'.step = "commit"
             /\ bindingWork'.old = bindingWork.old /\ bindingWork'.current = bindingWork.current
             /\ bindingWork'.status = bindingWork.status
  BY <1>3 DEF CRDInv, IsBindingWork
<1> HIDE DEF done
<1>4. CASE bindingWork' = failed
  BY <1>1, <1>4 DEF IsBindingWork
<1>5. ASSUME NEW reason, bindingWork' = NotConnected(done, reason)
      PROVE  /\ IsBindingWork(bindingWork') /\ bindingWork'.step = "commit"
             /\ bindingWork'.old = bindingWork.old /\ bindingWork'.current = bindingWork.current
             /\ bindingWork'.status = MarkFalse(bindingWork.status, "Connected", reason, "Error")
  BY <1>1, <1>5, NotConnectedKeeps
<1> QED
  BY <1>1, <1>2, <1>3, <1>4, <1>5

\* Every step that leaves the CRD and the call in progress as they are.
LEMMA CRDAside ==
    ASSUME CRDInv, crd' = crd, IsBindingWork(bindingWork'),
           UNCHANGED <<crdCache, staleCRD>> \/ crdCache' = crd,
           \/ bindingWork'.step # "update"
           \/ /\ bindingWork'.step = bindingWork.step /\ bindingWork'.uid = bindingWork.uid
              /\ bindingWork'.currentCRD = bindingWork.currentCRD
    PROVE  CRDInv' /\ CRDStep
  BY DEF CRDInv, CRDStep
\* The steps of the users, the informers and the controllers, one by one.
LEMMA CRDUsers ==
    ASSUME CRDInv, Users
    PROVE  CRDInv' /\ CRDStep
<1>1. CASE UserBind
  BY <1>1, CRDAside DEF UserBind, caches, CRDInv
<1>2. CASE UserUnbind
  BY <1>2, CRDAside, OutdatedKeeps DEF UserUnbind, caches, CRDInv
<1>3. ASSUME NEW content \in Contents, UserSecret(content) PROVE CRDInv' /\ CRDStep
  BY <1>3, CRDAside DEF UserSecret, caches, CRDInv
<1>4. CASE UserCRD
  <2>1. /\ crd' = IF crd = Nothing THEN [spec |-> Nothing, owner |-> 0, stored |-> {}] ELSE Nothing
        /\ staleCRD' = TRUE
        /\ bindingWork' = [bindingWork EXCEPT !.currentCRD = FALSE]
    BY <1>4 DEF UserCRD, StoreCRD
  <2>2. IsBindingWork(bindingWork') /\ bindingWork'.currentCRD = FALSE
    BY <2>1 DEF CRDInv, IsBindingWork
  <2> QED
    BY <2>1, <2>2 DEF CRDInv, CRDStep
<1>5. ASSUME NEW new \in Exports \cup {Nothing}, ProviderExport(new) PROVE CRDInv' /\ CRDStep
  BY <1>5, CRDAside DEF ProviderExport, caches, CRDInv
<1> QED
  BY <1>1, <1>2, <1>3, <1>4, <1>5 DEF Users

LEMMA CRDInformers ==
    ASSUME CRDInv, DeliverBinding \/ DeliverSecret \/ DeliverExport \/ DeliverCRD \/ InformersResync \/ KonnectorRestarts
    PROVE  CRDInv' /\ CRDStep
<1>1. CASE DeliverBinding
  BY <1>1, CRDAside DEF DeliverBinding, CRDInv
<1>2. CASE DeliverSecret
  BY <1>2, CRDAside DEF DeliverSecret, CRDInv
<1>3. CASE DeliverExport
  BY <1>3, CRDAside DEF DeliverExport, CRDInv
<1>4. CASE DeliverCRD
  BY <1>4, CRDAside DEF DeliverCRD, CRDInv
<1>5. CASE InformersResync
  BY <1>5, CRDAside DEF InformersResync, caches, CRDInv
<1>6. CASE KonnectorRestarts
  BY <1>6, CRDAside, IdleBindingShape DEF KonnectorRestarts
<1> QED
  BY <1>1, <1>2, <1>3, <1>4, <1>5, <1>6

LEMMA CRDControllers ==
    ASSUME CRDInv, SecretController \/ BindingController
    PROVE  CRDInv' /\ CRDStep
<1>1. CASE ProcessSecret
  BY <1>1, CRDAside DEF ProcessSecret, caches, CRDInv
<1>2. CASE commitSecret
  <2>1. bindingWork' = bindingWork \/ bindingWork' = Outdated(bindingWork)
    BY <1>2 DEF commitSecret
  <2> QED
    BY <1>2, <2>1, CRDAside, OutdatedKeeps DEF commitSecret, caches, CRDInv
<1>3. CASE ProcessBinding
  BY <1>3, ProcessBindingWork DEF ProcessBinding, caches, CRDInv, CRDStep
<1>4. CASE createCRD
  <2>1. IsBindingWork(bindingWork') /\ bindingWork'.step = "commit"
    BY <1>4, CRDCallWork
  <2>2. \/ crd = Nothing /\ staleCRD' = TRUE
           /\ crd' = [spec |-> bindingWork.spec, owner |-> bindingWork.uid,
                      stored |-> {bindingWork.spec.storage}]
        \/ UNCHANGED <<crd, staleCRD>>
    BY <1>4 DEF createCRD, StoreCRD
  <2>3. crdCache' = crdCache
    BY <1>4 DEF createCRD, caches
  <2> QED
    BY <2>1, <2>2, <2>3 DEF CRDInv, CRDStep
<1>5. CASE updateCRD
  <2>1. IsBindingWork(bindingWork') /\ bindingWork'.step = "commit"
    BY <1>5, CRDCallWork
  <2> DEFINE all == crd.stored \cup {bindingWork.spec.storage}
  <2>2. \/ /\ bindingWork.step = "update" /\ bindingWork.currentCRD /\ staleCRD' = TRUE
           /\ crd' = [crd EXCEPT !.spec = bindingWork.spec, !.stored = all]
        \/ UNCHANGED <<crd, staleCRD>>
    BY <1>5 DEF updateCRD, StoreCRD
  <2> HIDE DEF all
  <2>3. crdCache' = crdCache
    BY <1>5 DEF updateCRD, caches
  <2>4. CASE /\ bindingWork.step = "update" /\ bindingWork.currentCRD /\ staleCRD' = TRUE
             /\ crd' = [crd EXCEPT !.spec = bindingWork.spec, !.stored = all]
    <3>1. crd # Nothing /\ crd.owner = bindingWork.uid
      BY <2>4 DEF CRDInv
    <3>2. crd' = [f \in {"spec", "owner", "stored"} |-> crd'[f]] /\ crd'.owner = crd.owner
      BY <2>4, <3>1 DEF CRDInv
    <3> QED
      BY <2>1, <2>4, <3>1, <3>2 DEF CRDInv, CRDStep
  <2>5. CASE UNCHANGED <<crd, staleCRD>>
    BY <2>1, <2>3, <2>5 DEF CRDInv, CRDStep
  <2> QED
    BY <2>2, <2>4, <2>5
<1>6. CASE commitBinding
  BY <1>6, CRDAside, IdleBindingShape DEF commitBinding, caches, CRDInv
<1> QED
  BY <1>1, <1>2, <1>3, <1>4, <1>5, <1>6 DEF SecretController, BindingController

LEMMA CRDFailures ==
    ASSUME CRDInv, CRDCallFails \/ ensurePrettyNameFails \/ CommitFails
    PROVE  CRDInv' /\ CRDStep
<1>1. CASE CRDCallFails
  BY <1>1, CRDCallWork, CRDAside DEF CRDCallFails, caches
<1>2. CASE ensurePrettyNameFails
  <2>1. bindingWork.step = "commit" /\ bindingWork' = [bindingWork EXCEPT !.err = TRUE]
    BY <1>2 DEF ensurePrettyNameFails
  <2>2. IsBindingWork(bindingWork') /\ bindingWork'.step = "commit"
    BY <2>1 DEF CRDInv, IsBindingWork
  <2> QED
    BY <1>2, <2>2, CRDAside DEF ensurePrettyNameFails, caches
<1>3. CASE CommitFails
  <2>1. bindingWork' = bindingWork \/ bindingWork' = IdleWorker
    BY <1>3 DEF CommitFails
  <2> QED
    BY <1>3, <2>1, CRDAside, IdleBindingShape DEF CommitFails, caches, CRDInv
<1> QED
  BY <1>1, <1>2, <1>3

OtherWriters == Start \/ ClusterBindingCommitted \/ ClusterBindingCommitFails

LEMMA CRDOthers ==
    ASSUME CRDInv, OtherWriters
    PROVE  CRDInv' /\ CRDStep
<1>1. bindingWork' = Outdated(bindingWork) /\ UNCHANGED <<caches, crd, staleCRD>>
  BY DEF OtherWriters, Start, ClusterBindingCommitted, ClusterBindingCommitFails,
         updateServiceBindings
<1> QED
  BY <1>1, CRDAside, OutdatedKeeps DEF caches, CRDInv

\* Whatever the copies that ensureCRDs looks at, and whatever happens between its look and its
\* call: the schema of a CRD is only replaced by the binding that owns it, and the owner stays
\* (servicebinding_reconcile.go, ensureCRDs).
THEOREM NoForeignCRD == SBSpec => ForeignCRDsAreKept
<1>1. SBInit => CRDInv
  BY IdleBindingShape DEF SBInit, CRDInv
<1>2. CRDInv /\ [SBNext]_sbVars => CRDInv' /\ CRDStep
  <2> SUFFICES ASSUME CRDInv, [SBNext]_sbVars PROVE CRDInv' /\ CRDStep
    OBVIOUS
  <2>1. CASE UNCHANGED sbVars
    BY <2>1 DEF sbVars, CRDInv, CRDStep
  <2> QED
    BY <2>1, CRDUsers, CRDInformers, CRDControllers, CRDFailures, CRDOthers DEF SBNext, OtherWriters
<1>3. CRDStep => [crd # Nothing /\ crd' # Nothing /\ crd'.spec # crd.spec =>
                     crd.owner = bindingWork.uid /\ crd'.owner = crd.owner]_sbVars
  BY DEF CRDStep
<1> QED
  BY <1>1, <1>2, <1>3, PTL DEF SBSpec, ForeignCRDsAreKept

-----------------------------------------------------------------------------
(* ServiceBindings: the conditions.                                        *)

\* A list of conditions holds something for every type.
IsConditions(s) == s = [type \in Range(Types) \cup {ReadyCondition} |-> s[type]]

SameBut(type, s, t) == \A other \in Range(Types) \ {type} : t[other] = s[other]

IsBinding(b) == b = [f \in {"uid", "status"} |-> b[f]] /\ IsConditions(b.status)

\* A worker changes one condition of the copy it has read, and when its version is current
\* that copy is the stored one.
Changes(w, type, b) ==
    /\ IsBindingWork(w)
    /\ w.step # "idle" =>
          IsConditions(w.old) /\ IsConditions(w.status) /\ SameBut(type, w.old, w.status)
    /\ w.current = TRUE => w.step # "idle" /\ b # Nothing /\ w.old = b.status

ConditionsInv ==
    /\ binding # Nothing => IsBinding(binding)
    /\ bindingCache # Nothing => IsBinding(bindingCache)
    /\ ~staleBinding => bindingCache = binding
    /\ Changes(secretWork, "SecretValid", binding)
    /\ Changes(bindingWork, "Connected", binding)

\* What a step may do to the conditions of a binding.
ConditionsStep ==
    binding # Nothing /\ binding' # Nothing /\ binding.uid = binding'.uid =>
        \E type \in Range(Types) :
           /\ \A other \in Range(Types) \ {type} : binding'.status[other] = binding.status[other]
           /\ binding'.status # binding.status =>
                 /\ type = "SecretValid" => secretWork.step = "commit"
                 /\ type = "Connected" => bindingWork.step = "commit"

LEMMA TypesAre ==
    /\ Range(Types) = {"Connected", "Heartbeating", "InformersSynced", "SecretValid"}
    /\ ReadyCondition \notin Range(Types)
<1>1. DOMAIN Types = {1, 2, 3, 4}
  BY DEF Types
<1>2. /\ Types[1] = "Connected" /\ Types[2] = "Heartbeating"
      /\ Types[3] = "InformersSynced" /\ Types[4] = "SecretValid"
  BY DEF Types
<1>3. Range(Types) = {"Connected", "Heartbeating", "InformersSynced", "SecretValid"}
  BY <1>1, <1>2 DEF Range
<1> QED
  BY <1>3 DEF ReadyCondition

LEMMA MarkKeeps ==
    ASSUME NEW s, IsConditions(s), NEW type \in Range(Types), NEW c
    PROVE  IsConditions(Set(s, type, c)) /\ SameBut(type, s, Set(s, type, c))
  BY DEF IsConditions, SameBut, Set

\* The summary changes Ready, if anything.
LEMMA SummaryKeeps ==
    ASSUME NEW s, IsConditions(s)
    PROVE  /\ IsConditions(SetSummary(s, Types))
           /\ \A type \in Range(Types) : SetSummary(s, Types)[type] = s[type]
<1> DEFINE top == merge(s, InScope(s, Types))
<1>1. SetSummary(s, Types) = s \/ SetSummary(s, Types) = [s EXCEPT ![ReadyCondition] = top]
  BY DEF SetSummary, Set
<1> HIDE DEF top
<1> QED
  BY <1>1, TypesAre DEF IsConditions

LEMMA IdleChanges == ASSUME NEW type, NEW b PROVE Changes(IdleWorker, type, b)
  BY IdleBindingShape DEF Changes

LEMMA OutdatedChanges ==
    ASSUME NEW w, NEW type, NEW b, NEW c, Changes(w, type, b)
    PROVE  Changes(Outdated(w), type, c)
  BY OutdatedKeeps DEF Changes

\* A step that leaves the binding alone.
LEMMA ConditionsAside ==
    ASSUME ConditionsInv, binding' = binding,
           UNCHANGED <<bindingCache, staleBinding>> \/ bindingCache' = binding,
           Changes(secretWork', "SecretValid", binding), Changes(bindingWork', "Connected", binding)
    PROVE  ConditionsInv' /\ ConditionsStep
<1>1. ConditionsInv'
  BY DEF ConditionsInv
<1>2. "Connected" \in Range(Types)
  BY TypesAre
<1> QED
  BY <1>1, <1>2 DEF ConditionsStep

\* A step that writes conditions, all but one of them as they were.
LEMMA ConditionsWritten ==
    ASSUME ConditionsInv, binding # Nothing, NEW new, NEW type \in Range(Types),
           binding' = [binding EXCEPT !.status = new], staleBinding' = TRUE,
           bindingCache' = bindingCache,
           IsConditions(new), SameBut(type, binding.status, new),
           type = "SecretValid" => secretWork.step = "commit",
           type = "Connected" => bindingWork.step = "commit",
           secretWork' = IdleWorker \/ secretWork' = Outdated(secretWork),
           bindingWork' = IdleWorker \/ bindingWork' = Outdated(bindingWork)
    PROVE  ConditionsInv' /\ ConditionsStep
<1>1. IsBinding(binding') /\ binding'.status = new
  BY DEF ConditionsInv, IsBinding
<1>2. Changes(secretWork', "SecretValid", binding') /\ Changes(bindingWork', "Connected", binding')
  BY IdleChanges, OutdatedChanges DEF ConditionsInv
<1>3. ConditionsInv'
  BY <1>1, <1>2 DEF ConditionsInv
<1>4. ConditionsStep
  BY <1>1 DEF ConditionsStep, SameBut
<1> QED
  BY <1>3, <1>4

LEMMA ConditionsUsers ==
    ASSUME ConditionsInv, Users
    PROVE  ConditionsInv' /\ ConditionsStep
<1>1. CASE UserBind
  <2>1. /\ binding = Nothing /\ binding' = [uid |-> created + 1, status |-> NoStatus]
        /\ staleBinding' = TRUE /\ UNCHANGED <<bindingCache, secretWork, bindingWork>>
    BY <1>1 DEF UserBind, StoreBinding, caches
  <2>2. IsConditions(NoStatus)
    BY DEF NoStatus, IsConditions
  <2>3. IsBinding(binding')
    BY <2>1, <2>2 DEF IsBinding
  <2>4. Changes(secretWork', "SecretValid", binding') /\ Changes(bindingWork', "Connected", binding')
    BY <2>1 DEF ConditionsInv, Changes
  <2> QED
    BY <2>1, <2>3, <2>4 DEF ConditionsInv, ConditionsStep
<1>2. CASE UserUnbind
  <2>1. /\ binding' = Nothing /\ staleBinding' = TRUE /\ bindingCache' = bindingCache
        /\ secretWork' = Outdated(secretWork) /\ bindingWork' = Outdated(bindingWork)
    BY <1>2 DEF UserUnbind, StoreBinding, caches
  <2>2. Changes(secretWork', "SecretValid", binding') /\ Changes(bindingWork', "Connected", binding')
    BY <2>1, OutdatedChanges DEF ConditionsInv
  <2> QED
    BY <2>1, <2>2 DEF ConditionsInv, ConditionsStep
<1>3. ASSUME NEW content \in Contents, UserSecret(content) PROVE ConditionsInv' /\ ConditionsStep
  BY <1>3, ConditionsAside DEF UserSecret, caches, ConditionsInv
<1>4. CASE UserCRD
  <2>1. bindingWork' = [bindingWork EXCEPT !.currentCRD = FALSE]
    BY <1>4 DEF UserCRD
  <2>2. Changes(bindingWork', "Connected", binding)
    BY <2>1 DEF ConditionsInv, Changes, IsBindingWork
  <2> QED
    BY <1>4, <2>2, ConditionsAside DEF UserCRD, caches, ConditionsInv
<1>5. ASSUME NEW new \in Exports \cup {Nothing}, ProviderExport(new) PROVE ConditionsInv' /\ ConditionsStep
  BY <1>5, ConditionsAside DEF ProviderExport, caches, ConditionsInv
<1> QED
  BY <1>1, <1>2, <1>3, <1>4, <1>5 DEF Users

LEMMA ConditionsInformers ==
    ASSUME ConditionsInv,
           DeliverBinding \/ DeliverSecret \/ DeliverExport \/ DeliverCRD \/ InformersResync \/ KonnectorRestarts
    PROVE  ConditionsInv' /\ ConditionsStep
<1>1. CASE DeliverBinding
  BY <1>1, ConditionsAside DEF DeliverBinding, ConditionsInv
<1>2. CASE DeliverSecret
  BY <1>2, ConditionsAside DEF DeliverSecret, ConditionsInv
<1>3. CASE DeliverExport
  BY <1>3, ConditionsAside DEF DeliverExport, ConditionsInv
<1>4. CASE DeliverCRD
  BY <1>4, ConditionsAside DEF DeliverCRD, ConditionsInv
<1>5. CASE InformersResync
  BY <1>5, ConditionsAside DEF InformersResync, caches, ConditionsInv
<1>6. CASE KonnectorRestarts
  BY <1>6, ConditionsAside, IdleChanges DEF KonnectorRestarts
<1> QED
  BY <1>1, <1>2, <1>3, <1>4, <1>5, <1>6

\* What a worker commits, when its copy is current.
LEMMA Committed ==
    ASSUME NEW w, NEW type \in Range(Types), Changes(w, type, binding), w.current
    PROVE  /\ binding # Nothing /\ IsConditions(Outcome(w))
           /\ SameBut(type, binding.status, Outcome(w))
<1>1. /\ IsConditions(w.status) /\ SameBut(type, binding.status, w.status) /\ binding # Nothing
  BY DEF Changes
<1> QED
  BY <1>1, SummaryKeeps DEF Outcome, SameBut

\* Reconcile with a changed status.
LEMMA ReconcileChanges ==
    ASSUME ConditionsInv, bindingCache # Nothing, NEW type \in Range(Types), NEW status,
           IsConditions(status), SameBut(type, bindingCache.status, status)
    PROVE  /\ Changes(StartWork(status), type, binding)
           /\ StartWork(status).step = "commit" /\ StartWork(status).status = status
<1> DEFINE w == StartWork(status)  id == bindingCache.uid  old == bindingCache.status
<1>1. w = [IdleWorker EXCEPT !.step = "commit", !.uid = id, !.old = old,
                       !.current = ~staleBinding, !.status = status]
  BY DEF StartWork
<1>2. IsConditions(old)
  BY DEF ConditionsInv, IsBinding
<1>3. ~staleBinding => binding # Nothing /\ old = binding.status
  BY DEF ConditionsInv
<1>4. SameBut(type, old, status)
  OBVIOUS
<1> HIDE DEF w, id, old
<1>5. /\ IsBindingWork(w) /\ w.step = "commit" /\ w.old = old /\ w.status = status
      /\ w.current = ~staleBinding
  BY <1>1 DEF IdleWorker, IsBindingWork
<1>6. Changes(w, type, binding)
  BY <1>2, <1>3, <1>4, <1>5 DEF Changes
<1> QED
  BY <1>5, <1>6 DEF w

\* A worker of the CRD's controller that marks its own condition.
LEMMA ConnectedAgain ==
    ASSUME NEW w, NEW u, NEW b, NEW c, Changes(w, "Connected", b), w.step # "idle",
           IsBindingWork(u), u.step # "idle", u.old = w.old, u.current = w.current,
           u.status = w.status \/ u.status = Set(w.status, "Connected", c)
    PROVE  Changes(u, "Connected", b)
<1>1. IsConditions(w.status) /\ SameBut("Connected", w.old, w.status)
  BY DEF Changes
<1>2. IsConditions(u.status) /\ SameBut("Connected", w.status, u.status)
  BY <1>1, TypesAre, MarkKeeps DEF SameBut
<1>3. SameBut("Connected", w.old, u.status)
  BY <1>1, <1>2 DEF SameBut
<1> QED
  BY <1>2, <1>3 DEF Changes

LEMMA ConditionsSecretController ==
    ASSUME ConditionsInv, SecretController
    PROVE  ConditionsInv' /\ ConditionsStep
<1>1. CASE ProcessSecret
  <2>1. Changes(secretWork', "SecretValid", binding)
    <3> DEFINE status == ensureValidKubeconfigSecret(bindingCache.status, secretCache)
    <3>1. CASE bindingCache = Nothing
      BY <1>1, <3>1, IdleChanges DEF ProcessSecret
    <3>2. CASE bindingCache # Nothing
      <4>1. IsConditions(bindingCache.status)
        BY <3>2 DEF ConditionsInv, IsBinding
      <4>2. \E c : status = Set(bindingCache.status, "SecretValid", c)
        BY DEF ensureValidKubeconfigSecret, MarkTrue, MarkFalse
      <4>3. IsConditions(status) /\ SameBut("SecretValid", bindingCache.status, status)
        BY <4>1, <4>2, TypesAre, MarkKeeps
      <4>4. secretWork' = StartWork(status)
        BY <1>1, <3>2 DEF ProcessSecret
      <4> HIDE DEF status
      <4> QED
        BY <3>2, <4>3, <4>4, TypesAre, ReconcileChanges
    <3> QED
      BY <3>1, <3>2
  <2> QED
    BY <1>1, <2>1, ConditionsAside DEF ProcessSecret, caches, ConditionsInv
<1>2. CASE commitSecret
  <2> DEFINE new == Outcome(secretWork)
  <2>1. /\ secretWork.step = "commit" /\ secretWork' = IdleWorker /\ bindingCache' = bindingCache
        /\ \/ /\ Written(secretWork, new) /\ StoreBinding([binding EXCEPT !.status = new])
              /\ bindingWork' = Outdated(bindingWork)
           \/ UNCHANGED <<binding, staleBinding, bindingWork>>
    BY <1>2 DEF commitSecret, caches
  <2> HIDE DEF new
  <2>2. CASE /\ Written(secretWork, new) /\ StoreBinding([binding EXCEPT !.status = new])
             /\ bindingWork' = Outdated(bindingWork)
    <3>1. /\ binding # Nothing /\ IsConditions(new) /\ SameBut("SecretValid", binding.status, new)
      BY <2>2, TypesAre, Committed DEF ConditionsInv, Written, new
    <3> QED
      BY <2>1, <2>2, <3>1, TypesAre, ConditionsWritten DEF StoreBinding
  <2>3. CASE UNCHANGED <<binding, staleBinding, bindingWork>>
    BY <2>1, <2>3, IdleChanges, ConditionsAside DEF ConditionsInv
  <2> QED
    BY <2>1, <2>2, <2>3
<1> QED
  BY <1>1, <1>2 DEF SecretController

\* process: both marks are of Connected.
LEMMA ProcessBindingChanges ==
    ASSUME ConditionsInv, ProcessBinding
    PROVE  Changes(bindingWork', "Connected", binding)
<1> DEFINE begun == StartWork(bindingCache.status)
           valid == Connected(begun)
<1>1. CASE bindingCache = Nothing
  BY <1>1, IdleChanges DEF ProcessBinding
<1>2. CASE bindingCache # Nothing
  <2>1. IsConditions(bindingCache.status) /\ SameBut("Connected", bindingCache.status, bindingCache.status)
    BY <1>2 DEF ConditionsInv, IsBinding, SameBut
  <2>2. Changes(begun, "Connected", binding) /\ begun.step = "commit"
    BY <1>2, <2>1, TypesAre, ReconcileChanges
  <2>3. CASE exportCache = Nothing
    <3>1. bindingWork' = NotConnected(begun, "APIServiceExportNotFound")
      BY <1>2, <2>3 DEF ProcessBinding
    <3> HIDE DEF begun
    <3>2. /\ IsBindingWork(bindingWork') /\ bindingWork'.step = "commit"
          /\ bindingWork'.old = begun.old /\ bindingWork'.current = begun.current
          /\ \E c : bindingWork'.status = Set(begun.status, "Connected", c)
      BY <2>2, <3>1, NotConnectedKeeps DEF Changes, MarkFalse
    <3> QED
      BY <2>2, <3>2, ConnectedAgain
  <2>4. CASE exportCache # Nothing
    <3>1. bindingWork' = ensureCRDs(valid)
      BY <1>2, <2>4 DEF ProcessBinding
    <3> HIDE DEF begun
    <3>2. /\ IsBindingWork(valid) /\ valid.step = "commit"
          /\ valid.old = begun.old /\ valid.current = begun.current
          /\ \E c : valid.status = Set(begun.status, "Connected", c)
      <4> DEFINE mark == Set(begun.status, "Connected", TrueCondition)
      <4>1. valid = [begun EXCEPT !.status = mark]
        BY DEF Connected, MarkTrue
      <4>2. mark = Set(begun.status, "Connected", TrueCondition)
        OBVIOUS
      <4> HIDE DEF mark, valid
      <4>3. /\ IsBindingWork(valid) /\ valid.step = "commit"
            /\ valid.old = begun.old /\ valid.current = begun.current /\ valid.status = mark
        BY <2>2, <4>1 DEF Changes, IsBindingWork
      <4> QED
        BY <4>2, <4>3
    <3> HIDE DEF valid
    <3>3. Changes(valid, "Connected", binding)
      BY <2>2, <3>2, ConnectedAgain
    <3>4. CASE crdCache # Nothing /\ ~IsOwnedByBinding(valid.uid, crdCache)
      <4>1. bindingWork' = NotConnected(valid, "ForeignCustomResourceDefinition")
        BY <3>1, <3>4 DEF ensureCRDs
      <4>2. /\ IsBindingWork(bindingWork') /\ bindingWork'.step = "commit"
            /\ bindingWork'.old = valid.old /\ bindingWork'.current = valid.current
            /\ \E c : bindingWork'.status = Set(valid.status, "Connected", c)
        BY <3>2, <4>1, NotConnectedKeeps DEF MarkFalse
      <4> QED
        BY <3>2, <3>3, <4>2, ConnectedAgain
    <3>5. CASE crdCache = Nothing \/ IsOwnedByBinding(valid.uid, crdCache)
      <4> DEFINE spec == ServiceExportToCRD(exportCache)
                 call(step) == [valid EXCEPT !.step = step, !.spec = spec, !.currentCRD = ~staleCRD]
      <4>1. bindingWork' = call("create") \/ bindingWork' = call("update")
        BY <3>1, <3>5 DEF ensureCRDs
      <4> HIDE DEF spec
      <4>2. /\ IsBindingWork(bindingWork') /\ bindingWork'.step # "idle"
            /\ bindingWork'.old = valid.old /\ bindingWork'.current = valid.current
            /\ bindingWork'.status = valid.status
        BY <3>2, <4>1 DEF IsBindingWork
      <4> QED
        BY <3>2, <3>3, <4>2, ConnectedAgain
    <3> QED
      BY <3>4, <3>5
  <2> QED
    BY <2>3, <2>4
<1> QED
  BY <1>1, <1>2

\* createCRD and updateCRD leave the conditions alone, but for Connected of the copy.
LEMMA CRDCallChanges ==
    ASSUME CRDInv, ConditionsInv, createCRD \/ updateCRD \/ CRDCallFails
    PROVE  ConditionsInv' /\ ConditionsStep
<1>1. /\ IsBindingWork(bindingWork') /\ bindingWork'.step = "commit"
      /\ bindingWork'.old = bindingWork.old /\ bindingWork'.current = bindingWork.current
      /\ \/ bindingWork'.status = bindingWork.status
         \/ \E c : bindingWork'.status = Set(bindingWork.status, "Connected", c)
  BY CRDCallWork DEF MarkFalse
<1>2. bindingWork.step # "idle"
  BY DEF createCRD, updateCRD, CRDCallFails
<1>3. Changes(bindingWork', "Connected", binding)
  BY <1>1, <1>2, ConnectedAgain DEF ConditionsInv
<1>4. UNCHANGED <<caches, binding, staleBinding, secretWork>>
  BY DEF createCRD, updateCRD, CRDCallFails
<1> QED
  BY <1>3, <1>4, ConditionsAside DEF caches, ConditionsInv

LEMMA ConditionsBindingController ==
    ASSUME CRDInv, ConditionsInv, BindingController
    PROVE  ConditionsInv' /\ ConditionsStep
<1>1. CASE ProcessBinding
  BY <1>1, ProcessBindingChanges, ConditionsAside DEF ProcessBinding, caches, ConditionsInv
<1>2. CASE createCRD \/ updateCRD
  BY <1>2, CRDCallChanges
<1>3. CASE commitBinding
  <2> DEFINE new == Outcome(bindingWork)
  <2>1. /\ bindingWork.step = "commit" /\ bindingWork' = IdleWorker /\ bindingCache' = bindingCache
        /\ \/ /\ Written(bindingWork, new) /\ StoreBinding([binding EXCEPT !.status = new])
              /\ secretWork' = Outdated(secretWork)
           \/ UNCHANGED <<binding, staleBinding, secretWork>>
    BY <1>3 DEF commitBinding, caches
  <2> HIDE DEF new
  <2>2. CASE /\ Written(bindingWork, new) /\ StoreBinding([binding EXCEPT !.status = new])
             /\ secretWork' = Outdated(secretWork)
    <3>1. /\ binding # Nothing /\ IsConditions(new) /\ SameBut("Connected", binding.status, new)
      BY <2>2, TypesAre, Committed DEF ConditionsInv, Written, new
    <3> QED
      BY <2>1, <2>2, <3>1, TypesAre, ConditionsWritten DEF StoreBinding
  <2>3. CASE UNCHANGED <<binding, staleBinding, secretWork>>
    BY <2>1, <2>3, IdleChanges, ConditionsAside DEF ConditionsInv
  <2> QED
    BY <2>1, <2>2, <2>3
<1> QED
  BY <1>1, <1>2, <1>3 DEF BindingController

LEMMA ConditionsFailures ==
    ASSUME CRDInv, ConditionsInv, CRDCallFails \/ ensurePrettyNameFails \/ CommitFails
    PROVE  ConditionsInv' /\ ConditionsStep
<1>1. CASE CRDCallFails
  BY <1>1, CRDCallChanges
<1>2. CASE ensurePrettyNameFails
  <2>1. bindingWork' = [bindingWork EXCEPT !.err = TRUE]
    BY <1>2 DEF ensurePrettyNameFails
  <2>2. Changes(bindingWork', "Connected", binding)
    BY <2>1 DEF ConditionsInv, Changes, IsBindingWork
  <2> QED
    BY <1>2, <2>2, ConditionsAside DEF ensurePrettyNameFails, caches, ConditionsInv
<1>3. CASE CommitFails
  <2>1. /\ secretWork' = secretWork \/ secretWork' = IdleWorker
        /\ bindingWork' = bindingWork \/ bindingWork' = IdleWorker
    BY <1>3 DEF CommitFails
  <2> QED
    BY <1>3, <2>1, IdleChanges, ConditionsAside DEF CommitFails, caches, ConditionsInv
<1> QED
  BY <1>1, <1>2, <1>3

LEMMA ConditionsOthers ==
    ASSUME ConditionsInv, OtherWriters
    PROVE  ConditionsInv' /\ ConditionsStep
<1>1. PICK type, c : /\ type \in {"InformersSynced", "Heartbeating"}
                     /\ updateServiceBindings(Set(bindingCache.status, type, c))
  BY DEF OtherWriters, Start, ClusterBindingCommitted, ClusterBindingCommitFails,
         MarkTrue, MarkFalse
<1> DEFINE new == Set(bindingCache.status, type, c)
<1>2. /\ bindingCache # Nothing /\ ~staleBinding
      /\ binding' = [binding EXCEPT !.status = new] /\ staleBinding' = TRUE
      /\ secretWork' = Outdated(secretWork) /\ bindingWork' = Outdated(bindingWork)
      /\ bindingCache' = bindingCache
  BY <1>1 DEF updateServiceBindings, StoreBinding, Bound, caches
<1>3. binding # Nothing /\ bindingCache = binding /\ IsConditions(binding.status)
  BY <1>2 DEF ConditionsInv, IsBinding
<1>4. IsConditions(new) /\ SameBut(type, binding.status, new)
  BY <1>1, <1>3, TypesAre, MarkKeeps
<1> HIDE DEF new
<1> QED
  BY <1>1, <1>2, <1>3, <1>4, TypesAre, ConditionsWritten

\* Secret, CRD, informers and heartbeat each have a condition in one list that all four
\* writers send as a whole.  None undoes or anticipates the verdict of another on the same
\* binding (committer.go; servicebinding_reconcile.go of both controllers).
THEOREM OneVerdictAtATime == SBSpec => ConditionsAreKept
<1>1. SBInit => CRDInv /\ ConditionsInv
  <2> SUFFICES ASSUME SBInit PROVE CRDInv /\ ConditionsInv
    OBVIOUS
  <2>1. IsConditions(NoStatus)
    BY DEF NoStatus, IsConditions
  <2>2. IsBinding(binding)
    BY <2>1 DEF SBInit, IsBinding
  <2> QED
    BY <2>2, IdleBindingShape, IdleChanges DEF SBInit, CRDInv, ConditionsInv
<1>2. CRDInv /\ ConditionsInv /\ [SBNext]_sbVars => (CRDInv /\ ConditionsInv)' /\ ConditionsStep
  <2> SUFFICES ASSUME CRDInv, ConditionsInv, [SBNext]_sbVars
               PROVE  CRDInv' /\ ConditionsInv' /\ ConditionsStep
    OBVIOUS
  <2>1. CASE UNCHANGED sbVars
    <3>1. UNCHANGED <<binding, bindingCache, staleBinding, secretWork, bindingWork>> /\ CRDInv'
      BY <2>1 DEF sbVars, CRDInv
    <3> QED
      BY <3>1, ConditionsAside DEF ConditionsInv
  <2>2. CASE SBNext
    BY <2>2, CRDUsers, CRDInformers, CRDControllers, CRDFailures, CRDOthers, ConditionsUsers,
       ConditionsInformers, ConditionsSecretController, ConditionsBindingController,
       ConditionsFailures, ConditionsOthers DEF SBNext, OtherWriters
  <2> QED
    BY <2>1, <2>2
<1>3. ConditionsStep =>
         [binding # Nothing /\ binding' # Nothing /\ binding.uid = binding'.uid =>
            \E type \in Range(Types) :
               /\ \A other \in Range(Types) \ {type} :
                     binding'.status[other] = binding.status[other]
               /\ binding'.status # binding.status =>
                     /\ type = "SecretValid" => secretWork.step = "commit"
                     /\ type = "Connected" => bindingWork.step = "commit"]_sbVars
  BY DEF ConditionsStep
<1> QED
  BY <1>1, <1>2, <1>3, PTL DEF SBSpec, ConditionsAreKept

-----------------------------------------------------------------------------
(* ClaimedResources.  Nothing is assumed of its constants.                 *)

\* A copy that the consumer owns.
ConsumersOwn(c) == c # None /\ c.owner = "Consumer"

ProvidersOwn(p) == p # None /\ p.owner = "Provider"

WorkType == [step : Calls \cup {"idle"}, prov : Provided \cup {None}, cons : Consumed \cup {None},
             owner : Owners]

CopyTypes ==
    /\ prov \in Provided \cup {None} /\ provCache \in Provided \cup {None}
    /\ cons \in Consumed \cup {None}
    /\ work \in WorkType

\* What counts as fresh is the stored copy; the informer has it, or nothing since it stopped.
FreshCopies ==
    /\ "cache" \in provFresh => provCache = prov
    /\ work.step # "idle" /\ "work" \in provFresh => prov = work.prov /\ provCache \in {None, prov}
    /\ work.step # "idle" /\ "work" \in consFresh => cons = work.cons

\* An informer that has not seen yet that the object is the provider's has it as nobody's, and
\* then the consumer's copy is not the consumer's.
NotBothOwn ==
    ProvidersOwn(prov) =>
        \/ provCache = None
        \/ provCache.owner = "Provider"
        \/ provCache.owner = "unknown" /\ ~ConsumersOwn(cons)

\* What the next call takes for granted.
CallsAreSafe ==
    /\ work.step = "annotateProvider" =>
          work.prov # None /\ work.prov.owner = "unknown" /\ ~ConsumersOwn(cons)
    /\ work.step \in {"updateProvider", "deleteProvider"} => ~ProvidersOwn(prov)
    /\ work.step \in {"createProvider", "updateProvider"} => work.cons # None
    /\ work.step = "annotateConsumer" =>
          /\ work.cons # None
          /\ work.owner = "Consumer"
          /\ work.prov # None => ~ProvidersOwn(prov)
          /\ ProvidersOwn(prov) => provCache = None \/ provCache.owner = "Provider"
    /\ work.step \in {"annotateProvider", "createConsumer", "updateConsumer"} =>
          work.owner = "Provider" /\ work.prov # None /\ work.prov.owner # "Consumer"

OwnInv == CopyTypes /\ FreshCopies /\ NotBothOwn /\ CallsAreSafe

\* What a reconcile leaves of an object that the provider owns.
Kept == ProvidersOwn(prov) => ProvidersOwn(prov') /\ prov'.data = prov.data

LEMMA ProvidedFields ==
    ASSUME NEW p \in Provided
    PROVE  /\ p.owner \in Owners /\ p.data \in Data /\ p.finalizer \in BOOLEAN /\ p.deleting \in BOOLEAN
           /\ \A o \in Owners : /\ [p EXCEPT !.owner = o] \in Provided
                                /\ [p EXCEPT !.owner = o].owner = o
                                /\ [p EXCEPT !.owner = o].data = p.data
  BY DEF Provided

LEMMA ConsumedFields ==
    ASSUME NEW c \in Consumed
    PROVE  /\ c.owner \in Owners /\ c.data \in Data
           /\ \A o \in Owners : /\ [c EXCEPT !.owner = o] \in Consumed
                                /\ [c EXCEPT !.owner = o].owner = o
  BY DEF Consumed

LEMMA OwnInit == CRInit => OwnInv
<1> SUFFICES ASSUME CRInit PROVE OwnInv
  OBVIOUS
<1>1. /\ prov = None \/ (prov \in Provided /\ prov.owner = "unknown")
      /\ cons \in Consumed \cup {None} /\ provCache = None /\ provFresh = {} /\ consFresh = {}
      /\ work = NoWork
  BY DEF CRInit, Provided, Consumed, Owners
<1>2. NoWork \in WorkType /\ NoWork.step = "idle"
  BY DEF NoWork, Owners, WorkType
<1> QED
  BY <1>1, <1>2 DEF OwnInv, CopyTypes, FreshCopies, NotBothOwn, CallsAreSafe, ProvidersOwn

\* Users change objects and delete them, and theirs are nobody's at first.
LEMMA OwnProviderChanges ==
    ASSUME OwnInv, ProviderChanges \/ ProviderFinalizes
    PROVE  OwnInv'
<1> USE DEF OwnInv
<1>1. provFresh' = {} /\ UNCHANGED <<provCache, cons, consFresh, work>>
  BY DEF ProviderChanges, ProviderFinalizes, WriteProv
<1>2. \/ prov' = None
      \/ prov' \in Provided /\ prov'.owner = "unknown"
      \/ prov # None /\ prov' \in Provided /\ prov'.owner = prov.owner
  <2>1. CASE prov = None /\ ProviderChanges
    <3>1. PICK d \in Data, f \in BOOLEAN :
             prov' = [data |-> d, owner |-> "unknown", finalizer |-> f, deleting |-> FALSE]
      BY <2>1 DEF ProviderChanges, WriteProv
    <3> QED
      BY <3>1 DEF Provided, Owners
  <2>2. CASE prov # None /\ ProviderChanges
    <3>1. \/ \E d \in Data : prov' = [prov EXCEPT !.data = d]
          \/ prov' = [prov EXCEPT !.deleting = TRUE]
          \/ prov' = None
      BY <2>2 DEF ProviderChanges, WriteProv, Deleted
    <3>2. prov \in Provided
      BY <2>2 DEF CopyTypes
    <3>3. ASSUME NEW d \in Data, prov' = [prov EXCEPT !.data = d]
          PROVE  prov' \in Provided /\ prov'.owner = prov.owner
      BY <3>2, <3>3 DEF Provided
    <3>4. CASE prov' = [prov EXCEPT !.deleting = TRUE]
      BY <2>2, <3>2, <3>4 DEF Provided
    <3> QED
      BY <2>2, <3>1, <3>3, <3>4
  <2>3. CASE ProviderFinalizes
    BY <2>3 DEF ProviderFinalizes, WriteProv
  <2> QED
    BY <2>1, <2>2, <2>3
<1> QED
  BY <1>1, <1>2 DEF CopyTypes, FreshCopies, NotBothOwn, CallsAreSafe, ProvidersOwn

LEMMA OwnConsumerChanges ==
    ASSUME OwnInv, ConsumerChanges
    PROVE  OwnInv'
<1> USE DEF OwnInv
<1>1. consFresh' = {} /\ UNCHANGED <<prov, provCache, provFresh, work>>
  BY DEF ConsumerChanges, WriteCons
<1>2. \/ cons' = None
      \/ cons' \in Consumed /\ cons'.owner = "unknown"
      \/ cons # None /\ cons' \in Consumed /\ cons'.owner = cons.owner
  <2>1. CASE cons = None
    BY <2>1 DEF ConsumerChanges, WriteCons, Consumed, Owners
  <2>2. CASE cons # None
    <3>1. (\E d \in Data : cons' = [cons EXCEPT !.data = d]) \/ cons' = None
      BY <2>2 DEF ConsumerChanges, WriteCons
    <3>2. cons \in Consumed
      BY <2>2 DEF CopyTypes
    <3>3. ASSUME NEW d \in Data, cons' = [cons EXCEPT !.data = d]
          PROVE  cons' \in Consumed /\ cons'.owner = cons.owner
      BY <3>2, <3>3 DEF Consumed
    <3> QED
      BY <2>2, <3>1, <3>3
  <2> QED
    BY <2>1, <2>2
<1> QED
  BY <1>1, <1>2 DEF CopyTypes, FreshCopies, NotBothOwn, CallsAreSafe, ConsumersOwn

LEMMA OwnNamespacesChange ==
    ASSUME OwnInv, NamespacesChange
    PROVE  OwnInv'
<1> USE DEF OwnInv
<1>1. /\ UNCHANGED <<provCache, work>>
      /\ \/ prov' = None /\ cons' = None /\ provFresh' = {} /\ consFresh' = {}
         \/ UNCHANGED <<prov, provFresh, cons, consFresh>>
  BY DEF NamespacesChange, WriteProv, WriteCons
<1> QED
  BY <1>1 DEF CopyTypes, FreshCopies, NotBothOwn, CallsAreSafe, ConsumersOwn, ProvidersOwn

\* Events: the informer's copy of the provider's object is the stored one, or it is gone.
LEMMA OwnEvents ==
    ASSUME OwnInv, DeliverConsumer \/ DeliverProvider \/ DeliverServiceNamespace \/ Resync
    PROVE  OwnInv'
<1> USE DEF OwnInv
<1>1. UNCHANGED <<prov, cons, work>> /\ consFresh' \subseteq consFresh \cup {"cache"}
  BY DEF DeliverConsumer, DeliverProvider, DeliverServiceNamespace, Resync, copies
<1>2. \/ UNCHANGED <<provCache, provFresh>>
      \/ provCache' = prov /\ provFresh' = provFresh \cup {"cache"}
      \/ provCache' = None /\ provFresh' = provFresh \ {"cache"}
  BY DEF DeliverConsumer, DeliverProvider, DeliverServiceNamespace, Resync, copies
<1> QED
  BY <1>1, <1>2 DEF CopyTypes, FreshCopies, NotBothOwn, CallsAreSafe, ConsumersOwn, ProvidersOwn

LEMMA OwnIdle ==
    NoWork \in WorkType /\ NoWork.step = "idle"
  BY DEF NoWork, Owners, WorkType

LEMMA OwnRestart ==
    ASSUME OwnInv, RestartKonnector
    PROVE  OwnInv'
<1> USE DEF OwnInv
<1>1. /\ UNCHANGED <<prov, cons>> /\ provCache' = None /\ provFresh' = {} /\ consFresh' = {}
      /\ work' = NoWork
  BY DEF RestartKonnector
<1> QED
  BY <1>1, OwnIdle DEF CopyTypes, FreshCopies, NotBothOwn, CallsAreSafe

\* A reconcile whose copy of the provider's object is old takes the object for the consumer's
\* only when it sees none.
LEMMA OwnRead ==
    ASSUME OwnInv, Read
    PROVE  OwnInv' /\ UNCHANGED prov
<1> USE DEF OwnInv
<1> DEFINE owner == determineOwner(provCache, cons)
           step == FirstCall(provCache, cons, owner)
           fresh == [step |-> step, prov |-> provCache, cons |-> cons, owner |-> owner]
<1>1. /\ UNCHANGED <<prov, provCache, cons>> /\ work.step = "idle"
      /\ consFresh' = consFresh \cup {"work"}
      /\ provFresh' = IF "cache" \in provFresh THEN provFresh \cup {"work"} ELSE provFresh \ {"work"}
      /\ \/ work' = work
         \/ /\ work' = fresh /\ owner # "unknown"
            /\ ~(provCache = None /\ cons = None)
  BY DEF Read, Begin
<1>2. NotBothOwn'
  BY <1>1 DEF NotBothOwn, ProvidersOwn, ConsumersOwn
<1>3. CASE work' = work
  BY <1>1, <1>2, <1>3 DEF CopyTypes, FreshCopies, CallsAreSafe
<1>4. CASE work' = fresh /\ owner # "unknown" /\ ~(provCache = None /\ cons = None)
  <2>1. /\ owner \in {"Provider", "Consumer"}
        /\ owner = "Provider" /\ provCache # None => provCache.owner # "Consumer"
        /\ owner = "Provider" /\ provCache # None /\ provCache.owner = "unknown" =>
              ~ConsumersOwn(cons)
        /\ owner = "Consumer" => provCache = None \/ ~ProvidersOwn(prov)
    BY <1>4, ProvidedFields, ConsumedFields
       DEF determineOwner, CopyTypes, Owners, NotBothOwn, ProvidersOwn, ConsumersOwn
  <2> HIDE DEF owner
  <2>2. /\ step \in Calls
        /\ step = "annotateProvider" =>
              owner = "Provider" /\ provCache # None /\ provCache.owner # "Provider"
        /\ step \in {"createConsumer", "updateConsumer"} => owner = "Provider" /\ provCache # None
        /\ step = "annotateConsumer" => owner = "Consumer" /\ cons # None
        /\ step \in {"createProvider", "updateProvider"} => cons # None
        /\ step \in {"updateProvider", "deleteProvider"} =>
              owner = "Consumer" /\ (provCache # None \/ cons = None)
    BY <2>1 DEF FirstCall, Copying, Calls
  <2>3. /\ work'.step = step /\ work'.prov = provCache /\ work'.cons = cons /\ work'.owner = owner
        /\ work' \in WorkType
    BY <1>4, <2>1, <2>2 DEF CopyTypes, Owners, WorkType
  <2> HIDE DEF step, fresh
  <2>4. CopyTypes'
    BY <1>1, <2>3 DEF CopyTypes
  <2>5. FreshCopies'
    BY <1>1, <2>3 DEF FreshCopies
  <2>6. CallsAreSafe'
    <3>1. provCache # None => provCache.owner \in {"unknown", "Provider", "Consumer"}
      BY ProvidedFields DEF CopyTypes, Owners
    <3> QED
      BY <1>1, <1>4, <2>1, <2>2, <2>3, <3>1 DEF CallsAreSafe
  <2> QED
    BY <1>1, <1>2, <2>4, <2>5, <2>6
<1> QED
  BY <1>1, <1>3, <1>4

\* A call that ends the reconcile.
LEMMA OwnEnds ==
    ASSUME OwnInv, work' = NoWork, provCache' = provCache,
           UNCHANGED <<prov, provFresh>> \/ (prov' \in Provided \cup {None} /\ provFresh' = {}
                                            /\ (ProvidersOwn(prov') => ProvidersOwn(prov))),
           UNCHANGED <<cons, consFresh>> \/ (cons' \in Consumed \cup {None} /\ consFresh' = {}
                                            /\ (ConsumersOwn(cons') => ConsumersOwn(cons)))
    PROVE  OwnInv'
<1> USE OwnIdle DEF OwnInv
<1>1. CopyTypes'
  BY DEF CopyTypes
<1>2. FreshCopies'
  BY DEF FreshCopies
<1>3. NotBothOwn'
  BY DEF NotBothOwn
<1>4. CallsAreSafe'
  BY DEF CallsAreSafe
<1> QED
  BY <1>1, <1>2, <1>3, <1>4

\* The next call after an annotation.
LEMMA OwnContinues ==
    ASSUME OwnInv, Continues, work.prov # None \/ work.cons # None,
           work.owner \in {"Provider", "Consumer"}, work.owner = "Provider" => work.prov # None
    PROVE  /\ work' \in WorkType /\ work'.prov = work.prov /\ work'.cons = work.cons
           /\ work'.owner = work.owner
           /\ work'.step \in {"deleteMisplaced", "createConsumer", "updateConsumer",
                              "createProvider", "updateProvider"}
           /\ work'.step \in {"deleteMisplaced", "createConsumer", "updateConsumer"} =>
                 work.owner = "Provider"
           /\ work'.step \in {"createProvider", "updateProvider"} => work.owner = "Consumer"
           /\ work'.step = "updateProvider" => work.prov # None
<1> DEFINE step == Copying(work.prov, work.cons, work.owner)
<1>1. /\ step \in {"deleteMisplaced", "createConsumer", "updateConsumer", "createProvider",
                   "updateProvider"}
      /\ step \in {"deleteMisplaced", "createConsumer", "updateConsumer"} => work.owner = "Provider"
      /\ step \in {"createProvider", "updateProvider"} => work.owner = "Consumer"
      /\ step = "updateProvider" => work.prov # None
  BY DEF Copying
<1>2. work' = [work EXCEPT !.step = step]
  BY DEF Continues
<1> HIDE DEF step
<1>3. step \in Calls
  BY <1>1 DEF Calls
<1> QED
  BY <1>1, <1>2, <1>3 DEF OwnInv, CopyTypes, WorkType

LEMMA OwnAnnotateProvider ==
    ASSUME OwnInv, annotateProvider
    PROVE  OwnInv' /\ Kept
<1> USE DEF OwnInv
<1>1. work.step = "annotateProvider" /\ UNCHANGED <<provCache, cons, consFresh>>
  BY DEF annotateProvider, Calling, KeepCons
<1>2. /\ work.prov # None /\ work.prov.owner = "unknown" /\ ~ConsumersOwn(cons)
      /\ work.owner = "Provider"
  BY <1>1 DEF CallsAreSafe
<1>3. CASE "work" \in provFresh
  <2>1. prov' = [prov EXCEPT !.owner = "Provider"] /\ provFresh' = {} /\ Continues
    BY <1>3 DEF annotateProvider, WriteProv
  <2>2. prov = work.prov /\ provCache \in {None, prov}
    BY <1>1, <1>3 DEF FreshCopies
  <2>3. prov' \in Provided /\ prov'.owner = "Provider" /\ prov'.data = prov.data
    <3>1. prov \in Provided /\ "Provider" \in Owners
      BY <1>2, <2>2 DEF CopyTypes, Owners
    <3> QED
      BY <2>1, <3>1 DEF Provided
  <2>4. /\ work' \in WorkType /\ work'.prov = work.prov /\ work'.cons = work.cons
        /\ work'.owner = "Provider"
        /\ work'.step \in {"deleteMisplaced", "createConsumer", "updateConsumer"}
    BY <1>2, <2>1, OwnContinues
  <2>5. CopyTypes'
    BY <1>1, <2>3, <2>4 DEF CopyTypes, WorkType
  <2>6. FreshCopies'
    BY <1>1, <2>1, <2>4 DEF FreshCopies
  <2>7. NotBothOwn'
    BY <1>1, <1>2, <2>2 DEF NotBothOwn, ConsumersOwn
  <2>8. CallsAreSafe'
    BY <1>2, <2>4 DEF CallsAreSafe
  <2>9. Kept
    BY <1>2, <2>2 DEF Kept, ProvidersOwn
  <2> QED
    BY <2>5, <2>6, <2>7, <2>8, <2>9
<1>4. CASE "work" \notin provFresh
  <2>1. UNCHANGED <<prov, provFresh>> /\ work' = NoWork
    BY <1>4 DEF annotateProvider, KeepProv, Ends
  <2> QED
    BY <1>1, <2>1, OwnEnds DEF Kept, ProvidersOwn
<1> QED
  BY <1>3, <1>4

LEMMA OwnAnnotateConsumer ==
    ASSUME OwnInv, annotateConsumer
    PROVE  OwnInv' /\ Kept
<1> USE DEF OwnInv
<1>1. work.step = "annotateConsumer" /\ UNCHANGED <<provCache, prov, provFresh>>
  BY DEF annotateConsumer, Calling, KeepProv
<1>2. /\ work.cons # None /\ work.owner = "Consumer"
      /\ work.prov # None => ~ProvidersOwn(prov)
      /\ ProvidersOwn(prov) => provCache = None \/ provCache.owner = "Provider"
  BY <1>1 DEF CallsAreSafe
<1>3. CASE "work" \in consFresh
  <2>1. cons' = [cons EXCEPT !.owner = "Consumer"] /\ consFresh' = {} /\ Continues
    BY <1>3 DEF annotateConsumer, WriteCons
  <2>2. cons = work.cons
    BY <1>1, <1>3 DEF FreshCopies
  <2>3. cons' \in Consumed
    BY <1>2, <2>1, <2>2, ConsumedFields DEF CopyTypes, Owners
  <2>4. /\ work' \in WorkType /\ work'.prov = work.prov /\ work'.cons = work.cons
        /\ work'.owner = "Consumer"
        /\ work'.step \in {"createProvider", "updateProvider"}
        /\ work'.step = "updateProvider" => work.prov # None
    BY <1>2, <2>1, OwnContinues
  <2>5. CopyTypes'
    BY <1>1, <2>3, <2>4 DEF CopyTypes, WorkType
  <2>6. FreshCopies'
    BY <1>1, <2>1, <2>4 DEF FreshCopies
  <2>7. NotBothOwn'
    BY <1>1, <1>2 DEF NotBothOwn, ProvidersOwn
  <2>8. CallsAreSafe'
    BY <1>1, <1>2, <2>4 DEF CallsAreSafe, ProvidersOwn
  <2> QED
    BY <1>1, <2>5, <2>6, <2>7, <2>8 DEF Kept, ProvidersOwn
<1>4. CASE "work" \notin consFresh
  <2>1. UNCHANGED <<cons, consFresh>> /\ work' = NoWork
    BY <1>4 DEF annotateConsumer, KeepCons, Ends
  <2> QED
    BY <1>1, <2>1, OwnEnds DEF Kept, ProvidersOwn
<1> QED
  BY <1>3, <1>4

LEMMA OwnCalls ==
    ASSUME OwnInv,
           \/ createConsumer \/ updateConsumer \/ deleteConsumer \/ deleteMisplaced
           \/ createProvider \/ updateProvider \/ deleteProvider
    PROVE  OwnInv' /\ Kept
<1> USE DEF OwnInv
<1>1. CASE createConsumer \/ updateConsumer
  <2>1. /\ work' = NoWork /\ UNCHANGED <<provCache, prov, provFresh>>
        /\ work.step \in {"createConsumer", "updateConsumer"}
        /\ \/ UNCHANGED <<cons, consFresh>>
           \/ /\ consFresh' = {}
              /\ \E o \in {"Provider", work.prov.owner} : cons' = [data |-> work.prov.data, owner |-> o]
    BY <1>1 DEF createConsumer, updateConsumer, Calling, Ends, KeepProv, KeepCons,
                WriteCons
  <2>2. work.prov \in Provided /\ work.prov.owner # "Consumer"
    BY <2>1 DEF CallsAreSafe, CopyTypes, WorkType
  <2>3. UNCHANGED <<cons, consFresh>> \/ (cons' \in Consumed /\ consFresh' = {} /\ ~ConsumersOwn(cons'))
    <3>1. /\ work.prov.data \in Data
          /\ \A o \in {"Provider", work.prov.owner} : o \in Owners /\ o # "Consumer"
      BY <2>2, ProvidedFields DEF Owners
    <3>2. ASSUME NEW o \in {"Provider", work.prov.owner},
                 cons' = [data |-> work.prov.data, owner |-> o]
          PROVE  cons' \in Consumed /\ ~ConsumersOwn(cons')
      BY <3>1, <3>2 DEF Consumed, ConsumersOwn
    <3> QED
      BY <2>1, <3>2
  <2>4. OwnInv'
    BY <2>1, <2>3, OwnEnds
  <2> QED
    BY <2>1, <2>4 DEF Kept, ProvidersOwn
<1>2. CASE deleteConsumer \/ deleteMisplaced
  <2>1. /\ work' = NoWork /\ UNCHANGED <<provCache, prov, provFresh>>
        /\ UNCHANGED <<cons, consFresh>> \/ (cons' = None /\ consFresh' = {})
    BY <1>2 DEF deleteConsumer, deleteMisplaced, Calling, Ends, KeepProv, KeepCons,
                WriteCons
  <2>2. OwnInv'
    BY <2>1, OwnEnds DEF ConsumersOwn
  <2> QED
    BY <2>1, <2>2 DEF Kept, ProvidersOwn
<1>3. CASE createProvider \/ updateProvider \/ deleteProvider
  <2>1. /\ work' = NoWork /\ UNCHANGED <<provCache, cons, consFresh>>
        /\ \/ UNCHANGED <<prov, provFresh>>
           \/ provFresh' = {} /\ (prov = None \/ work.step \in {"updateProvider", "deleteProvider"})
    BY <1>3 DEF createProvider, updateProvider, deleteProvider, Calling, Ends,
                KeepProv, KeepCons,
                WriteProv
  <2>2. CASE UNCHANGED <<prov, provFresh>>
    BY <2>1, <2>2, OwnEnds DEF Kept, ProvidersOwn
  <2>3. CASE provFresh' = {} /\ (prov = None \/ work.step \in {"updateProvider", "deleteProvider"})
    <3>1. ~ProvidersOwn(prov)
      BY <2>3 DEF CallsAreSafe, ProvidersOwn
    <3>2. prov' \in Provided \cup {None} /\ ~ProvidersOwn(prov')
      <4>1. CASE createProvider \/ updateProvider
        <5>1. work.cons \in Consumed
          BY <4>1 DEF createProvider, updateProvider, Calling, CallsAreSafe, CopyTypes,
                      WorkType
        <5>2. \/ prov' \in {prov, None}
              \/ prov' = [data |-> work.cons.data, owner |-> "Consumer", finalizer |-> FALSE,
                          deleting |-> FALSE]
          BY <4>1 DEF createProvider, updateProvider, WriteProv, KeepProv
        <5> QED
          <6>1. work.cons.data \in Data /\ "Consumer" \in Owners
            BY <5>1 DEF Consumed, Owners
          <6> DEFINE d == work.cons.data
          <6>2. CASE prov' = [data |-> d, owner |-> "Consumer", finalizer |-> FALSE,
                              deleting |-> FALSE]
            <7> HIDE DEF d
            <7>1. d \in Data
              BY <6>1 DEF d
            <7> QED
              BY <6>1, <6>2, <7>1 DEF Provided, ProvidersOwn
          <6>3. CASE prov' \in {prov, None}
            BY <3>1, <6>3 DEF CopyTypes, ProvidersOwn
          <6> QED
            BY <5>2, <6>2, <6>3
      <4>2. CASE deleteProvider
        <5>1. \/ prov' \in {prov, None}
              \/ prov # None /\ prov' = [prov EXCEPT !.deleting = TRUE]
          BY <4>2 DEF deleteProvider, WriteProv, KeepProv, Deleted
        <5>2. CASE prov # None /\ prov' = [prov EXCEPT !.deleting = TRUE]
          <6>1. prov \in Provided
            BY <5>2 DEF CopyTypes
          <6>2. prov' \in Provided /\ prov'.owner = prov.owner
            BY <5>2, <6>1 DEF Provided
          <6> QED
            BY <3>1, <5>2, <6>2 DEF ProvidersOwn
        <5> QED
          BY <3>1, <5>1, <5>2 DEF CopyTypes, ProvidersOwn
      <4> QED
        BY <1>3, <4>1, <4>2
    <3> QED
      BY <2>1, <2>3, <3>1, <3>2, OwnEnds DEF Kept
  <2> QED
    BY <2>1, <2>2, <2>3
<1> QED
  BY <1>1, <1>2, <1>3

LEMMA OwnReconcile ==
    ASSUME OwnInv, ReconcileClaimed
    PROVE  OwnInv' /\ Kept
  BY OwnRead, OwnAnnotateProvider, OwnAnnotateConsumer, OwnCalls DEF ReconcileClaimed, Kept,
     ProvidersOwn

\* The konnector neither changes nor deletes what the provider owns, however old the copies of
\* a reconcile and wherever it is interrupted (claimedresources_reconcile.go, determineOwner).
THEOREM ProviderKeeps == CRSpec => ProviderKeepsItsOwn
<1>1. OwnInv /\ [CRNext]_crVars => OwnInv'
  <2> SUFFICES ASSUME OwnInv, [CRNext]_crVars PROVE OwnInv'
    OBVIOUS
  <2>1. CASE UNCHANGED crVars
    BY <2>1 DEF crVars, copies, OwnInv, CopyTypes, FreshCopies, NotBothOwn, CallsAreSafe,
                ProvidersOwn,
                ConsumersOwn
  <2>2. CASE CallFails
    BY <2>2, OwnEnds DEF CallFails, Ends, KeepProv, KeepCons
  <2>3. CASE CRNext /\ ~CallFails
    BY <2>3, OwnProviderChanges, OwnConsumerChanges, OwnNamespacesChange, OwnEvents, OwnRestart,
       OwnReconcile DEF CRNext
  <2> QED
    BY <2>1, <2>2, <2>3
<1>2. OwnInv => [ReconcileClaimed /\ prov # None /\ prov.owner = "Provider" =>
                   prov' # None /\ prov'.data = prov.data /\ prov'.owner = "Provider"]_crVars
  BY OwnReconcile DEF Kept, ProvidersOwn
<1> QED
  BY <1>1, <1>2, OwnInit, PTL DEF CRSpec, ProviderKeepsItsOwn
=============================================================================

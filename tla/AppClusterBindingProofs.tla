----------------------- MODULE AppClusterBindingProofs -----------------------
(***************************************************************************)
(* Proofs about AppClusterBinding, for any bindings, APIs, kubeconfigs and *)
(* number of interventions.                                                *)
(***************************************************************************)
EXTENDS AppClusterBinding, TLAPS

-----------------------------------------------------------------------------
(* The inductive invariant.                                                *)

Held(b) == acb[b] # None /\ acb[b].finalizer

ReconcileSteps == {"namespace", "mirror", "clusterBinding", "role", "roleBinding",
                   "serviceBindings", "listExports", "applyExports", "deployment"}

DeleteSteps == {"deleteBindings", "deleteClusterRoles", "deleteNamespace", "verifyNamespace"}

\* What a step of the worker needs of its copy: the calls that apply exports use what was
\* listed.
WorkHasCopy ==
    /\ work.step # "idle" => work.key \in Bindings /\ work.obj # None
    /\ work.step = "applyExports" => work.seen \in Seen

\* A copy that counts as current is the stored object, so that an update meets no conflict
\* only if nobody has written since it was read.
CopiesAreCurrent ==
    /\ \A b \in fresh : cache[b] = acb[b]
    /\ work.current => /\ work.step # "idle" /\ work.key \in fresh
                       /\ cache[work.key] = work.obj

\* Everything is made under the finalizer: a cached object that carries it and is not being
\* deleted still carries it, and so does one that is reconciled.
MadeUnderFinalizer ==
    /\ \A b \in Bindings : cache[b] # None /\ cache[b].finalizer /\ ~cache[b].deleting => Held(b)
    /\ work.step \in ReconcileSteps \cup {"secret", "status"} => Held(work.key)
    /\ work.step \in DeleteSteps \cup {"removeFinalizer"} => work.obj.deleting

\* A binding root namespace belongs to a binding with the finalizer.
RootsAreHeld ==
    \A n \in Roots :
        ns[n] # EmptyRoot => \E b \in Bindings : getBindingRootNamespace(b) = n /\ Held(b)

LegacyIsHeld == \A b \in legacy : Held(b)

\* The finalizer is about to go only after the ClusterRoles and the namespace.
VerifiedGone ==
    ~work.err =>
        /\ work.step \in {"deleteNamespace", "verifyNamespace", "removeFinalizer"} => work.key \notin legacy
        /\ work.step = "removeFinalizer" => ns[root] = EmptyRoot

Inv ==
    /\ TypeOK
    /\ WorkHasCopy
    /\ CopiesAreCurrent
    /\ MadeUnderFinalizer
    /\ RootsAreHeld
    /\ LegacyIsHeld
    /\ VerifiedGone

\* A binding root namespace is gone when the last binding that uses it is.
RootGoesWithTheLast ==
    \A n \in Roots :
        (\A b \in Bindings : getBindingRootNamespace(b) = n => acb[b] = None) => ns[n] = EmptyRoot

-----------------------------------------------------------------------------
(* Facts about steps, records and namespaces.                              *)

LEMMA StepFacts ==
    /\ DOMAIN Succ = ReconcileSteps /\ DOMAIN Skip = ReconcileSteps
    /\ DOMAIN DeleteSucc = DeleteSteps
    /\ Steps = ReconcileSteps \cup DeleteSteps \cup {"idle", "addFinalizer", "secret", "status", "removeFinalizer"}
  BY DEF Succ, Skip, DeleteSucc, ReconcileSteps, DeleteSteps, Steps

\* Where reconcile and ensureDeleted go on; only a listing is followed by applyExports.
LEMMA SuccFacts ==
    /\ \A s \in ReconcileSteps \ {"listExports"} :
          Succ[s] \in (ReconcileSteps \ {"applyExports"}) \cup {"status"}
    /\ \A s \in ReconcileSteps : Skip[s] \in (ReconcileSteps \ {"applyExports"}) \cup {"status"}
    /\ DeleteSucc["deleteBindings"] = "deleteClusterRoles"
    /\ DeleteSucc["deleteClusterRoles"] = "deleteNamespace"
    /\ DeleteSucc["deleteNamespace"] = "verifyNamespace"
    /\ DeleteSucc["verifyNamespace"] = "removeFinalizer"
  BY DEF Succ, Skip, DeleteSucc, ReconcileSteps, DeleteSteps

Work == [step : Steps, key : Bindings \cup {None}, obj : Object \cup {None},
         current : BOOLEAN, status : Status, err : BOOLEAN, seen : Seen \cup {None}]

LEMMA IdleIsWork ==
    Idle \in Work /\ Idle.step = "idle" /\ ~Idle.current /\ ~Idle.err /\ NoStatus \in Status
  <1>1. NoStatus \in Status
    BY DEF NoStatus, Status, Conditions
  <1> QED
    BY <1>1, StepFacts DEF Idle, Work

\* What a step may not change of the work in progress.
SameCopy(new) == new.key = work.key /\ new.obj = work.obj /\ new.current = work.current

LEMMA WorkGoesOn ==
    ASSUME work \in Work, NEW s \in Steps, work' = [work EXCEPT !.step = s]
    PROVE  work' \in Work /\ SameCopy(work') /\ work'.step = s
  BY DEF Work, SameCopy

LEMMA WorkErr ==
    ASSUME work \in Work, NEW s \in Steps, NEW e \in BOOLEAN, work' = [work EXCEPT !.step = s, !.err = e]
    PROVE  work' \in Work /\ SameCopy(work') /\ work'.step = s /\ work'.err = e
  BY DEF Work, SameCopy

LEMMA WorkSecretValid ==
    ASSUME work \in Work, NEW s \in Steps, NEW c \in Conditions,
           work' = [work EXCEPT !.step = s, !.status.secretValid = c]
    PROVE  work' \in Work /\ SameCopy(work') /\ work'.step = s
  <1>1. [work.status EXCEPT !.secretValid = c] \in Status
    BY DEF Work, Status
  <1> QED
    BY <1>1 DEF Work, SameCopy

LEMMA WorkDeployed ==
    ASSUME work \in Work, NEW s \in Steps, NEW e \in BOOLEAN, NEW c \in Conditions,
           work' = [work EXCEPT !.step = s, !.err = e, !.status.deployed = c]
    PROVE  work' \in Work /\ SameCopy(work') /\ work'.step = s
  <1>1. [work.status EXCEPT !.deployed = c] \in Status
    BY DEF Work, Status
  <1> QED
    BY <1>1 DEF Work, SameCopy

LEMMA WorkSeen ==
    ASSUME work \in Work, NEW s \in Steps, NEW e \in BOOLEAN, NEW seen \in Seen \cup {None},
           work' = [work EXCEPT !.step = s, !.seen = seen, !.err = e]
    PROVE  work' \in Work /\ SameCopy(work') /\ work'.step = s /\ work'.seen = seen
  BY DEF Work, SameCopy

\* A namespace that a step may leave behind: one that is absent is empty.
ProperRoot(r) == r \in Root /\ (r.phase = "absent" => r = EmptyRoot)

LEMMA EmptyRootFacts ==
    /\ ProperRoot(EmptyRoot)
    /\ EmptyRoot.phase = "absent" /\ ~EmptyRoot.account /\ EmptyRoot.mirror = None /\ EmptyRoot.cluster = None
    /\ EmptyRoot.role = "none" /\ EmptyRoot.roleBinding = "none" /\ EmptyRoot.bindings = [a \in APIs |-> None]
    /\ EmptyRoot.requests = {} /\ EmptyRoot.exports = {} /\ EmptyRoot.konnectors = {}
  BY DEF ProperRoot, Root, EmptyRoot

LEMMA RootFacts ==
    ASSUME Inv, NEW b \in Bindings
    PROVE  getBindingRootNamespace(b) \in Roots /\ ProperRoot(ns[getBindingRootNamespace(b)])
  BY DEF Roots, Inv, TypeOK, ProperRoot

LEMMA TypeFacts ==
    ASSUME Inv
    PROVE  /\ work \in Work /\ ns \in [Roots -> Root]
           /\ \A n \in Roots : ProperRoot(ns[n])
           /\ work.step # "idle" => work.key \in Bindings /\ root \in Roots /\ work.obj \in Object
           /\ acb \in [Bindings -> Object \cup {None}] /\ cache \in [Bindings -> Object \cup {None}]
           /\ fresh \subseteq Bindings /\ queue \subseteq Bindings /\ legacy \subseteq Bindings
           /\ ops \in 0..MaxOps /\ late \subseteq Roots \X APIs
  <1>1. work \in Work
    BY DEF Inv, TypeOK, Work
  <1>2. work.step # "idle" => work.key \in Bindings /\ root \in Roots /\ work.obj \in Object
    BY <1>1 DEF Inv, WorkHasCopy, Work, root, Roots
  <1> QED
    BY <1>1, <1>2 DEF Inv, TypeOK, ProperRoot

LEMMA InterveneType ==
    ASSUME Inv, Intervene
    PROVE  ops' \in 0..MaxOps
  BY AppClusterBindingAssumption DEF Inv, TypeOK, Intervene

-----------------------------------------------------------------------------
(* Steps that change a namespace.                                          *)

\* What others do in a namespace: they begin nothing.
LEMMA OutsideStep ==
    ASSUME Inv, NEW n \in Roots, NEW new, ProperRoot(new), ns[n] = EmptyRoot => new = EmptyRoot,
           ns' = [ns EXCEPT ![n] = new],
           UNCHANGED <<acb, cache, fresh, secret, secretCache, mirrorCache, legacy, work>>,
           late' \subseteq Roots \X APIs, queue' \subseteq Bindings, ops' \in 0..MaxOps
    PROVE  Inv'
  <1>1. ns' \in [Roots -> Root] /\ \A m \in Roots : ns'[m] = IF m = n THEN new ELSE ns[m]
    BY TypeFacts DEF ProperRoot
  <1>2. TypeOK'
    BY <1>1 DEF Inv, TypeOK, ProperRoot
  <1>3. WorkHasCopy' /\ CopiesAreCurrent' /\ LegacyIsHeld'
    BY DEF Inv, WorkHasCopy, CopiesAreCurrent, LegacyIsHeld, Held
  <1>4. MadeUnderFinalizer'
    BY DEF Inv, MadeUnderFinalizer, Held
  <1>5. RootsAreHeld'
    BY <1>1 DEF Inv, RootsAreHeld, Held
  <1>6. VerifiedGone'
    <2>1. root' = root /\ (work.step = "removeFinalizer" => root \in Roots)
        BY TypeFacts DEF root
    <2> QED
        BY <1>1, <2>1 DEF Inv, VerifiedGone
  <1> QED
    BY <1>2, <1>3, <1>4, <1>5, <1>6 DEF Inv

\* What reconcile does in the namespace, under the finalizer.
LEMMA ReconcileStep ==
    ASSUME Inv, work.step \in ReconcileSteps \cup {"secret"},
           NEW new, ProperRoot(new), ns' = [ns EXCEPT ![root] = new],
           UNCHANGED <<acb, cache, fresh, secret, secretCache, mirrorCache, legacy, queue>>,
           late' \subseteq Roots \X APIs, ops' \in 0..MaxOps,
           work' \in Work, SameCopy(work'), work'.step \in ReconcileSteps \cup {"status"},
           work'.step = "applyExports" => work'.seen \in Seen
    PROVE  Inv'
  <1>0. work.step # "idle" /\ work.step # "removeFinalizer" /\ work'.step \notin DeleteSteps \cup {"idle", "removeFinalizer"}
    BY DEF ReconcileSteps, DeleteSteps
  <1>1. ns' \in [Roots -> Root] /\ \A m \in Roots : ns'[m] = IF m = root THEN new ELSE ns[m]
    BY TypeFacts DEF ProperRoot
  <1>2. TypeOK'
    BY <1>1 DEF Inv, TypeOK, ProperRoot, Work
  <1>3. WorkHasCopy' /\ CopiesAreCurrent' /\ LegacyIsHeld'
    BY <1>0 DEF Inv, WorkHasCopy, CopiesAreCurrent, LegacyIsHeld, Held, SameCopy
  <1>4. MadeUnderFinalizer'
    BY <1>0 DEF Inv, MadeUnderFinalizer, Held, SameCopy
  <1>5. RootsAreHeld'
    <2>1. Held(work.key) /\ work.key \in Bindings /\ root = getBindingRootNamespace(work.key)
        BY <1>0 DEF Inv, MadeUnderFinalizer, WorkHasCopy, root
    <2> QED
        BY <1>1, <2>1 DEF Inv, RootsAreHeld, Held
  <1>6. VerifiedGone'
    BY <1>0 DEF VerifiedGone, DeleteSteps
  <1> QED
    BY <1>2, <1>3, <1>4, <1>5, <1>6 DEF Inv

\* What ensureDeleted does: it takes away, and a step without an error has had its effect.
LEMMA DeleteStep ==
    ASSUME Inv, work.step \in DeleteSteps,
           NEW new, ProperRoot(new), ns[root] = EmptyRoot => new = EmptyRoot,
           ns' = [ns EXCEPT ![root] = new],
           UNCHANGED <<acb, cache, fresh, secret, secretCache, mirrorCache, late, queue>>,
           legacy' \subseteq legacy, ops' \in 0..MaxOps,
           work' \in Work, SameCopy(work'), work'.step = DeleteSucc[work.step],
           ~work'.err => /\ ~work.err
                         /\ work.step = "deleteClusterRoles" => work.key \notin legacy'
                         /\ work.step = "verifyNamespace" => new = EmptyRoot
    PROVE  Inv'
  <1>0. work.step # "idle" /\ work.step # "removeFinalizer"
    BY DEF DeleteSteps
  <1>a. /\ work'.step \in {"deleteClusterRoles", "deleteNamespace", "verifyNamespace", "removeFinalizer"}
        /\ work'.step \in DeleteSteps \cup {"removeFinalizer"}
        /\ work'.step \notin ReconcileSteps \cup {"secret", "status", "idle", "applyExports"}
        /\ work'.step = "deleteNamespace" => work.step = "deleteClusterRoles"
        /\ work'.step = "verifyNamespace" => work.step = "deleteNamespace"
        /\ work'.step = "removeFinalizer" => work.step = "verifyNamespace"
    BY SuccFacts DEF DeleteSteps, ReconcileSteps
  <1>1. ns' \in [Roots -> Root] /\ \A m \in Roots : ns'[m] = IF m = root THEN new ELSE ns[m]
    BY TypeFacts DEF ProperRoot
  <1>2. TypeOK'
    BY <1>1 DEF Inv, TypeOK, ProperRoot, Work
  <1>3. WorkHasCopy' /\ CopiesAreCurrent' /\ LegacyIsHeld'
    BY <1>0, <1>a DEF Inv, WorkHasCopy, CopiesAreCurrent, LegacyIsHeld, Held, SameCopy
  <1>4. MadeUnderFinalizer'
    BY <1>a DEF Inv, MadeUnderFinalizer, Held, SameCopy
  <1>5. RootsAreHeld'
    BY <1>1 DEF Inv, RootsAreHeld, Held
  <1>6. VerifiedGone'
    <2>1. root' = root /\ root \in Roots /\ work'.key = work.key
        BY <1>0, TypeFacts DEF root, SameCopy
    <2>2. ~work'.err /\ work'.step \in {"deleteNamespace", "verifyNamespace", "removeFinalizer"}
             => work.key \notin legacy'
        BY <1>a DEF Inv, VerifiedGone
    <2> QED
        BY <1>1, <1>a, <2>1, <2>2 DEF VerifiedGone
  <1> QED
    BY <1>2, <1>3, <1>4, <1>5, <1>6 DEF Inv

\* The namespace is left alone.
LEMMA NsUnchanged ==
    ASSUME Inv, NEW n \in Roots, ns' = ns
    PROVE  ns' = [ns EXCEPT ![n] = ns[n]] /\ ProperRoot(ns[n])
  BY TypeFacts

LEMMA DriftStep ==
    ASSUME Inv, NEW n \in Roots,
           \/ DriftRole(n) \/ (\E b \in Bindings : DriftDeployment(n, b)) \/ (\E a \in APIs : DriftBinding(n, a))
           \/ NamespaceGone(n)
    PROVE  Inv'
  <1> DEFINE r == ns[n]
  <1>0. ProperRoot(r) /\ r \in Root
    BY TypeFacts DEF ProperRoot
  <1>1. UNCHANGED <<acb, cache, fresh, secret, secretCache, mirrorCache, legacy, late, work>> /\ ops' \in 0..MaxOps
    BY InterveneType, TypeFacts DEF DriftRole, DriftDeployment, DriftBinding, NamespaceGone, objects, secrets
  <1>2. CASE DriftRole(n)
    <2>1. PICK field \in {"role", "roleBinding"} : r[field] = "ok" /\ ns' = [ns EXCEPT ![n][field] = "drifted"]
        BY <1>2 DEF DriftRole
    <2>2. CASE field = "role"
        <3> DEFINE new == [r EXCEPT !.role = "drifted"]
        <3>1. ns' = [ns EXCEPT ![n] = new]
            BY <2>1, <2>2, TypeFacts
        <3>2. ProperRoot(new) /\ (r = EmptyRoot => new = EmptyRoot)
            BY <1>0, <2>1, <2>2, EmptyRootFacts DEF ProperRoot, Root
        <3> HIDE DEF new
        <3> QED
            BY <1>1, <1>2, <3>1, <3>2, TypeFacts, OutsideStep DEF DriftRole
    <2>3. CASE field = "roleBinding"
        <3> DEFINE new == [r EXCEPT !.roleBinding = "drifted"]
        <3>1. ns' = [ns EXCEPT ![n] = new]
            BY <2>1, <2>3, TypeFacts
        <3>2. ProperRoot(new) /\ (r = EmptyRoot => new = EmptyRoot)
            BY <1>0, <2>1, <2>3, EmptyRootFacts DEF ProperRoot, Root
        <3> HIDE DEF new
        <3> QED
            BY <1>1, <1>2, <3>1, <3>2, TypeFacts, OutsideStep DEF DriftRole
    <2> QED
        BY <2>2, <2>3
  <1>3. CASE \E b \in Bindings : DriftDeployment(n, b)
    <2>1. PICK b \in Bindings : DriftDeployment(n, b)
        BY <1>3
    <2> DEFINE new == [r EXCEPT !.konnectors = @ \ {b}]
    <2>2. ns' = [ns EXCEPT ![n] = new] /\ b \in r.konnectors /\ queue' \subseteq Bindings
        BY <2>1, TypeFacts DEF DriftDeployment
    <2>3. ProperRoot(new) /\ (r = EmptyRoot => new = EmptyRoot)
        BY <1>0, <2>2, EmptyRootFacts DEF ProperRoot, Root
    <2> HIDE DEF new
    <2> QED
        BY <1>1, <2>2, <2>3, TypeFacts, OutsideStep
  <1>4. CASE \E a \in APIs : DriftBinding(n, a)
    <2>1. PICK a \in APIs : DriftBinding(n, a)
        BY <1>4
    <2> DEFINE new == [r EXCEPT !.bindings = [@ EXCEPT ![a] = None]]
    <2>2. ns' = [ns EXCEPT ![n] = new] /\ r.bindings[a] # None /\ queue' \subseteq Bindings
        BY <1>0, <2>1, TypeFacts DEF DriftBinding, Root
    <2>3. ProperRoot(new) /\ (r = EmptyRoot => new = EmptyRoot)
        BY <1>0, <2>2, EmptyRootFacts DEF ProperRoot, Root
    <2> HIDE DEF new
    <2> QED
        BY <1>1, <2>2, <2>3, TypeFacts, OutsideStep
  <1>5. CASE NamespaceGone(n)
    <2>1. ns' = [ns EXCEPT ![n] = EmptyRoot] /\ queue' \subseteq Bindings
        BY <1>0, <1>5, TypeFacts DEF NamespaceGone, Root
    <2> QED
        BY <1>1, <2>1, EmptyRootFacts, TypeFacts, OutsideStep
  <1> QED
    BY <1>2, <1>3, <1>4, <1>5

LEMMA ServeStep ==
    ASSUME Inv, NEW n \in Roots,
           \/ \E q \in ns[n].requests : Serve(n, q) \/ Expire(n, q)
           \/ \E a \in APIs : ServeLate(n, a)
    PROVE  Inv'
  <1> DEFINE r == ns[n]
  <1>0. ProperRoot(r) /\ r \in Root
    BY TypeFacts DEF ProperRoot
  <1>1. /\ UNCHANGED <<acb, cache, fresh, secret, secretCache, mirrorCache, legacy, queue, work>>
        /\ ops' \in 0..MaxOps /\ queue' \subseteq Bindings /\ late' \subseteq Roots \X APIs
    BY TypeFacts DEF Serve, Expire, ServeLate, objects, secrets
  <1>2. CASE \E q \in ns[n].requests : Serve(n, q)
    <2>1. PICK q \in ns[n].requests : Serve(n, q)
        BY <1>2
    <2> DEFINE served == [q EXCEPT !.done = TRUE]
    <2> DEFINE new == [r EXCEPT !.exports = @ \cup {q.api}, !.requests = (@ \ {q}) \cup {served}]
    <2>2. ns' = [ns EXCEPT ![n] = new] /\ r.phase = "active"
        BY <2>1, TypeFacts DEF Serve
    <2>3. served \in Request /\ q.api \in APIs
        BY <1>0, <2>1 DEF Root, Request
    <2> HIDE DEF served
    <2>4. ProperRoot(new) /\ (r = EmptyRoot => new = EmptyRoot)
        BY <1>0, <2>2, <2>3, EmptyRootFacts DEF ProperRoot, Root
    <2> HIDE DEF new
    <2> QED
        BY <1>1, <2>2, <2>4, OutsideStep
  <1>3. CASE \E q \in ns[n].requests : Expire(n, q)
    <2>1. PICK q \in ns[n].requests : Expire(n, q)
        BY <1>3
    <2> DEFINE new == [r EXCEPT !.requests = @ \ {q}]
    <2>2. ns' = [ns EXCEPT ![n] = new]
        BY <2>1, TypeFacts DEF Expire
    <2>4. ProperRoot(new) /\ (r = EmptyRoot => new = EmptyRoot)
        BY <1>0, <2>2, EmptyRootFacts DEF ProperRoot, Root
    <2> HIDE DEF new
    <2> QED
        BY <1>1, <2>2, <2>4, OutsideStep
  <1>4. CASE \E a \in APIs : ServeLate(n, a)
    <2>1. PICK a \in APIs : ServeLate(n, a)
        BY <1>4
    <2>2. CASE r.phase = "active"
        <3> DEFINE new == [r EXCEPT !.exports = @ \cup {a}]
        <3>1. ns' = [ns EXCEPT ![n] = new]
            BY <2>1, <2>2, TypeFacts DEF ServeLate
        <3>2. ProperRoot(new) /\ (r = EmptyRoot => new = EmptyRoot)
            BY <1>0, <2>2, EmptyRootFacts DEF ProperRoot, Root
        <3> HIDE DEF new
        <3> QED
            BY <1>1, <3>1, <3>2, OutsideStep
    <2>3. CASE r.phase # "active"
        <3>1. ns' = ns
            BY <2>1, <2>3 DEF ServeLate
        <3> QED
            BY <1>1, <3>1, NsUnchanged, OutsideStep
    <2> QED
        BY <2>2, <2>3
  <1> QED
    BY <1>2, <1>3, <1>4

-----------------------------------------------------------------------------
(* reconcile.                                                              *)

LEMMA OkStep ==
    ASSUME Inv, work.step \in ReconcileSteps \ {"listExports"}, NEW new, ProperRoot(new), Ok(new),
           InReconcile, late' = late
    PROVE  Inv'
  <1>1. ns' = [ns EXCEPT ![root] = new] /\ work' = [work EXCEPT !.step = Succ[work.step]]
    BY DEF Ok
  <1>2. Succ[work.step] \in (ReconcileSteps \ {"applyExports"}) \cup {"status"}
    BY SuccFacts
  <1>3. Succ[work.step] \in Steps
    BY <1>2, StepFacts
  <1>4. work' \in Work /\ SameCopy(work') /\ work'.step = Succ[work.step]
    BY <1>1, <1>3, TypeFacts, WorkGoesOn
  <1>5. UNCHANGED <<acb, cache, fresh, secret, secretCache, mirrorCache, legacy, queue>> /\ ops' \in 0..MaxOps
    BY TypeFacts DEF InReconcile, objects, secrets
  <1> QED
    BY <1>1, <1>2, <1>4, <1>5, TypeFacts, ReconcileStep

LEMMA ErrorStep ==
    ASSUME Inv, work.step \in ReconcileSteps, Error, InReconcile, late' = late
    PROVE  Inv'
  <1>0. work.step # "idle"
    BY DEF ReconcileSteps
  <1>1. ns' = ns /\ work' = [work EXCEPT !.step = Skip[work.step], !.err = TRUE]
    BY DEF Error
  <1>2. Skip[work.step] \in (ReconcileSteps \ {"applyExports"}) \cup {"status"}
    BY SuccFacts
  <1>3. Skip[work.step] \in Steps
    BY <1>2, StepFacts
  <1>4. work' \in Work /\ SameCopy(work') /\ work'.step = Skip[work.step]
    BY <1>1, <1>3, TypeFacts, WorkErr
  <1>5. UNCHANGED <<acb, cache, fresh, secret, secretCache, mirrorCache, legacy, queue>> /\ ops' \in 0..MaxOps
    BY TypeFacts DEF InReconcile, objects, secrets
  <1>6. ns' = [ns EXCEPT ![root] = ns[root]] /\ ProperRoot(ns[root])
    BY <1>0, <1>1, TypeFacts, NsUnchanged
  <1> QED
    BY <1>2, <1>4, <1>5, <1>6, TypeFacts, ReconcileStep

\* An object is created only in an active namespace and updated where it exists: the
\* namespace is not absent.
LEMMA PutStep ==
    ASSUME Inv, work.step \in ReconcileSteps \ {"listExports"}, NEW field, NEW value, Put(field, value),
           \/ field = "account" /\ value = TRUE
           \/ field = "mirror" /\ value \in Versions
           \/ field = "cluster" /\ value \in Bindings
           \/ field \in {"role", "roleBinding"} /\ value = "ok",
           InReconcile, late' = late
    PROVE  Inv'
  <1> DEFINE r == ns[root]
             new == [r EXCEPT ![field] = value]
  <1>0. r \in Root /\ ProperRoot(r)
    BY TypeFacts DEF ProperRoot, ReconcileSteps
  <1>1. CASE Error
    BY <1>1, ErrorStep
  <1>2. CASE Ok(new) /\ (r.phase = "active" \/ r[field] # EmptyRoot[field])
    <2>1. r.phase # "absent"
        BY <1>0, <1>2, EmptyRootFacts DEF ProperRoot
    <2>2. new \in Root /\ new.phase = r.phase
        <3>1. CASE field = "account" /\ value = TRUE
            BY <1>0, <3>1 DEF Root
        <3>2. CASE field = "mirror" /\ value \in Versions
            BY <1>0, <3>2 DEF Root
        <3>3. CASE field = "cluster" /\ value \in Bindings
            BY <1>0, <3>3 DEF Root
        <3>4. CASE field = "role" /\ value = "ok"
            BY <1>0, <3>4 DEF Root
        <3>5. CASE field = "roleBinding" /\ value = "ok"
            BY <1>0, <3>5 DEF Root
        <3> QED
            BY <3>1, <3>2, <3>3, <3>4, <3>5
    <2>3. ProperRoot(new)
        BY <2>1, <2>2 DEF ProperRoot
    <2> HIDE DEF new
    <2> QED
        BY <1>2, <2>3, OkStep
  <1> QED
    BY <1>1, <1>2 DEF Put

LEMMA SecretStep ==
    ASSUME Inv, ensureValidKubeconfigSecret
    PROVE  Inv'
  <1> DEFINE valid == secretCache[work.key] \in Versions
             s == IF valid THEN "namespace" ELSE "status"
             c == IF valid THEN "true" ELSE "false"
  <1>1. /\ work.step = "secret" /\ ns' = ns /\ late' = late
        /\ work' = [work EXCEPT !.step = s, !.status.secretValid = c]
        /\ UNCHANGED <<acb, cache, fresh, secret, secretCache, mirrorCache, legacy, queue, ops>>
    BY DEF ensureValidKubeconfigSecret, InReconcile, objects, secrets
  <1>2. s \in Steps /\ c \in Conditions /\ s \in (ReconcileSteps \ {"applyExports"}) \cup {"status"}
    BY StepFacts DEF ReconcileSteps, Conditions
  <1> HIDE DEF s, c
  <1>3. work' \in Work /\ SameCopy(work') /\ work'.step = s
    BY <1>1, <1>2, TypeFacts, WorkSecretValid
  <1>4. ns' = [ns EXCEPT ![root] = ns[root]] /\ ProperRoot(ns[root])
    BY <1>1, TypeFacts, NsUnchanged
  <1> QED
    BY <1>1, <1>2, <1>3, <1>4, TypeFacts, ReconcileStep

LEMMA EnsureStep ==
    ASSUME Inv, EnsureNamespace \/ ensureBindingRootKubeconfigSecret \/ EnsureClusterBinding
                \/ ensureControlPlaneConnectorRBAC
    PROVE  Inv'
  <1>0. InReconcile /\ late' = late /\ work.step \in ReconcileSteps \ {"listExports"} /\ work.key \in Bindings
    BY TypeFacts DEF EnsureNamespace, ensureBindingRootKubeconfigSecret, EnsureClusterBinding,
                     ensureControlPlaneConnectorRBAC, ReconcileSteps
  <1>a. ns[root] \in Root /\ ProperRoot(ns[root]) /\ secretCache[work.key] \in Contents
    BY <1>0, TypeFacts DEF ProperRoot, ReconcileSteps, Inv, TypeOK
  <1>1. CASE EnsureNamespace
    <2> DEFINE new == [ns[root] EXCEPT !.phase = "active", !.account = TRUE]
    <2>1. CASE Ok(new)
        <3>1. ProperRoot(new)
            BY <1>a DEF ProperRoot, Root
        <3> HIDE DEF new
        <3> QED
            BY <1>0, <2>1, <3>1, OkStep
    <2>2. CASE Put("account", TRUE)
        BY <1>0, <2>2, PutStep
    <2> QED
        BY <1>1, <2>1, <2>2 DEF EnsureNamespace
  <1>2. CASE ensureBindingRootKubeconfigSecret
    <2>1. CASE Error
        BY <1>0, <2>1, ErrorStep
    <2>2. CASE Ok(ns[root])
        BY <1>0, <1>a, <2>2, OkStep
    <2>3. CASE secretCache[work.key] \in Versions /\ Put("mirror", secretCache[work.key])
        BY <1>0, <2>3, PutStep
    <2> QED
        BY <1>2, <1>a, <2>1, <2>2, <2>3 DEF ensureBindingRootKubeconfigSecret, Contents
  <1>3. CASE EnsureClusterBinding
    BY <1>0, <1>3, PutStep DEF EnsureClusterBinding
  <1>4. CASE ensureControlPlaneConnectorRBAC
    BY <1>0, <1>4, PutStep DEF ensureControlPlaneConnectorRBAC
  <1> QED
    BY <1>1, <1>2, <1>3, <1>4

LEMMA ServiceBindingsStep ==
    ASSUME Inv, ensureServiceBindings
    PROVE  Inv'
  <1> DEFINE r == ns[root]
             have == r.bindings
             want == work.obj.spec.exports
             next(a) == CASE have[a] = work.key /\ a \notin want -> None
                          [] have[a] = None /\ a \in want -> newServiceBinding(work.key, a).owner
                          [] OTHER -> have[a]
             all == [a \in APIs |-> next(a)]
             some == [a \in APIs |-> IF have[a] = None THEN None ELSE next(a)]
  <1>0. /\ work.step = "serviceBindings" /\ InReconcile /\ late' = late
        /\ work.key \in Bindings /\ root \in Roots
        /\ work.step \in ReconcileSteps \ {"listExports"}
    BY TypeFacts DEF ensureServiceBindings, ReconcileSteps
  <1>a. r \in Root /\ ProperRoot(r)
    BY <1>0, TypeFacts DEF ProperRoot
  <1>b. all \in [APIs -> Bindings \cup {None}] /\ some \in [APIs -> Bindings \cup {None}]
    <2>1. ASSUME NEW a \in APIs PROVE next(a) \in Bindings \cup {None}
        BY <1>0, <1>a DEF newServiceBinding, Root
    <2> QED
        BY <2>1
  <1>c. r = EmptyRoot => some = EmptyRoot.bindings
    BY EmptyRootFacts
  <1>1. CASE Error
    BY <1>0, <1>1, ErrorStep
  <1>2. CASE r.phase = "active" /\ Ok([r EXCEPT !.bindings = all])
    <2> HIDE DEF all
    <2> DEFINE new == [r EXCEPT !.bindings = all]
    <2>1. ProperRoot(new)
        BY <1>a, <1>b, <1>2 DEF ProperRoot, Root
    <2> HIDE DEF new
    <2> QED
        BY <1>0, <1>2, <2>1, OkStep DEF new
  <1>3. CASE /\ ns' = [ns EXCEPT ![root].bindings = some]
             /\ work' = [work EXCEPT !.step = Skip[work.step],
                                     !.err = work.err \/ \E a \in want : have[a] = None]
    <2> DEFINE e == work.err \/ \E a \in want : have[a] = None
               new == [r EXCEPT !.bindings = some]
    <2>1. ns' = [ns EXCEPT ![root] = new]
        BY <1>0, <1>3, TypeFacts
    <2>2. e \in BOOLEAN
        OBVIOUS
    <2>3. ProperRoot(new)
        <3> HIDE DEF some
        <3>1. new \in Root /\ new.phase = r.phase
            BY <1>a, <1>b DEF Root
        <3>2. r = EmptyRoot => new = EmptyRoot
            BY <1>c, EmptyRootFacts DEF ProperRoot, Root
        <3> QED
            BY <1>a, <3>1, <3>2 DEF ProperRoot
    <2>4. Skip[work.step] \in Steps /\ Skip[work.step] \in (ReconcileSteps \ {"applyExports"}) \cup {"status"}
        BY <1>0, SuccFacts, StepFacts
    <2>5. work' \in Work /\ SameCopy(work') /\ work'.step = Skip[work.step]
        <3>1. work' = [work EXCEPT !.step = Skip[work.step], !.err = e]
            BY <1>3
        <3> HIDE DEF e
        <3> QED
            BY <2>2, <2>4, <3>1, TypeFacts, WorkErr
    <2>6. UNCHANGED <<acb, cache, fresh, secret, secretCache, mirrorCache, legacy, queue>> /\ ops' \in 0..MaxOps
        BY <1>0, TypeFacts DEF InReconcile, objects, secrets
    <2> HIDE DEF new, e
    <2> QED
        BY <1>0, <2>1, <2>3, <2>4, <2>5, <2>6, TypeFacts, ReconcileStep
  <1> QED
    BY <1>1, <1>2, <1>3 DEF ensureServiceBindings

LEMMA LookupStep ==
    ASSUME Inv, work.step = "listExports", NEW found \in SUBSET APIs, Lookup(found), ops' \in 0..MaxOps
    PROVE  Inv'
  <1> DEFINE r == ns[root]
             seen == [desired |-> found, exports |-> r.exports,
                      requests |-> {q \in r.requests : q.owner = work.key}]
             e == work.err \/ found # work.obj.spec.exports
  <1>0. root \in Roots /\ r \in Root /\ "applyExports" \in Steps /\ e \in BOOLEAN
    BY TypeFacts, StepFacts DEF ReconcileSteps
  <1>1. seen \in Seen
    <2>1. r.exports \in SUBSET APIs /\ {q \in r.requests : q.owner = work.key} \in SUBSET Request
        BY <1>0 DEF Root
    <2> QED
        BY <2>1 DEF Seen
  <1>2. /\ work' = [work EXCEPT !.step = "applyExports", !.seen = seen, !.err = e]
        /\ UNCHANGED <<acb, cache, fresh, secret, secretCache, mirrorCache, ns, legacy, late, queue>>
    BY DEF Lookup, objects, secrets
  <1> HIDE DEF seen, e
  <1>3. work' \in Work /\ SameCopy(work') /\ work'.step = "applyExports" /\ work'.seen = seen
    BY <1>0, <1>1, <1>2, TypeFacts, WorkSeen
  <1>4. ns' = [ns EXCEPT ![root] = ns[root]] /\ ProperRoot(ns[root])
    BY <1>0, <1>2, NsUnchanged
  <1> QED
    BY <1>1, <1>2, <1>3, <1>4, TypeFacts, ReconcileStep DEF ReconcileSteps

LEMMA ListExportsStep ==
    ASSUME Inv, listExports \/ listExportsFails
    PROVE  Inv'
  <1>1. WithTemplate(work.obj.spec.exports) \in SUBSET APIs
        /\ \A failed : WithTemplate(work.obj.spec.exports \ failed) \in SUBSET APIs
    BY AppClusterBindingAssumption DEF WithTemplate
  <1>2. work.step = "listExports" /\ ops' \in 0..MaxOps
    BY TypeFacts, InterveneType DEF listExports, listExportsFails
  <1>3. \E found \in SUBSET APIs : Lookup(found)
    BY <1>1 DEF listExports, listExportsFails
  <1> QED
    BY <1>2, <1>3, LookupStep

\* applyExports takes away and asks for exports; only an active namespace takes requests.
LEMMA ApplyExportsStep ==
    ASSUME Inv, applyExports
    PROVE  Inv'
  <1> DEFINE r == ns[root]
             seen == work.seen
             stale == {q \in r.requests : q \in seen.requests /\ q.api \notin seen.desired}
             missing == {a \in seen.desired \ seen.exports : \A q \in seen.requests : q.api # a}
             requested == {newAPIServiceExportRequest(q.owner, q.api) : q \in r.requests}
             asked == {newAPIServiceExportRequest(work.key, a) : a \in missing} \ requested
             refused == asked # {} /\ r.phase # "active"
             kept == (r.requests \ stale) \cup (IF refused THEN {} ELSE asked)
             exports == r.exports \ (seen.exports \ seen.desired)
             e == work.err \/ refused
  <1>0. /\ work.step = "applyExports" /\ work.key \in Bindings /\ root \in Roots /\ seen \in Seen
        /\ r \in Root /\ ProperRoot(r) /\ InReconcile
    BY TypeFacts DEF applyExports, Inv, WorkHasCopy, ProperRoot
  <1>1. /\ ns' = [ns EXCEPT ![root].exports = @ \ (seen.exports \ seen.desired),
                            ![root].requests = (@ \ stale) \cup (IF refused THEN {} ELSE asked)]
        /\ late' = late \cup {<<root, q.api>> : q \in {x \in stale : ~x.done}}
        /\ work' = [work EXCEPT !.step = "deployment", !.seen = None, !.err = e]
    BY DEF applyExports
  <1>2. asked \subseteq Request /\ stale \subseteq Request /\ r.requests \subseteq Request
    <2>1. missing \subseteq APIs /\ r.requests \subseteq Request
        BY <1>0 DEF Seen, Root
    <2>2. \A a \in APIs : newAPIServiceExportRequest(work.key, a) \in Request
        BY <1>0 DEF newAPIServiceExportRequest, Request
    <2> QED
        BY <2>1, <2>2
  <1>3. late' \subseteq Roots \X APIs
    <2>1. \A q \in stale : q.api \in APIs
        BY <1>2 DEF Request
    <2> HIDE DEF stale
    <2> QED
        BY <1>0, <1>1, <2>1, TypeFacts
  <1> DEFINE new == [r EXCEPT !.exports = exports, !.requests = kept]
  <1>4. ns' = [ns EXCEPT ![root] = new]
    <2> HIDE DEF stale, asked, refused, seen
    <2> QED
        BY <1>0, <1>1, TypeFacts DEF Root
  <1>5. kept \subseteq Request /\ exports \subseteq APIs
    BY <1>0, <1>2 DEF Root
  <1>6. r = EmptyRoot => kept = {} /\ exports = {}
    BY EmptyRootFacts
  <1> HIDE DEF kept, exports
  <1>7. ProperRoot(new)
    <2>1. new \in Root /\ new.phase = r.phase
        BY <1>0, <1>5 DEF Root
    <2>2. r = EmptyRoot => new = EmptyRoot
        BY <1>0, <1>6, EmptyRootFacts DEF ProperRoot, Root
    <2> QED
        BY <1>0, <2>1, <2>2 DEF ProperRoot
  <1>8. work' \in Work /\ SameCopy(work') /\ work'.step = "deployment"
    <2>1. "deployment" \in Steps /\ e \in BOOLEAN
        BY StepFacts DEF ReconcileSteps
    <2> HIDE DEF e
    <2> QED
        BY <1>1, <2>1, TypeFacts, WorkSeen
  <1>9. UNCHANGED <<acb, cache, fresh, secret, secretCache, mirrorCache, legacy, queue>> /\ ops' \in 0..MaxOps
    BY <1>0, TypeFacts DEF InReconcile, objects, secrets
  <1> HIDE DEF new
  <1> QED
    BY <1>0, <1>3, <1>4, <1>7, <1>8, <1>9, ReconcileStep DEF ReconcileSteps

LEMMA DeploymentStep ==
    ASSUME Inv, ensureKonnectorDeployment
    PROVE  Inv'
  <1> DEFINE r == ns[root]
             have == r.konnectors
             refused == work.obj.spec.deploy /\ work.key \notin have /\ r.phase # "active"
             konnectors == IF work.obj.spec.deploy THEN have \cup {work.key} ELSE have \ {work.key}
             e == work.err \/ refused
             c == IF refused THEN "false" ELSE "true"
  <1>0. /\ work.step = "deployment" /\ work.key \in Bindings /\ root \in Roots
        /\ r \in Root /\ ProperRoot(r) /\ InReconcile /\ late' = late
    BY TypeFacts DEF ensureKonnectorDeployment, ProperRoot
  <1>1. /\ ns' = IF refused THEN ns ELSE [ns EXCEPT ![root].konnectors = konnectors]
        /\ work' = [work EXCEPT !.step = "status", !.err = e, !.status.deployed = c]
    BY DEF ensureKonnectorDeployment
  <1>2. work' \in Work /\ SameCopy(work') /\ work'.step = "status"
    <2>1. "status" \in Steps /\ e \in BOOLEAN /\ c \in Conditions
        BY StepFacts DEF Conditions
    <2> HIDE DEF e, c
    <2> QED
        BY <1>1, <2>1, TypeFacts, WorkDeployed
  <1>3. UNCHANGED <<acb, cache, fresh, secret, secretCache, mirrorCache, legacy, queue>> /\ ops' \in 0..MaxOps
    BY <1>0, TypeFacts DEF InReconcile, objects, secrets
  <1>4. CASE refused
    <2>1. ns' = [ns EXCEPT ![root] = ns[root]] /\ ProperRoot(ns[root])
        BY <1>0, <1>1, <1>4, NsUnchanged
    <2> QED
        BY <1>0, <1>2, <1>3, <2>1, TypeFacts, ReconcileStep DEF ReconcileSteps
  <1>5. CASE ~refused
    <2> DEFINE new == [r EXCEPT !.konnectors = konnectors]
    <2>1. ns' = [ns EXCEPT ![root] = new]
        BY <1>0, <1>1, <1>5, TypeFacts
    <2>2. konnectors \subseteq Bindings /\ (r = EmptyRoot => konnectors = {})
        BY <1>0, <1>5, EmptyRootFacts DEF Root
    <2> HIDE DEF konnectors
    <2>3. new \in Root /\ new.phase = r.phase
        BY <1>0, <2>2 DEF Root
    <2>4. r = EmptyRoot => new = EmptyRoot
        BY <1>0, <2>2, EmptyRootFacts DEF ProperRoot, Root
    <2>5. ProperRoot(new)
        BY <1>0, <2>3, <2>4 DEF ProperRoot
    <2> HIDE DEF new
    <2> QED
        BY <1>0, <1>2, <1>3, <2>1, <2>5, TypeFacts, ReconcileStep DEF ReconcileSteps
  <1> QED
    BY <1>4, <1>5

LEMMA StepFailsStep ==
    ASSUME Inv, StepFails
    PROVE  Inv'
  <1> DEFINE r == ns[root]
             c == IF work.step = "deployment" THEN "false" ELSE work.status.deployed
  <1>0. /\ work.step \in ReconcileSteps /\ root \in Roots
        /\ r \in Root /\ ProperRoot(r) /\ ops' \in 0..MaxOps
        /\ UNCHANGED <<acb, cache, fresh, secret, secretCache, mirrorCache, legacy, late, queue>>
    BY TypeFacts, StepFacts, InterveneType DEF StepFails, ProperRoot, ReconcileSteps, objects, secrets
  <1>1. Skip[work.step] \in Steps /\ Skip[work.step] \in (ReconcileSteps \ {"applyExports"}) \cup {"status"}
    BY <1>0, SuccFacts, StepFacts
  <1>2. work' = [work EXCEPT !.step = Skip[work.step], !.err = TRUE, !.status.deployed = c]
    BY TypeFacts DEF StepFails, Work
  <1>3. c \in Conditions
    BY TypeFacts DEF Work, Status, Conditions
  <1> HIDE DEF c
  <1>4. work' \in Work /\ SameCopy(work') /\ work'.step = Skip[work.step]
    BY <1>1, <1>2, <1>3, TypeFacts, WorkDeployed
  <1>5. CASE ns' = ns
    <2>1. ns' = [ns EXCEPT ![root] = ns[root]] /\ ProperRoot(ns[root])
        BY <1>0, <1>5, NsUnchanged
    <2> QED
        BY <1>0, <1>1, <1>4, <2>1, TypeFacts, ReconcileStep
  <1>6. CASE ns' = [ns EXCEPT ![root].phase = "active"]
    <2> DEFINE new == [r EXCEPT !.phase = "active"]
    <2>1. ns' = [ns EXCEPT ![root] = new]
        BY <1>0, <1>6, TypeFacts
    <2>2. ProperRoot(new)
        BY <1>0 DEF ProperRoot, Root
    <2> HIDE DEF new
    <2> QED
        BY <1>0, <1>1, <1>4, <2>1, <2>2, TypeFacts, ReconcileStep
  <1> QED
    BY <1>5, <1>6 DEF StepFails

-----------------------------------------------------------------------------
(* ensureDeleted.                                                          *)

LEMMA EnsureDeletedStep ==
    ASSUME Inv, ensureDeleted \/ DeleteFails
    PROVE  Inv'
  <1> DEFINE r == ns[root]
             s == DeleteSucc[work.step]
  <1>0. /\ work.step \in DeleteSteps /\ root \in Roots /\ r \in Root /\ ProperRoot(r)
        /\ ops' \in 0..MaxOps
        /\ UNCHANGED <<acb, cache, fresh, secret, secretCache, mirrorCache, late, queue>>
    BY TypeFacts, StepFacts, InterveneType
       DEF ensureDeleted, deleteServiceBindings, deleteClusterRoles, deleteNamespace, verifyNamespace,
           DeleteFails, Deleting, DeleteSteps, ProperRoot, objects, secrets
  <1>1. s \in Steps
    BY <1>0, SuccFacts, StepFacts DEF DeleteSteps
  <1>2. ASSUME NEW e \in BOOLEAN, work' = [work EXCEPT !.step = s, !.err = e]
        PROVE  work' \in Work /\ SameCopy(work') /\ work'.step = s /\ work'.err = e
    BY <1>1, <1>2, TypeFacts, WorkErr
  <1>3. work.err \in BOOLEAN
    BY TypeFacts DEF Work
  <1>4. CASE deleteServiceBindings
    <2> DEFINE bindings == [a \in APIs |-> IF r.bindings[a] = work.key THEN None ELSE r.bindings[a]]
               new == [r EXCEPT !.bindings = bindings]
    <2>1. /\ work.step = "deleteBindings" /\ ns' = [ns EXCEPT ![root].bindings = bindings] /\ legacy' = legacy
          /\ work' = [work EXCEPT !.step = s, !.err = work.err \/ FALSE]
        BY <1>4 DEF deleteServiceBindings, Deleting
    <2>2. ns' = [ns EXCEPT ![root] = new]
        BY <1>0, <2>1, TypeFacts
    <2>3. bindings \in [APIs -> Bindings \cup {None}] /\ (r = EmptyRoot => bindings = EmptyRoot.bindings)
        BY <1>0, EmptyRootFacts DEF Root
    <2> HIDE DEF bindings
    <2>4. r = EmptyRoot => new = EmptyRoot
        BY <1>0, <2>3, EmptyRootFacts DEF ProperRoot, Root
    <2>5. new \in Root /\ new.phase = r.phase
        BY <1>0, <2>3 DEF Root
    <2>6. ProperRoot(new)
        BY <1>0, <2>4, <2>5 DEF ProperRoot
    <2>7. work' \in Work /\ SameCopy(work') /\ work'.step = s /\ work'.err = work.err
        BY <1>2, <1>3, <2>1
    <2> HIDE DEF new
    <2> QED
        BY <1>0, <2>1, <2>2, <2>4, <2>6, <2>7, DeleteStep
  <1>5. CASE deleteClusterRoles
    <2>1. /\ work.step = "deleteClusterRoles" /\ ns' = ns /\ legacy' = legacy \ {work.key}
          /\ work' = [work EXCEPT !.step = s, !.err = work.err \/ FALSE]
        BY <1>5 DEF deleteClusterRoles, Deleting
    <2>2. work' \in Work /\ SameCopy(work') /\ work'.step = s /\ work'.err = work.err
        BY <1>2, <1>3, <2>1
    <2>3. ns' = [ns EXCEPT ![root] = r]
        BY <1>0, <2>1, NsUnchanged
    <2> QED
        BY <1>0, <2>1, <2>2, <2>3, DeleteStep
  <1>6. CASE deleteNamespace
    <2>1. /\ work.step = "deleteNamespace" /\ legacy' = legacy
          /\ ns' = IF r.phase = "active" THEN [ns EXCEPT ![root].phase = "terminating"] ELSE ns
          /\ work' = [work EXCEPT !.step = s, !.err = work.err \/ FALSE]
        BY <1>6 DEF deleteNamespace, Deleting
    <2>2. work' \in Work /\ SameCopy(work') /\ work'.step = s /\ work'.err = work.err
        BY <1>2, <1>3, <2>1
    <2>3. CASE r.phase = "active"
        <3> DEFINE new == [r EXCEPT !.phase = "terminating"]
        <3>1. ns' = [ns EXCEPT ![root] = new]
            BY <1>0, <2>1, <2>3, TypeFacts
        <3>2. ProperRoot(new) /\ r # EmptyRoot
            BY <1>0, <2>3, EmptyRootFacts DEF ProperRoot, Root
        <3> HIDE DEF new
        <3> QED
            BY <1>0, <2>1, <2>2, <3>1, <3>2, DeleteStep
    <2>4. CASE r.phase # "active"
        <3>1. ns' = [ns EXCEPT ![root] = r]
            BY <1>0, <2>1, <2>4, NsUnchanged
        <3> QED
            BY <1>0, <2>1, <2>2, <3>1, DeleteStep
    <2> QED
        BY <2>3, <2>4
  <1>7. CASE verifyNamespace
    <2> DEFINE e == work.err \/ r.phase # "absent"
    <2>1. /\ work.step = "verifyNamespace" /\ ns' = ns /\ legacy' = legacy
          /\ work' = [work EXCEPT !.step = s, !.err = e]
        BY <1>7 DEF verifyNamespace, Deleting
    <2>2. e \in BOOLEAN /\ (~e => ~work.err /\ r = EmptyRoot)
        BY <1>0 DEF ProperRoot
    <2> HIDE DEF e
    <2>3. work' \in Work /\ SameCopy(work') /\ work'.step = s /\ work'.err = e
        BY <1>2, <2>1, <2>2
    <2>4. ns' = [ns EXCEPT ![root] = r]
        BY <1>0, <2>1, NsUnchanged
    <2> QED
        BY <1>0, <2>1, <2>2, <2>3, <2>4, DeleteStep
  <1>8. CASE DeleteFails
    <2>1. ns' = ns /\ legacy' = legacy /\ work' = [work EXCEPT !.step = s, !.err = TRUE]
        BY <1>8 DEF DeleteFails
    <2>2. work' \in Work /\ SameCopy(work') /\ work'.step = s /\ work'.err = TRUE
        BY <1>2, <2>1
    <2>3. ns' = [ns EXCEPT ![root] = r]
        BY <1>0, <2>1, NsUnchanged
    <2> QED
        BY <1>0, <2>1, <2>2, <2>3, DeleteStep
  <1> QED
    BY <1>4, <1>5, <1>6, <1>7, <1>8 DEF ensureDeleted

-----------------------------------------------------------------------------
(* Steps that change AppClusterBindings and their copies.                  *)

\* Somebody writes an AppClusterBinding: the finalizer stays, or there was none.
LEMMA UserWrites ==
    ASSUME Inv, NEW b \in Bindings, NEW new \in Object \cup {None}, Store(b, new), Outdate(b),
           Held(b) <=> new # None /\ new.finalizer,
           UNCHANGED <<cache, secret, secretCache, mirrorCache, ns, legacy, late, queue>>,
           ops' \in 0..MaxOps
    PROVE  Inv'
  <1>1. /\ acb' \in [Bindings -> Object \cup {None}]
        /\ \A x \in Bindings : acb'[x] = IF x = b THEN new ELSE acb[x]
        /\ fresh' = fresh \ {b}
    BY TypeFacts DEF Store
  <1>2. \A x \in Bindings : Held(x)' <=> Held(x)
    BY <1>1 DEF Held
  <1>3. /\ work' \in Work /\ work'.step = work.step /\ work'.key = work.key /\ work'.obj = work.obj
        /\ work'.err = work.err /\ work'.seen = work.seen
        /\ work'.current => work.current /\ work.key # b
    BY TypeFacts DEF Outdate, Work
  <1>4. TypeOK'
    BY <1>1, <1>3 DEF Inv, TypeOK, Work
  <1>5. WorkHasCopy' /\ CopiesAreCurrent'
    BY <1>1, <1>3, TypeFacts DEF Inv, WorkHasCopy, CopiesAreCurrent
  <1>6. MadeUnderFinalizer'
    <2>1. work.step \in ReconcileSteps \cup {"secret", "status"} => work.key \in Bindings
        BY TypeFacts DEF ReconcileSteps
    <2> QED
        BY <1>2, <1>3, <2>1 DEF Inv, MadeUnderFinalizer
  <1>7. RootsAreHeld' /\ LegacyIsHeld'
    BY <1>2, TypeFacts DEF Inv, RootsAreHeld, LegacyIsHeld
  <1>8. VerifiedGone'
    BY <1>3 DEF Inv, VerifiedGone, root
  <1> QED
    BY <1>4, <1>5, <1>6, <1>7, <1>8 DEF Inv

LEMMA UserStep ==
    ASSUME Inv, NEW b \in Bindings,
           \/ \E spec \in Wanted : UserUpdate(b, spec) \/ UserCreate(b, spec)
           \/ UserDelete(b)
    PROVE  Inv'
  <1>0. /\ UNCHANGED <<cache, secret, secretCache, mirrorCache, ns, legacy, late, queue>>
        /\ ops' \in 0..MaxOps /\ Outdate(b)
    BY InterveneType DEF UserUpdate, UserCreate, UserDelete, secrets
  <1>1. ASSUME NEW spec \in Wanted, UserUpdate(b, spec) PROVE Inv'
    <2> DEFINE new == [acb[b] EXCEPT !.spec = spec]
    <2>1. acb[b] \in Object /\ acb[b] # None /\ Store(b, new) /\ spec \in Wish
        BY <1>1, TypeFacts, AppClusterBindingAssumption DEF UserUpdate
    <2>2. new \in Object /\ new.finalizer = acb[b].finalizer
        BY <2>1 DEF Object
    <2> HIDE DEF new
    <2>3. Held(b) <=> new # None /\ new.finalizer
        BY <2>1, <2>2, AppClusterBindingAssumption DEF Held
    <2> QED
        BY <1>0, <2>1, <2>2, <2>3, UserWrites
  <1>2. ASSUME NEW spec \in Wanted, UserCreate(b, spec) PROVE Inv'
    <2> DEFINE new == New(spec, FALSE)
    <2>1. acb[b] = None /\ Store(b, new) /\ spec \in Wish
        BY <1>2, AppClusterBindingAssumption DEF UserCreate
    <2>2. new \in Object /\ ~new.finalizer
        BY <2>1, IdleIsWork DEF New, Object
    <2> HIDE DEF new
    <2>3. Held(b) <=> new # None /\ new.finalizer
        BY <2>1, <2>2 DEF Held
    <2> QED
        BY <1>0, <2>1, <2>2, <2>3, UserWrites
  <1>3. CASE UserDelete(b)
    <2> DEFINE deleted == [acb[b] EXCEPT !.deleting = TRUE]
               new == IF acb[b].finalizer THEN deleted ELSE None
    <2>1. acb[b] \in Object /\ acb[b] # None /\ Store(b, new)
        BY <1>3, TypeFacts DEF UserDelete
    <2>2. deleted \in Object /\ deleted.finalizer = acb[b].finalizer
        BY <2>1 DEF Object
    <2>3. deleted # None
        BY <2>2, AppClusterBindingAssumption
    <2> HIDE DEF deleted
    <2>4. new \in Object \cup {None} /\ (Held(b) <=> new # None /\ new.finalizer)
        BY <2>1, <2>2, <2>3 DEF Held
    <2> HIDE DEF new
    <2> QED
        BY <1>0, <2>1, <2>4, UserWrites
  <1> QED
    BY <1>1, <1>2, <1>3

\* Informers and Secrets: nothing but the copies changes.
LEMMA InformerStep ==
    ASSUME Inv, NEW b \in Bindings,
           \/ Deliver(b) \/ Resync(b) \/ DeliverSecret(b)
           \/ \E content \in Contents : UserSecret(b, content)
           \/ \E n \in Roots : DeliverMirror(n)
    PROVE  Inv'
  <1>1. /\ UNCHANGED <<acb, ns, legacy, late, work>> /\ ops' \in 0..MaxOps /\ queue' \subseteq Bindings
        /\ secret' \in [Bindings -> Contents] /\ secretCache' \in [Bindings -> Contents]
    BY TypeFacts, InterveneType
       DEF Deliver, Resync, DeliverSecret, UserSecret, DeliverMirror, objects, secrets, Referring, Inv, TypeOK
  <1>2. mirrorCache' \in [Roots -> Versions \cup {None}]
    <2>1. CASE \E n \in Roots : DeliverMirror(n)
        BY <2>1, TypeFacts DEF DeliverMirror, Inv, TypeOK, Root
    <2>2. CASE mirrorCache' = mirrorCache
        BY <2>2 DEF Inv, TypeOK
    <2> QED
        BY <2>1, <2>2 DEF Deliver, Resync, DeliverSecret, UserSecret, objects, secrets
  <1>3. /\ cache' \in [Bindings -> Object \cup {None}]
        /\ \A x \in Bindings : cache'[x] = cache[x] \/ (cache'[x] = acb[x] /\ x \notin fresh)
        /\ fresh' = fresh \/ (fresh' = fresh \cup {b} /\ cache'[b] = acb[b] /\ b \notin fresh)
    <2>1. CASE Deliver(b)
        BY <2>1, TypeFacts DEF Deliver
    <2>2. CASE UNCHANGED <<cache, fresh>>
        BY <2>2, TypeFacts
    <2> QED
        BY <2>1, <2>2 DEF Resync, DeliverSecret, UserSecret, DeliverMirror, objects
  <1>4. TypeOK'
    BY <1>1, <1>2, <1>3, TypeFacts DEF Inv, TypeOK
  <1>5. WorkHasCopy' /\ CopiesAreCurrent'
    BY <1>1, <1>3, TypeFacts DEF Inv, WorkHasCopy, CopiesAreCurrent
  <1>6. MadeUnderFinalizer'
    BY <1>1, <1>3 DEF Inv, MadeUnderFinalizer, Held
  <1>7. RootsAreHeld' /\ LegacyIsHeld' /\ VerifiedGone'
    BY <1>1 DEF Inv, RootsAreHeld, LegacyIsHeld, VerifiedGone, Held, root
  <1> QED
    BY <1>4, <1>5, <1>6, <1>7 DEF Inv

\* The worker ends a reconcile without a write.
LEMMA EndStep ==
    ASSUME Inv, work' = Idle, queue' \subseteq Bindings,
           UNCHANGED <<acb, cache, fresh, secret, secretCache, mirrorCache, ns, legacy, late, ops>>
    PROVE  Inv'
  <1>1. work' \in Work /\ work'.step = "idle" /\ ~work'.current
    BY IdleIsWork
  <1>2. TypeOK'
    BY <1>1 DEF Inv, TypeOK, Work
  <1>3. WorkHasCopy' /\ CopiesAreCurrent' /\ RootsAreHeld' /\ LegacyIsHeld' /\ VerifiedGone'
    BY <1>1 DEF Inv, WorkHasCopy, CopiesAreCurrent, RootsAreHeld, LegacyIsHeld, VerifiedGone, Held
  <1>4. MadeUnderFinalizer'
    BY <1>1 DEF Inv, MadeUnderFinalizer, Held, ReconcileSteps, DeleteSteps
  <1> QED
    BY <1>2, <1>3, <1>4 DEF Inv

LEMMA FirstStepFacts ==
    ASSUME NEW obj \in Object
    PROVE  /\ FirstStep(obj) \in {"addFinalizer", "secret", "deleteBindings", "idle"}
           /\ FirstStep(obj) = "secret" => obj.finalizer /\ ~obj.deleting
           /\ FirstStep(obj) = "deleteBindings" => obj.deleting
  <1>1. obj.deleting \in BOOLEAN /\ obj.finalizer \in BOOLEAN
    BY DEF Object
  <1> QED
    BY <1>1 DEF FirstStep

LEMMA ProcessStep ==
    ASSUME Inv, NEW b \in Bindings, Process(b)
    PROVE  Inv'
  <1>1. /\ UNCHANGED <<acb, cache, fresh, secret, secretCache, mirrorCache, ns, legacy, late, ops>>
        /\ queue' \subseteq Bindings
    BY TypeFacts DEF Process, objects, secrets
  <1>2. CASE work' = Idle
    BY <1>1, <1>2, EndStep
  <1>3. CASE /\ cache[b] # None /\ FirstStep(cache[b]) # "idle"
             /\ work' = [step |-> FirstStep(cache[b]), key |-> b, obj |-> cache[b], current |-> b \in fresh,
                         status |-> cache[b].status, err |-> FALSE, seen |-> None]
    <2> DEFINE obj == cache[b]
               s == FirstStep(obj)
    <2>1. obj \in Object /\ obj # None /\ obj.status \in Status
        BY <1>3, TypeFacts DEF Object
    <2>2. /\ s \in {"addFinalizer", "secret", "deleteBindings"} /\ s \in Steps
          /\ s = "secret" => obj.finalizer /\ ~obj.deleting
          /\ s = "deleteBindings" => obj.deleting
        BY <1>3, <2>1, FirstStepFacts, StepFacts DEF DeleteSteps
    <2>3. /\ work' \in Work /\ work'.step = s /\ work'.key = b /\ work'.obj = obj
          /\ work'.current = (b \in fresh)
        <3> HIDE DEF s
        <3>1. work' = [step |-> s, key |-> b, obj |-> obj, current |-> b \in fresh,
                       status |-> obj.status, err |-> FALSE, seen |-> None]
            BY <1>3 DEF s
        <3> HIDE DEF obj
        <3> QED
            BY <2>1, <2>2, <3>1 DEF Work
    <2> HIDE DEF s
    <2>4. TypeOK'
        BY <1>1, <2>3 DEF Inv, TypeOK, Work
    <2>5. WorkHasCopy' /\ CopiesAreCurrent'
        BY <1>1, <2>1, <2>2, <2>3 DEF Inv, WorkHasCopy, CopiesAreCurrent
    <2>6. MadeUnderFinalizer'
        BY <1>1, <2>1, <2>2, <2>3 DEF Inv, MadeUnderFinalizer, Held, ReconcileSteps, DeleteSteps
    <2>7. RootsAreHeld' /\ LegacyIsHeld' /\ VerifiedGone'
        BY <1>1, <2>2, <2>3 DEF Inv, RootsAreHeld, LegacyIsHeld, VerifiedGone, Held
    <2> QED
        BY <2>4, <2>5, <2>6, <2>7 DEF Inv
  <1> QED
    BY <1>2, <1>3 DEF Process

\* The worker writes its copy: with the finalizer, or without if nothing is left.
LEMMA SaveStep ==
    ASSUME Inv, work.step # "idle", NEW new, Save(new),
           work.current => /\ new \in Object \cup {None}
                           /\ \/ new # None /\ new.finalizer
                              \/ /\ new = None /\ work.obj.deleting /\ work.key \notin legacy
                                 /\ ns[root] = EmptyRoot
    PROVE  Inv'
  <1>0. /\ UNCHANGED <<cache, secret, secretCache, mirrorCache, ns, legacy, late, ops>>
        /\ work' = Idle /\ queue' \subseteq Bindings /\ work.key \in Bindings
    BY TypeFacts DEF Save, End, secrets
  <1>1. CASE ~work.current
    BY <1>0, <1>1, EndStep DEF Save
  <1>2. CASE work.current
    <2> DEFINE b == work.key
    <2>1. /\ acb' \in [Bindings -> Object \cup {None}]
          /\ \A x \in Bindings : acb'[x] = IF x = b THEN new ELSE acb[x]
          /\ fresh' = fresh \ {b}
        BY <1>0, <1>2, TypeFacts DEF Save, Store
    <2>2. work' \in Work /\ work'.step = "idle" /\ ~work'.current
        BY <1>0, IdleIsWork
    <2>3. cache[b] = work.obj
        BY <1>2 DEF Inv, CopiesAreCurrent
    <2>4. \A x \in Bindings : Held(x) => Held(x)' \/ (x = b /\ new = None)
        BY <1>2, <2>1 DEF Held
    <2>5. TypeOK'
        BY <1>0, <2>1, <2>2 DEF Inv, TypeOK, Work
    <2>6. WorkHasCopy' /\ CopiesAreCurrent' /\ VerifiedGone'
        BY <1>0, <2>1, <2>2, TypeFacts DEF Inv, WorkHasCopy, CopiesAreCurrent, VerifiedGone
    <2>7. MadeUnderFinalizer'
        BY <1>0, <1>2, <2>2, <2>3, <2>4 DEF Inv, MadeUnderFinalizer, ReconcileSteps, DeleteSteps
    <2>8. LegacyIsHeld'
        BY <1>0, <1>2, <2>1, <2>4, TypeFacts DEF Inv, LegacyIsHeld, Held
    <2>9. RootsAreHeld'
        BY <1>0, <1>2, <2>1, <2>4 DEF Inv, RootsAreHeld, Held, root
    <2> QED
        BY <2>5, <2>6, <2>7, <2>8, <2>9 DEF Inv
  <1> QED
    BY <1>1, <1>2, TypeFacts DEF Work

LEMMA WorkerWrites ==
    ASSUME Inv, ensureFinalizer \/ updateStatus \/ removeFinalizer
    PROVE  Inv'
  <1> DEFINE b == work.key
  <1>0. work.step # "idle" /\ b \in Bindings /\ work.obj # None /\ work.status \in Status
    BY TypeFacts DEF ensureFinalizer, updateStatus, removeFinalizer, Inv, WorkHasCopy, Work
  <1>1. work.current => acb[b] = work.obj /\ acb[b] \in Object
    BY <1>0, TypeFacts DEF Inv, CopiesAreCurrent
  <1>2. CASE ensureFinalizer
    <2> DEFINE new == [acb[b] EXCEPT !.finalizer = TRUE]
    <2>1. Save(new)
        BY <1>2 DEF ensureFinalizer
    <2>2. work.current => new \in Object /\ new.finalizer
        BY <1>1 DEF Object
    <2> HIDE DEF new
    <2> QED
        BY <1>0, <2>1, <2>2, SaveStep, AppClusterBindingAssumption
  <1>3. CASE updateStatus
    <2>1. CASE Save([acb[b] EXCEPT !.status = work.status])
        <3> DEFINE new == [acb[b] EXCEPT !.status = work.status]
        <3>1. Held(b)
            BY <1>3 DEF updateStatus, Inv, MadeUnderFinalizer
        <3>2. work.current => new \in Object /\ new.finalizer
            BY <1>0, <1>1, <3>1 DEF Object, Held
        <3> HIDE DEF new
        <3> QED
            BY <1>0, <2>1, <3>2, SaveStep, AppClusterBindingAssumption DEF new
    <2>2. CASE End(work.err) /\ UNCHANGED <<objects, secrets, ns, legacy, late, ops>>
        BY <1>0, <2>2, EndStep, TypeFacts DEF End, objects, secrets
    <2> QED
        BY <1>3, <2>1, <2>2 DEF updateStatus
  <1>4. CASE removeFinalizer
    <2>1. CASE work.err
        <3>1. End(TRUE) /\ UNCHANGED <<objects, secrets, ns, legacy, late, ops>>
            BY <1>4, <2>1 DEF removeFinalizer
        <3> QED
            BY <1>0, <3>1, EndStep, TypeFacts DEF End, objects, secrets
    <2>2. CASE ~work.err
        <3>1. Save(None)
            BY <1>4, <2>2 DEF removeFinalizer
        <3>2. work.obj.deleting /\ work.key \notin legacy /\ ns[root] = EmptyRoot
            BY <1>4, <2>2 DEF removeFinalizer, Inv, MadeUnderFinalizer, VerifiedGone
        <3> QED
            BY <1>0, <3>1, <3>2, SaveStep
    <2> QED
        BY <2>1, <2>2
  <1> QED
    BY <1>2, <1>3, <1>4

-----------------------------------------------------------------------------
(* The theorems.                                                           *)

LEMMA InitInv ==
    ASSUME Init
    PROVE  Inv
  <1>1. PICK spec \in Wanted, old \in BOOLEAN :
            acb = [b \in Bindings |-> New(spec, old)] /\ legacy = IF old THEN Bindings ELSE {}
    BY DEF Init
  <1>2. New(spec, old) \in Object /\ New(spec, old).finalizer = old
    BY AppClusterBindingAssumption, IdleIsWork DEF New, Object
  <1>3. New(spec, old) # None
    BY <1>2, AppClusterBindingAssumption
  <1>4. (CHOOSE v \in Versions : TRUE) \in Contents /\ "absent" \in Contents
    BY AppClusterBindingAssumption DEF Contents
  <1>5. TypeOK
    <2>1. acb \in [Bindings -> Object \cup {None}] /\ legacy \subseteq Bindings
        BY <1>1, <1>2
    <2>2. ns \in [Roots -> Root] /\ \A n \in Roots : ns[n] = EmptyRoot
        BY EmptyRootFacts DEF Init, ProperRoot
    <2>3. work \in Work
        BY IdleIsWork DEF Init
    <2>4. /\ cache \in [Bindings -> Object \cup {None}] /\ fresh \subseteq Bindings
          /\ secretCache \in [Bindings -> Contents] /\ mirrorCache \in [Roots -> Versions \cup {None}]
          /\ late \subseteq Roots \X APIs /\ queue \subseteq Bindings
        BY <1>4 DEF Init
    <2>5. secret \in [Bindings -> Contents] /\ ops \in 0..MaxOps
        <3> DEFINE first == CHOOSE v \in Versions : TRUE
        <3>1. first \in Contents /\ secret = [b \in Bindings |-> first]
            BY <1>4 DEF Init
        <3> HIDE DEF first
        <3>2. secret \in [Bindings -> Contents]
            BY <3>1
        <3>3. ops = 0 /\ MaxOps \in Nat
            BY AppClusterBindingAssumption DEF Init
        <3> QED
            BY <3>2, <3>3
    <2> QED
        BY <2>1, <2>2, <2>3, <2>4, <2>5 DEF TypeOK, Work
  <1>6. WorkHasCopy /\ CopiesAreCurrent /\ RootsAreHeld /\ VerifiedGone
    BY IdleIsWork DEF Init, WorkHasCopy, CopiesAreCurrent, RootsAreHeld, VerifiedGone
  <1>7. MadeUnderFinalizer
    BY IdleIsWork DEF Init, MadeUnderFinalizer, ReconcileSteps, DeleteSteps
  <1>8. LegacyIsHeld
    BY <1>1, <1>2, <1>3 DEF LegacyIsHeld, Held
  <1> QED
    BY <1>5, <1>6, <1>7, <1>8 DEF Inv

LEMMA StutterStep ==
    ASSUME Inv, UNCHANGED vars
    PROVE  Inv'
  BY DEF Inv, TypeOK, WorkHasCopy, CopiesAreCurrent, MadeUnderFinalizer, RootsAreHeld, LegacyIsHeld,
         VerifiedGone, Held, root, vars

LEMMA InvStep ==
    ASSUME Inv, [Next]_vars
    PROVE  Inv'
  <1>1. CASE UNCHANGED vars
    BY <1>1, StutterStep
  <1>2. CASE Users
    <2>1. ASSUME NEW b \in Bindings,
                 \/ \E spec \in Wanted : UserUpdate(b, spec) \/ UserCreate(b, spec)
                 \/ UserDelete(b)
          PROVE  Inv'
        BY <2>1, UserStep
    <2>2. ASSUME NEW b \in Bindings, \E content \in Contents : UserSecret(b, content)
          PROVE  Inv'
        BY <2>2, InformerStep
    <2>3. ASSUME NEW n \in Roots,
                 \/ DriftRole(n) \/ (\E b \in Bindings : DriftDeployment(n, b))
                 \/ (\E a \in APIs : DriftBinding(n, a))
          PROVE  Inv'
        BY <2>3, DriftStep
    <2> QED
        BY <1>2, <2>1, <2>2, <2>3 DEF Users
  <1>3. CASE Faults
    BY <1>3, ListExportsStep, StepFailsStep, EnsureDeletedStep DEF Faults
  <1>4. CASE Worker
    BY <1>4, WorkerWrites, SecretStep, EnsureStep, ServiceBindingsStep, ListExportsStep, ApplyExportsStep,
       DeploymentStep, EnsureDeletedStep DEF Worker, reconcile
  <1>5. ASSUME NEW n \in Roots, Kubernetes(n) PROVE Inv'
    <2>1. CASE NamespaceGone(n)
        BY <2>1, DriftStep
    <2>2. CASE DeliverMirror(n)
        <3>1. PICK b \in Bindings : getBindingRootNamespace(b) = n
            BY DEF Roots
        <3> QED
            BY <2>2, <3>1, InformerStep
    <2>3. CASE (\E q \in ns[n].requests : Serve(n, q) \/ Expire(n, q)) \/ (\E a \in APIs : ServeLate(n, a))
        BY <2>3, ServeStep
    <2> QED
        BY <1>5, <2>1, <2>2, <2>3 DEF Kubernetes
  <1>6. ASSUME NEW b \in Bindings, Informers(b) \/ Resync(b) \/ Process(b) PROVE Inv'
    BY <1>6, InformerStep, ProcessStep DEF Informers
  <1> QED
    BY <1>1, <1>2, <1>3, <1>4, <1>5, <1>6 DEF Next

LEMMA InvHolds == Spec => []Inv
  <1>1. Init => Inv
    BY InitInv
  <1>2. Inv /\ [Next]_vars => Inv'
    BY InvStep
  <1> QED
    BY <1>1, <1>2, PTL DEF Spec

\* Whatever users do and calls fail, every object, copy and step of the worker keeps its type,
\* and reconcile never puts an object into a binding root namespace that is absent.
THEOREM TypeCorrect == Spec => []TypeOK
  <1>1. Inv => TypeOK
    BY DEF Inv
  <1> QED
    BY <1>1, InvHolds, PTL

\* However AppClusterBindings share a binding root namespace (getBindingRootNamespace joins
\* namespace and name by a dash, so that two of them may): when the last one that uses it is
\* gone, ensureDeleted has seen the namespace gone, with everything in it.
THEOREM RootsGoWithTheLast == Spec => []RootGoesWithTheLast
  <1>1. Inv => RootGoesWithTheLast
    BY DEF Inv, RootsAreHeld, RootGoesWithTheLast, Held
  <1> QED
    BY <1>1, InvHolds, PTL

\* An AppClusterBinding with a binding root namespace of its own leaves nothing behind when it
\* is gone: neither the namespace nor anything in it (konnector, kubeconfig, RBAC, exports),
\* nor the ClusterRoles of an earlier release.
THEOREM NothingIsLeftBehind ==
    ASSUME \A b, c \in Bindings : getBindingRootNamespace(b) = getBindingRootNamespace(c) => b = c
    PROVE  Spec => []NoLeftovers
  <1>1. Inv => NoLeftovers
    <2> SUFFICES ASSUME Inv, NEW b \in Bindings, acb[b] = None
                 PROVE  ns[getBindingRootNamespace(b)] = EmptyRoot /\ b \notin legacy
        BY DEF NoLeftovers
    <2>1. getBindingRootNamespace(b) \in Roots
        BY DEF Roots
    <2>2. ~Held(b)
        BY DEF Held
    <2> QED
        BY <2>1, <2>2 DEF Inv, RootsAreHeld, LegacyIsHeld
  <1> QED
    BY <1>1, InvHolds, PTL
=============================================================================

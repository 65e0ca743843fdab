----------------------------- MODULE Konnector -----------------------------
(***************************************************************************)
(* The konnector's top-level controller.  It watches APIServiceBindings    *)
(* and the Secrets with their kubeconfigs, and runs one cluster controller *)
(* per distinct kubeconfig, shared by all bindings that have it.           *)
(*                                                                         *)
(* A binding's kubeconfigSecretRef is immutable; the kubeconfig in the     *)
(* Secret can be rotated or removed at any time.  Two worker threads run   *)
(* reconcile: each reads the Secret from the cache, and only then takes the*)
(* lock on the map of controllers.  The cluster controllers call back into *)
(* the map to find out which bindings are theirs.                          *)
(***************************************************************************)
EXTENDS Naturals, Sequences, FiniteSets

CONSTANTS
    Bindings,      \* the names of APIServiceBindings
    Secrets,       \* the names of kubeconfig Secrets
    SecretOf,      \* the Secret each binding refers to
    Kubeconfigs,   \* kubeconfigs a Secret can hold
    Valid,         \* those that can be loaded and name a context and a namespace
    NoConfig,      \* there is no Secret, or it lacks the key
    Idle,          \* no worker holds the binding
    Workers,       \* worker threads
    StartMayFail,  \* whether newClusterController can return an error
    MaxOps         \* how many times the environment intervenes

ASSUME KonnectorAssumption ==
    /\ SecretOf \in [Bindings -> Secrets]
    /\ Valid \subseteq Kubeconfigs
    /\ NoConfig \notin Kubeconfigs
    /\ Idle \notin Kubeconfigs \cup {NoConfig}
    /\ Workers \in Nat \ {0}
    /\ StartMayFail \in BOOLEAN
    /\ MaxOps \in Nat

VARIABLES
    bound,        \* the APIServiceBindings in the informer's cache
    secret,       \* the kubeconfigs of the Secrets in the informer's cache
    queue,        \* the bindings in the workqueue
    reading,      \* the kubeconfig a worker has read for the binding it holds
    controllers,  \* the map of controllers by binding: an index into contexts, or 0
    contexts,     \* all controllerContexts created since the process started
    ops

environment == <<bound, secret>>
vars == <<environment, queue, reading, controllers, contexts, ops>>

Context == [kubeconfig      : Valid,
            serviceBindings : SUBSET Bindings,
            owner           : Bindings,  \* the binding whose name the callback uses
            cancelled       : BOOLEAN,
            started         : BOOLEAN]

Live(c) == ~contexts[c].cancelled

-----------------------------------------------------------------------------
(* Users, and the events they cause.                                       *)

Intervene == ops < MaxOps /\ ops' = ops + 1

Bind(b) ==
    /\ Intervene
    /\ b \notin bound
    /\ bound' = bound \cup {b}
    /\ queue' = queue \cup {b}
    /\ UNCHANGED <<secret, reading, controllers, contexts>>

Unbind(b) ==
    /\ Intervene
    /\ b \in bound
    /\ bound' = bound \ {b}
    /\ queue' = queue \cup {b}
    /\ UNCHANGED <<secret, reading, controllers, contexts>>

\* Mutant: the handler enqueues one of the bindings that use the Secret.
EnqueueSecretFirst(s) ==
    LET users == {b \in bound : SecretOf[b] = s}
    IN  IF users = {} THEN {} ELSE {CHOOSE b \in users : TRUE}

\* enqueueSecret: the bindings the index knows for the Secret.
EnqueueSecret(s) == {b \in bound : SecretOf[b] = s}

\* The Secret is created, changed or (NoConfig) deleted.
ChangeSecret(s, k) ==
    /\ Intervene
    /\ secret[s] # k
    /\ secret' = [secret EXCEPT ![s] = k]
    /\ queue' = queue \cup EnqueueSecret(s)
    /\ UNCHANGED <<bound, reading, controllers, contexts>>

-----------------------------------------------------------------------------
(* The workers.                                                            *)

\* processNextWorkItem hands a binding to one worker at a time; when it is gone
\* from the cache, process returns and the map stays as it is.
ProcessGone(b) ==
    /\ b \in queue \ bound
    /\ reading[b] = Idle
    /\ queue' = queue \ {b}
    /\ UNCHANGED <<environment, reading, controllers, contexts, ops>>

\* process and the first part of reconcile: the Secret is read before the lock is taken.
ReadSecret(b) ==
    /\ b \in queue \cap bound
    /\ reading[b] = Idle
    /\ Cardinality({x \in Bindings : reading[x] # Idle}) < Workers
    /\ queue' = queue \ {b}
    /\ reading' = [reading EXCEPT ![b] = secret[SecretOf[b]]]
    /\ UNCHANGED <<environment, controllers, contexts, ops>>

Moved(b) == controllers[b] # 0 /\ contexts[controllers[b]].kubeconfig # reading[b]

\* Mutant: the old controller is stopped even when other bindings use it.
WithoutAlways(context, b) ==
    [context EXCEPT !.serviceBindings = @ \ {b}, !.cancelled = TRUE]

\* The binding leaves a context, which is cancelled when it was the last one.
Without(context, b) ==
    [context EXCEPT !.serviceBindings = @ \ {b},
                    !.cancelled = @ \/ context.serviceBindings \subseteq {b}]

\* Stop existing with old kubeconfig: the contexts and the map after that.
LeftContexts(b) ==
    IF Moved(b)
    THEN [contexts EXCEPT ![controllers[b]] = Without(contexts[controllers[b]], b)]
    ELSE contexts

LeftControllers(b) == IF Moved(b) THEN [controllers EXCEPT ![b] = 0] ELSE controllers

\* Mutant: contexts whose controller did not start are not considered.
ExistingStarted(b) ==
    {c \in 1..Len(contexts) : /\ contexts[c].kubeconfig = reading[b] /\ contexts[c].started
                              /\ \E x \in Bindings : LeftControllers(b)[x] = c}

\* The contexts of the map that have the kubeconfig that was read.
Existing(b) ==
    {c \in 1..Len(contexts) : /\ contexts[c].kubeconfig = reading[b]
                              /\ \E x \in Bindings : LeftControllers(b)[x] = c}

\* reconcile without a kubeconfig, or with one that cannot be used.
ReconcileNone(b) ==
    /\ reading[b] = NoConfig \/ (reading[b] \in Kubeconfigs \ Valid /\ Existing(b) = {})
    /\ contexts' = LeftContexts(b)
    /\ controllers' = LeftControllers(b)
    /\ reading' = [reading EXCEPT ![b] = Idle]
    /\ UNCHANGED <<environment, queue, ops>>

With(context, b) == [context EXCEPT !.serviceBindings = @ \cup {b}]

\* reconcile finds a context with the kubeconfig and adds the binding to it.
ReconcileJoin(b) ==
    /\ reading[b] \in Kubeconfigs
    /\ \E c \in Existing(b) :
          /\ contexts' = [LeftContexts(b) EXCEPT ![c] = With(LeftContexts(b)[c], b)]
          /\ controllers' = [LeftControllers(b) EXCEPT ![b] = c]
    /\ reading' = [reading EXCEPT ![b] = Idle]
    /\ UNCHANGED <<environment, queue, ops>>

NewContext(b, started) ==
    [kubeconfig |-> reading[b], serviceBindings |-> {b}, owner |-> b,
     cancelled |-> FALSE, started |-> started]

\* Mutant: the map gets the index of the next context.
ReconcileStartOffByOne(b) ==
    /\ reading[b] \in Valid
    /\ Existing(b) = {}
    /\ contexts' = Append(LeftContexts(b), NewContext(b, TRUE))
    /\ controllers' = [LeftControllers(b) EXCEPT ![b] = Len(contexts) + 2]
    /\ reading' = [reading EXCEPT ![b] = Idle]
    /\ UNCHANGED <<environment, queue, ops>>

\* reconcile creates a context and starts a cluster controller for it.
ReconcileStart(b) ==
    /\ reading[b] \in Valid
    /\ Existing(b) = {}
    /\ contexts' = Append(LeftContexts(b), NewContext(b, TRUE))
    /\ controllers' = [LeftControllers(b) EXCEPT ![b] = Len(contexts) + 1]
    /\ reading' = [reading EXCEPT ![b] = Idle]
    /\ UNCHANGED <<environment, queue, ops>>

\* newClusterController fails: the context stays in the map, and the key is requeued.
ReconcileStartFails(b) ==
    /\ StartMayFail
    /\ reading[b] \in Valid
    /\ Existing(b) = {}
    /\ contexts' = Append(LeftContexts(b), NewContext(b, FALSE))
    /\ controllers' = [LeftControllers(b) EXCEPT ![b] = Len(contexts) + 1]
    /\ reading' = [reading EXCEPT ![b] = Idle]
    /\ queue' = queue \cup {b}
    /\ UNCHANGED <<environment, ops>>

-----------------------------------------------------------------------------
(* The callback of the cluster controllers.                                *)

\* reconcileServiceBinding of context c, as the code looks it up: through the map
\* entry of the binding the context was created for.
Selects(c, b) ==
    /\ controllers[contexts[c].owner] # 0
    /\ b \in contexts[controllers[contexts[c].owner]].serviceBindings

\* A new process: empty map, and the initial events enqueue every binding.
Reset ==
    /\ controllers' = [b \in Bindings |-> 0]
    /\ contexts' = <<>>
    /\ reading' = [b \in Bindings |-> Idle]
    /\ queue' = bound
    /\ UNCHANGED environment

\* The callback dereferences a map entry that is gone: the process panics and is restarted.
CallbackPanics(c) ==
    /\ Live(c) /\ contexts[c].started
    /\ controllers[contexts[c].owner] = 0
    /\ bound # {}
    /\ Reset
    /\ UNCHANGED ops

Restart == Intervene /\ Reset

-----------------------------------------------------------------------------
Init ==
    /\ bound \in SUBSET Bindings
    /\ secret \in [Secrets -> Kubeconfigs \cup {NoConfig}]
    /\ queue = bound
    /\ reading = [b \in Bindings |-> Idle]
    /\ controllers = [b \in Bindings |-> 0]
    /\ contexts = <<>>
    /\ ops = 0

Reconcile(b) ==
    ReconcileNone(b) \/ ReconcileJoin(b) \/ ReconcileStart(b) \/ ReconcileStartFails(b)

Next ==
    \/ \E b \in Bindings : Bind(b) \/ Unbind(b)
    \/ \E s \in Secrets, k \in Kubeconfigs \cup {NoConfig} : ChangeSecret(s, k)
    \/ \E b \in Bindings : ProcessGone(b) \/ ReadSecret(b) \/ Reconcile(b)
    \/ \E c \in 1..Len(contexts) : CallbackPanics(c)
    \/ Restart

Spec == Init /\ [][Next]_vars

\* The workers take every key from the queue and finish every reconcile.  Nothing is
\* assumed of users, and nothing of when the callback runs.
FairSpec ==
    /\ Spec
    /\ \A b \in Bindings : WF_vars(ProcessGone(b)) /\ SF_vars(ReadSecret(b)) /\ WF_vars(Reconcile(b))

-----------------------------------------------------------------------------
(* Properties.                                                             *)

\* Type correctness: the map only refers to contexts that were created.
TypeOK ==
    /\ bound \in SUBSET Bindings
    /\ secret \in [Secrets -> Kubeconfigs \cup {NoConfig}]
    /\ queue \in SUBSET Bindings
    /\ reading \in [Bindings -> Kubeconfigs \cup {NoConfig, Idle}]
    /\ contexts \in Seq(Context)
    /\ controllers \in [Bindings -> 0..Len(contexts)]
    /\ ops \in 0..MaxOps

\* There is never more than one running cluster controller for a kubeconfig: two of
\* them would heartbeat the same ClusterBinding and run two syncers per export.
OneControllerPerKubeconfig ==
    \A c, d \in 1..Len(contexts) :
        Live(c) /\ Live(d) /\ contexts[c].kubeconfig = contexts[d].kubeconfig => c = d

\* A context is cancelled exactly when no binding is left in it, and no binding of the
\* map refers to a cancelled context: a rotated kubeconfig never stops a controller
\* that other bindings still use.
StoppedWhenUnused ==
    /\ \A c \in 1..Len(contexts) : Live(c) <=> contexts[c].serviceBindings # {}
    /\ \A b \in Bindings : controllers[b] # 0 => Live(controllers[b])

\* Once users stop intervening, every binding ends up in the context for the kubeconfig
\* its Secret holds, and in none when the Secret holds no usable one.  Nothing is said of
\* the controller: one that failed to start is not started again.
Served ==
    <>[](\A b \in bound :
            LET k == secret[SecretOf[b]]
            IN  IF k \in Valid
                THEN /\ controllers[b] # 0
                     /\ contexts[controllers[b]].kubeconfig = k
                     /\ b \in contexts[controllers[b]].serviceBindings
                ELSE controllers[b] = 0)
=============================================================================

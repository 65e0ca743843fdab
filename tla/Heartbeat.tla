------------------------------ MODULE Heartbeat ------------------------------
(***************************************************************************)
(* A ClusterBinding and the two controllers that write its status: the     *)
(* konnector's, which copies the kubeconfig Secret of the provider to the  *)
(* consumer cluster and heartbeats, and the backend's, which judges the    *)
(* heartbeat.  The konnector also tells the APIServiceBindings of the      *)
(* Secret whether it can heartbeat.  (What the backend's reconcile does    *)
(* about RBAC is in module ServiceNamespaces.)                             *)
(*                                                                         *)
(* A time stamp is kept as its age; the clocks of the clusters agree.  A   *)
(* reconcile is split at its calls.                                        *)
(***************************************************************************)
EXTENDS Naturals

CONSTANTS
    Versions,   \* kubeconfigs
    Nothing,
    Drift,      \* ten seconds
    Interval,   \* heartbeatInterval
    SameNamespace, \* whether the provider's Secret is in the namespace of the ClusterBinding
    MaxHBOps    \* how many times users intervene, calls fail or the konnector stops

Never == 2 * Interval + 1        \* from this age on nothing changes
Ages == 0..Never

Verdicts == {"unknown", "FirstHeartbeatPending", "HeartbeatIntervalMissing", "HeartbeatTimeout",
             "HeartbeatTimeDrift", "healthy"}
Conditions == {"unknown", "false", "true"}

\* ClusterBindingStatus: the age of lastHeartbeatTime, whether there is an interval, the
\* conditions SecretValid and Healthy.
Status == [beat : Ages \cup {Nothing}, interval : BOOLEAN, secretValid : Conditions,
           healthy : Verdicts]

NoStatus == [beat |-> Nothing, interval |-> FALSE, secretValid |-> "unknown", healthy |-> "unknown"]

\* The provider's Secret may lack the key of the reference.
ProviderSecret == Versions \cup {"absent", "noKey"}

ASSUME HeartbeatAssumption ==
    /\ Drift \in Nat /\ Interval \in Nat /\ MaxHBOps \in Nat /\ SameNamespace \in BOOLEAN
    /\ 0 < Drift /\ 2 * Drift <= Interval
    /\ Nothing \notin Ages \cup Versions \cup Status
    /\ {"absent", "noKey"} \cap Versions = {}

VARIABLES
    cluster,         \* the status of the ClusterBinding
    konnectorCopy,   \* the informers' copies of it
    backendCopy,
    stale,           \* which of them are not current
    source,          \* the Secret in the provider cluster
    sourceCache,
    secret,          \* the Secret in the consumer cluster
    secretCache,
    staleSecret,
    heartbeating,    \* the condition of the APIServiceBindings
    up,              \* whether the konnector runs
    queued,          \* the controllers whose key is queued
    konnector,       \* the workers: the next call, the copy, the new status
    backend,
    hbOps

statuses == <<cluster, konnectorCopy, backendCopy, stale>>
secrets == <<source, sourceCache, secret, secretCache, staleSecret>>
hbVars == <<statuses, secrets, heartbeating, up, queued, konnector, backend, hbOps>>

Idle == [step |-> "idle", old |-> Nothing, new |-> Nothing, current |-> FALSE, content |-> Nothing,
         currentSecret |-> FALSE, err |-> FALSE]

Work == [step : {"idle", "create", "update", "commit"}, old : Status \cup {Nothing},
         new : Status \cup {Nothing}, current : BOOLEAN, content : Versions \cup {Nothing},
         currentSecret : BOOLEAN, err : BOOLEAN]

-----------------------------------------------------------------------------
(* The clock, users and other writers (external).                          *)

HBIntervene == hbOps < MaxHBOps /\ hbOps' = hbOps + 1

Older(s) ==
    IF s = Nothing \/ s.beat = Nothing \/ s.beat = Never THEN s ELSE [s EXCEPT !.beat = @ + 1]

\* A call, and the delivery of an event, takes less than a unit of time.  With it go the
\* timers: Start of the konnector polls, enqueueServiceExport queues the key as well, and
\* the backend's informers replay their caches.
TimePasses ==
    /\ konnector.step = "idle" /\ backend.step = "idle"
    /\ "backend" \notin stale
    /\ up => "konnector" \notin stale /\ sourceCache = source /\ ~staleSecret
    /\ queued' = {"backend"} \cup IF up THEN {"konnector"} ELSE {}
    /\ cluster' = Older(cluster)
    /\ konnectorCopy' = Older(konnectorCopy)
    /\ backendCopy' = Older(backendCopy)
    /\ UNCHANGED <<stale, secrets, heartbeating, up, konnector, backend, hbOps>>

ProviderRotates(content) ==
    /\ HBIntervene
    /\ source # content
    /\ source' = content
    /\ UNCHANGED <<statuses, sourceCache, secret, secretCache, staleSecret, heartbeating, up,
                   queued, konnector, backend>>

\* Somebody deletes the Secret in the consumer cluster.
UserDeletesSecret ==
    /\ HBIntervene
    /\ secret # Nothing
    /\ secret' = Nothing
    /\ staleSecret' = TRUE
    /\ konnector' = [konnector EXCEPT !.currentSecret = FALSE]
    /\ UNCHANGED <<statuses, source, sourceCache, secretCache, heartbeating, up, queued,
                   backend>>

KonnectorStops ==
    /\ HBIntervene
    /\ up
    /\ up' = FALSE
    /\ konnector' = Idle
    /\ queued' = queued \ {"konnector"}
    /\ konnectorCopy' = NoStatus
    /\ UNCHANGED <<cluster, backendCopy, stale, secrets, heartbeating, backend>>

\* It lists everything.
KonnectorStarts ==
    /\ HBIntervene
    /\ ~up
    /\ up' = TRUE
    /\ konnectorCopy' = cluster
    /\ stale' = stale \ {"konnector"}
    /\ sourceCache' = source
    /\ secretCache' = secret
    /\ staleSecret' = FALSE
    /\ queued' = queued \cup {"konnector"}
    /\ UNCHANGED <<cluster, backendCopy, source, secret, heartbeating, konnector, backend>>

-----------------------------------------------------------------------------
(* Informers and their event handlers.                                     *)

\* enqueueClusterBinding.
DeliverToKonnector ==
    /\ up /\ "konnector" \in stale
    /\ konnectorCopy' = cluster
    /\ stale' = stale \ {"konnector"}
    /\ queued' = queued \cup {"konnector"}
    /\ UNCHANGED <<cluster, backendCopy, secrets, heartbeating, up, konnector, backend, hbOps>>

\* enqueueClusterBinding of the backend.
DeliverToBackend ==
    /\ "backend" \in stale
    /\ backendCopy' = cluster
    /\ stale' = stale \ {"backend"}
    /\ queued' = queued \cup {"backend"}
    /\ UNCHANGED <<cluster, konnectorCopy, secrets, heartbeating, up, konnector, backend,
                   hbOps>>

\* enqueueProviderSecret: only for Secrets of the namespace of the ClusterBinding, which
\* need not be the one the Secret is read from.
DeliverSource ==
    /\ up /\ sourceCache # source
    /\ sourceCache' = source
    /\ queued' = IF SameNamespace THEN queued \cup {"konnector"} ELSE queued
    /\ UNCHANGED <<statuses, source, secret, secretCache, staleSecret, heartbeating, up,
                   konnector, backend, hbOps>>

\* enqueueConsumerSecret.
DeliverSecret ==
    /\ up /\ staleSecret
    /\ secretCache' = secret
    /\ staleSecret' = FALSE
    /\ queued' = queued \cup {"konnector"}
    /\ UNCHANGED <<statuses, source, sourceCache, secret, heartbeating, up, konnector,
                   backend, hbOps>>

-----------------------------------------------------------------------------
(* The konnector's controller.                                             *)

BeatsOnce(s) == [s EXCEPT !.interval = TRUE, !.beat = IF @ = Nothing THEN 0 ELSE @]

\* ensureHeartbeat: at most one heartbeat per half interval.
ensureHeartbeat(s) ==
    [s EXCEPT !.interval = TRUE, !.beat = IF @ = Nothing \/ 2 * @ > Interval THEN 0 ELSE @]

\* The end of reconcile: the new status is complete.
ToCommit(work, secretValid) ==
    [work EXCEPT !.step = "commit", !.new = [ensureHeartbeat(@) EXCEPT !.secretValid = secretValid]]

SkipsWhatTheCacheHolds ==
    LET work == [Idle EXCEPT !.old = konnectorCopy, !.new = konnectorCopy,
                             !.current = "konnector" \notin stale, !.content = sourceCache,
                             !.currentSecret = ~staleSecret]
    IN  /\ konnector.step = "idle"
        /\ "konnector" \in queued
        /\ queued' = queued \ {"konnector"}
        /\ konnector' = CASE sourceCache \notin Versions ->
                                ToCommit([work EXCEPT !.content = Nothing], "false")
                          [] sourceCache \in Versions /\ secretCache = sourceCache ->
                                ToCommit(work, "true")
                          [] sourceCache \in Versions /\ secretCache = Nothing ->
                                [work EXCEPT !.step = "create"]
                          [] OTHER -> [work EXCEPT !.step = "update"]
        /\ secretCache' = IF sourceCache \in Versions /\ secretCache # Nothing
                             THEN sourceCache
                             ELSE secretCache
        /\ UNCHANGED <<statuses, source, sourceCache, secret, staleSecret, heartbeating, up,
                       backend, hbOps>>

\* process, ensureConsumerSecret up to its call.  The update changes the object of the
\* informer's cache in place.
Process ==
    LET work == [Idle EXCEPT !.old = konnectorCopy, !.new = konnectorCopy,
                             !.current = "konnector" \notin stale, !.content = sourceCache,
                             !.currentSecret = ~staleSecret]
    IN  /\ konnector.step = "idle"
        /\ "konnector" \in queued
        /\ queued' = queued \ {"konnector"}
        /\ \/ /\ sourceCache \notin Versions
              /\ konnector' = ToCommit([work EXCEPT !.content = Nothing], "false")
              /\ UNCHANGED secretCache
           \/ /\ sourceCache \in Versions /\ secretCache = Nothing
              /\ konnector' = [work EXCEPT !.step = "create"]
              /\ UNCHANGED secretCache
           \/ /\ sourceCache \in Versions /\ secretCache # Nothing
              /\ konnector' = [work EXCEPT !.step = "update"]
              /\ secretCache' = sourceCache
        /\ UNCHANGED <<statuses, source, sourceCache, secret, staleSecret, heartbeating, up,
                       backend, hbOps>>

StoreSecret(new) ==
    /\ secret' = new
    /\ staleSecret' = TRUE

\* createConsumerSecret.
createConsumerSecret ==
    /\ konnector.step = "create"
    /\ \/ /\ secret = Nothing
          /\ StoreSecret(konnector.content)
          /\ konnector' = ToCommit(konnector, "true")
       \/ /\ secret # Nothing
          /\ konnector' = [ToCommit(konnector, konnector.old.secretValid) EXCEPT !.err = TRUE]
          /\ UNCHANGED <<secret, staleSecret>>
    /\ UNCHANGED <<statuses, source, sourceCache, secretCache, heartbeating, up, queued,
                   backend, hbOps>>

\* updateConsumerSecret: the copy carries its version.
updateConsumerSecret ==
    /\ konnector.step = "update"
    /\ \/ /\ konnector.currentSecret
          /\ IF secret = konnector.content THEN UNCHANGED <<secret, staleSecret>>
                                           ELSE StoreSecret(konnector.content)
          /\ konnector' = ToCommit(konnector, "true")
       \/ /\ ~konnector.currentSecret
          /\ konnector' = [ToCommit(konnector, konnector.old.secretValid) EXCEPT !.err = TRUE]
          /\ UNCHANGED <<secret, staleSecret>>
    /\ UNCHANGED <<statuses, source, sourceCache, secretCache, heartbeating, up, queued,
                   backend, hbOps>>

SecretCallFails ==
    /\ HBIntervene
    /\ konnector.step \in {"create", "update"}
    /\ konnector' = [ToCommit(konnector, konnector.old.secretValid) EXCEPT !.err = TRUE]
    /\ UNCHANGED <<statuses, secrets, heartbeating, up, queued, backend>>

\* The merge patch holds what changed of the time stamp, and the whole list of conditions.
Patched(work) ==
    [cluster EXCEPT !.beat = IF work.new.beat # work.old.beat THEN work.new.beat ELSE @,
                    !.interval = work.new.interval,
                    !.secretValid = work.new.secretValid, !.healthy = work.new.healthy]

Store(new) == cluster' = new /\ stale' = {"konnector", "backend"}

\* updateServiceBindings: the APIServiceBindings are told how the commit went; an error is
\* only logged.
updateServiceBindings(verdict) ==
    \/ /\ heartbeating' = verdict
       /\ UNCHANGED hbOps
    \/ /\ heartbeating # verdict
       /\ HBIntervene
       /\ UNCHANGED heartbeating

Finished(err) ==
    /\ konnector' = Idle
    /\ queued' = IF err THEN queued \cup {"konnector"} ELSE queued

\* commit: nothing is sent when nothing changed.
commit ==
    LET changed == konnector.new # konnector.old
        fails == changed /\ ~konnector.current
    IN  /\ konnector.step = "commit"
        /\ IF changed /\ konnector.current
             THEN /\ Store(Patched(konnector))
                  /\ backend' = [backend EXCEPT !.current = FALSE]
             ELSE UNCHANGED <<cluster, stale, backend>>
        /\ updateServiceBindings(IF fails THEN "false" ELSE "true")
        /\ Finished(konnector.err \/ fails)
        /\ UNCHANGED <<konnectorCopy, backendCopy, secrets, up>>

commitFails ==
    /\ HBIntervene
    /\ konnector.step = "commit"
    /\ konnector.new # konnector.old
    /\ heartbeating' = "false"
    /\ Finished(TRUE)
    /\ UNCHANGED <<statuses, secrets, up, backend>>

-----------------------------------------------------------------------------
(* The backend's controller.                                               *)

\* ensureClusterBindingConditions.
ensureClusterBindingConditions(s) ==
    CASE s.beat = Nothing -> "FirstHeartbeatPending"
      [] s.beat # Nothing /\ ~s.interval -> "HeartbeatIntervalMissing"
      [] s.beat # Nothing /\ s.interval /\ s.beat > 2 * Interval -> "HeartbeatTimeout"
      [] s.beat # Nothing /\ s.interval /\ s.beat <= 2 * Interval /\ s.beat < Drift ->
            "HeartbeatTimeDrift"
      [] s.beat # Nothing /\ s.interval /\ s.beat <= 2 * Interval /\ s.beat >= Drift -> "healthy"

BackendProcess ==
    LET new == [backendCopy EXCEPT !.healthy = ensureClusterBindingConditions(backendCopy)]
    IN  /\ backend.step = "idle"
        /\ "backend" \in queued
        /\ queued' = queued \ {"backend"}
        /\ backend' = [Idle EXCEPT !.step = "commit", !.old = backendCopy, !.new = new,
                                   !.current = "backend" \notin stale]
        /\ UNCHANGED <<statuses, secrets, heartbeating, up, konnector, hbOps>>

WritesWithoutVersion ==
    /\ backend.step = "commit"
    /\ Store(Patched(backend))
    /\ konnector' = [konnector EXCEPT !.current = FALSE]
    /\ backend' = Idle
    /\ UNCHANGED <<konnectorCopy, backendCopy, secrets, heartbeating, up, queued, hbOps>>

\* RBAC may have failed on the way (module ServiceNamespaces): the key is queued again.
backendCommit ==
    LET changed == backend.new # backend.old
        fails == changed /\ ~backend.current
    IN  /\ backend.step = "commit"
        /\ IF changed /\ backend.current
             THEN /\ Store(Patched(backend))
                  /\ konnector' = [konnector EXCEPT !.current = FALSE]
             ELSE UNCHANGED <<cluster, stale, konnector>>
        /\ backend' = Idle
        /\ queued' = IF fails THEN queued \cup {"backend"} ELSE queued
        /\ UNCHANGED <<konnectorCopy, backendCopy, secrets, heartbeating, up, hbOps>>

backendCommitFails ==
    /\ HBIntervene
    /\ backend.step = "commit"
    /\ backend.new # backend.old
    /\ backend' = Idle
    /\ queued' = queued \cup {"backend"}
    /\ UNCHANGED <<statuses, secrets, heartbeating, up, konnector>>

-----------------------------------------------------------------------------
\* Authentication has just created the ClusterBinding; the user's cluster has the Secret
\* (which version it is does not matter).
HBInit ==
    /\ cluster = NoStatus
    /\ konnectorCopy = NoStatus
    /\ backendCopy = NoStatus
    /\ stale = {}
    /\ source = CHOOSE v \in Versions : TRUE
    /\ sourceCache = source
    /\ secret = source
    /\ secretCache = source
    /\ staleSecret = FALSE
    /\ heartbeating = "unknown"
    /\ up = TRUE
    /\ queued = {"konnector", "backend"}
    /\ konnector = Idle
    /\ backend = Idle
    /\ hbOps = 0

Environment ==
    \/ \E content \in ProviderSecret : ProviderRotates(content)
    \/ UserDeletesSecret
    \/ KonnectorStops
    \/ KonnectorStarts

Informers ==
    \/ DeliverToKonnector
    \/ DeliverToBackend
    \/ DeliverSource
    \/ DeliverSecret

KonnectorController == Process \/ createConsumerSecret \/ updateConsumerSecret \/ commit

BackendController == BackendProcess \/ backendCommit

HBNext ==
    \/ TimePasses
    \/ Environment
    \/ Informers
    \/ KonnectorController
    \/ BackendController
    \/ SecretCallFails
    \/ commitFails
    \/ backendCommitFails

HBSpec == HBInit /\ [][HBNext]_hbVars

\* Time passes, informers deliver and workers work.
HBFairness ==
    /\ WF_hbVars(TimePasses)
    /\ WF_hbVars(DeliverToKonnector)
    /\ WF_hbVars(DeliverToBackend)
    /\ WF_hbVars(DeliverSource)
    /\ WF_hbVars(DeliverSecret)
    /\ WF_hbVars(KonnectorController)
    /\ WF_hbVars(BackendController)

HBFairSpec == HBSpec /\ HBFairness

-----------------------------------------------------------------------------
\* Statuses, copies and workers hold what their types allow.
HBTypeOK ==
    /\ {cluster, konnectorCopy, backendCopy} \subseteq Status
    /\ stale \subseteq {"konnector", "backend"}
    /\ source \in ProviderSecret
    /\ sourceCache \in ProviderSecret
    /\ secret \in Versions \cup {Nothing}
    /\ secretCache \in Versions \cup {Nothing}
    /\ staleSecret \in BOOLEAN
    /\ heartbeating \in Conditions
    /\ up \in BOOLEAN
    /\ queued \subseteq {"konnector", "backend"}
    /\ konnector \in Work
    /\ backend \in Work
    /\ hbOps \in 0..MaxHBOps

\* Konnector and backend patch one list of conditions; neither undoes the verdict of the
\* other, and the backend never sets the time of the last heartbeat back.
VerdictsAreKept ==
    [][/\ backend.step # "commit" => cluster'.healthy = cluster.healthy
       /\ konnector.step # "commit" => cluster'.secretValid = cluster.secretValid
       /\ cluster'.healthy # cluster.healthy =>
             /\ cluster'.secretValid = cluster.secretValid
             /\ cluster'.beat = cluster.beat]_hbVars

\* A Secret that the provider rotates reaches the consumer cluster, and one that is deleted
\* there comes back, although a failed update leaves its content in the informer's cache.
SecretReachesConsumer ==
    <>[](up /\ source \in Versions => secret = source /\ cluster.secretValid = "true")

\* A konnector that stays up heartbeats for ever and says so; one that stays down is found
\* out, though nothing but the resync wakes the backend.
HeartbeatTellsLife ==
    /\ <>[]up => []<>(cluster.beat = 0) /\ []<>(heartbeating = "true")
    /\ <>[](~up /\ cluster.beat # Nothing) => <>[](cluster.healthy = "HeartbeatTimeout")
=============================================================================

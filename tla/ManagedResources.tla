-------------------------- MODULE ManagedResources --------------------------
(***************************************************************************)
(* The ServiceBinding, Backup and Restore controllers of                   *)
(* provider-anynines: one managed resource of each kind, reconciled with a *)
(* binding at the service broker and with backups and restores at the      *)
(* backup manager, which chooses their IDs.  A Restore takes the ID of its *)
(* backup from the status of the Backup.                                   *)
(*                                                                         *)
(* As in ServiceInstance, the managed reconciler of crossplane-runtime     *)
(* calls Observe, Create and Delete and writes the resource back           *)
(* (external); a reconcile is split at its calls, and fresh says whose     *)
(* copy of a resource carries its current resourceVersion.                 *)
(***************************************************************************)
EXTENDS Naturals, FiniteSets, Sequences

CONSTANTS
    IDs,         \* IDs of backups and restores; a binding has the UID of its resource
    UID,
    None,
    Endpoints,   \* the endpoints that the service's connection details name, in order
    Optional,    \* whether a missing one is left out without an error (messaging)
    Contents,    \* the endpoints that the credentials of a binding may hold
    Claims,      \* the sets of kinds that may be asked for together
    MaxOps       \* how many times users intervene, calls fail or the provider dies

Kinds == {"binding", "backup", "restore"}

\* What exists at the broker and at the backup manager.  The controllers treat queued
\* and running alike.
ExternalStates == {"absent", "present", "running", "done", "failed", "deleted"}

AllIDs == IDs \cup {UID}

\* extractBracketHost, extractPlainHost, extractPrometheusURL, extractGraphiteExporter: the
\* endpoints before the first that is missing.
extractHosts(content) ==
    LET n == CHOOSE n \in 0..Len(Endpoints) :
                /\ \A j \in 1..n : Endpoints[j] \in content
                /\ n < Len(Endpoints) => Endpoints[n + 1] \notin content
    IN  SubSeq(Endpoints, 1, n)

extractMessagingEndpoints(content) == SelectSeq(Endpoints, LAMBDA e : e \in content)

\* initializeConnectionDetails: what is found is appended, error or not.
Extract(content) ==
    IF Optional THEN extractMessagingEndpoints(content) ELSE extractHosts(content)

\* The list of connection details: empty, or what was appended to it once.
Details == {<<>>} \cup {<<>> \o Extract(c) : c \in Contents}

\* A managed resource.  create stands for Crossplane's annotations about the creation,
\* mark for binding-created, backup-id or restore-id; the other fields are its status.
Resource == [deleting  : BOOLEAN,
             finalizer : BOOLEAN,
             create    : {"none", "pending", "failed", "succeeded"},
             mark      : AllIDs \cup {None},
             instance  : BOOLEAN,                \* the IDs of the service instance
             backup    : AllIDs \cup {None},     \* of a Restore
             id        : AllIDs \cup {None},     \* backupID, restoreID
             details   : Details,                \* of a ServiceBinding
             ready     : BOOLEAN]

ASSUME ManagedResourcesAssumption ==
    /\ None \notin AllIDs \cup Resource \cup Contents
    /\ UID \notin IDs
    /\ Optional \in BOOLEAN /\ MaxOps \in Nat
    /\ \A ks \in Claims : ks \subseteq Kinds

VARIABLES
    res,        \* the resources in the API server
    cache,      \* their copies in the manager's cache
    fresh,      \* who holds the current version: "cache", "work"
    work,       \* the reconciles in progress
    external,   \* what exists outside, by kind and ID
    instance,   \* the ServiceInstance: "unset", "set" or "gone"
    creds,      \* the Secret with the credentials of the binding
    lost,       \* the kinds of which something exists, or existed, that its resource does
                \* not name: the answer to its creation was lost, or it went by itself
    blind,      \* the kinds for which an existing object was taken for gone
    ops

objects == <<res, cache, fresh, work>>
history == <<lost, blind>>
vars == <<objects, external, instance, creds, history, ops>>

Idle == [step |-> "idle", obj |-> None, content |-> None]

Steps == {"idle", "addFinalizer", "markPending", "create", "annotate", "publish", "delete",
          "removeFinalizer", "writeStatus"}

IDsOf(k) == IF k = "binding" THEN {UID} ELSE IDs

-----------------------------------------------------------------------------
(* Users, the broker and the backup manager (external).                    *)

Intervene == ops < MaxOps /\ ops' = ops + 1

WriteRes(k, new, keep) ==
    /\ res' = [res EXCEPT ![k] = new]
    /\ fresh' = [fresh EXCEPT ![k] = IF new = res[k] THEN @ ELSE keep]

UserDelete(k) ==
    /\ Intervene
    /\ res[k] # None
    /\ ~res[k].deleting
    /\ WriteRes(k, IF res[k].finalizer THEN [res[k] EXCEPT !.deleting = TRUE] ELSE None, {})
    /\ UNCHANGED <<cache, work, external, instance, creds, history>>

\* An administrator has looked after a creation whose outcome is unknown.
ClearPending(k) ==
    /\ res[k] # None
    /\ res[k].create = "pending"
    /\ work[k].step = "idle"
    /\ WriteRes(k, [res[k] EXCEPT !.create = "none"], {})
    /\ UNCHANGED <<cache, work, external, instance, creds, history, ops>>

\* The ServiceInstance gets its IDs, or is deleted.
InstanceReady ==
    /\ instance = "unset"
    /\ instance' = "set"
    /\ UNCHANGED <<objects, external, creds, history, ops>>

InstanceGone ==
    /\ Intervene
    /\ instance # "gone"
    /\ instance' = "gone"
    /\ UNCHANGED <<objects, external, creds, history>>

External(k, i, s) == external' = [external EXCEPT ![k][i] = s]

\* The calls of the clients: what the broker and the backup manager answer, and what
\* changes there.
GetBindingExists == external["binding"][UID] = "present"
GetBackupStatus(i) == external["backup"][i]
GetRestoreStatus(i) == external["restore"][i]
BindAtBroker == External("binding", UID, "present")
UnbindAtBroker == External("binding", UID, "absent")

\* A backup that runs is locked.
DeleteAtManager(i) ==
    IF external["backup"][i] = "running" THEN UNCHANGED external ELSE External("backup", i, "deleted")

\* Only a backup that is done can be restored.
IsRestorable(i) == external["backup"][i] = "done"

Finish(k, i) ==
    /\ external[k][i] = "running"
    /\ External(k, i, "done")
    /\ UNCHANGED <<objects, instance, creds, history, ops>>

Fail(k, i) ==
    /\ Intervene
    /\ external[k][i] = "running"
    /\ External(k, i, "failed")
    /\ UNCHANGED <<objects, instance, creds, history>>

\* The backup manager deletes an old backup by itself.
Expire(i) ==
    /\ Intervene
    /\ external["backup"][i] = "done"
    /\ External("backup", i, "deleted")
    /\ lost' = lost \cup {"backup"}
    /\ UNCHANGED <<objects, instance, creds, blind>>

Deliver(k) ==
    /\ "cache" \notin fresh[k]
    /\ cache' = [cache EXCEPT ![k] = res[k]]
    /\ fresh' = [fresh EXCEPT ![k] = @ \cup {"cache"}]
    /\ UNCHANGED <<res, work, external, instance, creds, history, ops>>

-----------------------------------------------------------------------------
(* Observe.                                                                *)

\* The managed reconciler leaves a resource alone whose creation may have been
\* interrupted.
Reconciling(k) ==
    /\ work[k].step = "idle"
    /\ cache[k] # None
    /\ cache[k].create # "pending"

Take(k, step, obj) ==
    /\ work' = [work EXCEPT ![k] = [step |-> step, obj |-> obj, content |-> None]]
    /\ fresh' = [fresh EXCEPT ![k] = IF "cache" \in @ THEN @ \cup {"work"} ELSE @ \ {"work"}]
    /\ UNCHANGED <<res, cache>>

\* Nothing is missing, or may be.
Extracted(content) == Optional \/ Extract(content) = Endpoints

\* GetServiceInstanceManagedResource of a ServiceBinding and of a Backup, ToServiceInstance.
HasInstance == instance = "set"
BackupHasInstance == instance = "set"

\* initializeInstanceFields of a ServiceBinding, getServiceInstanceID of a Backup.
initializeInstanceFields(obj) == [obj EXCEPT !.instance = @ \/ HasInstance]
getServiceInstanceID(obj) == [obj EXCEPT !.instance = BackupHasInstance]

\* getBackupManagedResource, getBackupDetails.
getBackupDetails(obj) ==
    LET backup == cache["backup"] IN
    IF backup # None /\ backup.instance /\ backup.id # None
      THEN [obj EXCEPT !.instance = TRUE, !.backup = backup.id]
      ELSE obj

\* initializeServiceBindingStatus, initializeBackupStatus, initializeRestoreStatus: the
\* status is complete ...
Initialized(k, obj) ==
    CASE k = "binding" -> obj.instance /\ (obj.mark = None \/ obj.details # <<>>)
      [] k = "backup"  -> obj.instance
      [] k = "restore" -> obj.instance /\ obj.backup # None

\* ... or this becomes of it, with an error.
initializeServiceBindingStatus(obj) ==
    IF obj.mark = None
    THEN initializeInstanceFields(obj)
    ELSE IF creds = None
         THEN obj
         ELSE LET found == [obj EXCEPT !.details = @ \o Extract(creds)]
              IN  IF Extracted(creds) THEN initializeInstanceFields(found) ELSE found

initializeBackupStatus(obj) == getServiceInstanceID(obj)

initializeRestoreStatus(obj) == getBackupDetails(obj)

Initialize(k, obj) ==
    CASE k = "binding" -> initializeServiceBindingStatus(obj)
      [] k = "backup"  -> initializeBackupStatus(obj)
      [] k = "restore" -> initializeRestoreStatus(obj)

ObserveUnset(k) ==
    /\ Reconciling(k)
    /\ ~Initialized(k, cache[k])
    /\ Take(k, "writeStatus", Initialize(k, cache[k]))
    /\ UNCHANGED <<external, instance, creds, history, ops>>

\* What the managed reconciler does after Observe (external).
Decide(obj, exists) ==
    CASE obj.deleting /\ exists -> "delete"
      [] obj.deleting /\ ~exists -> "removeFinalizer"
      [] ~obj.deleting /\ exists -> "writeStatus"
      [] ~obj.deleting /\ ~exists /\ ~obj.finalizer -> "addFinalizer"
      [] ~obj.deleting /\ ~exists /\ obj.finalizer -> "markPending"

\* getExternalName: nothing was created yet.
Unnamed(obj) == obj.mark = None /\ obj.id = None

ObserveNew(k) ==
    /\ Reconciling(k)
    /\ Initialized(k, cache[k])
    /\ Unnamed(cache[k])
    /\ Take(k, Decide(cache[k], FALSE), cache[k])
    /\ UNCHANGED <<external, instance, creds, history, ops>>

Asking(k) == Reconciling(k) /\ Initialized(k, cache[k]) /\ ~Unnamed(cache[k])

\* Observe of a ServiceBinding: whatever error GetBinding returns, a binding that is being
\* deleted is gone.
GetBinding ==
    LET obj == cache["binding"] IN
    /\ Asking("binding")
    /\ \/ /\ GetBindingExists
          /\ Take("binding", Decide(obj, TRUE), [obj EXCEPT !.ready = IF obj.deleting THEN @ ELSE TRUE])
       \/ /\ ~GetBindingExists
          /\ Take("binding", IF obj.deleting THEN "removeFinalizer" ELSE "writeStatus", obj)
    /\ UNCHANGED <<external, instance, creds, history, ops>>

GetBindingFails ==
    /\ Intervene
    /\ Asking("binding")
    /\ IF cache["binding"].deleting
         THEN /\ Take("binding", "removeFinalizer", cache["binding"])
              /\ blind' = blind \cup {"binding"}
         ELSE /\ Take("binding", "writeStatus", cache["binding"])
              /\ UNCHANGED blind
    /\ UNCHANGED <<external, instance, creds, lost>>

\* The ID of the status counts before the annotation.
Named(obj) == IF obj.id = None THEN obj.mark ELSE obj.id

\* GenerateObservation, setConditions.
GenerateObservation(obj, s) == [obj EXCEPT !.id = Named(obj), !.ready = s = "done"]

\* Observe of a Backup: one that the manager has deleted does not exist.
GetBackup ==
    LET obj == cache["backup"]
        s == GetBackupStatus(Named(obj))
    IN  /\ Asking("backup")
        /\ Take("backup", Decide(obj, s # "deleted"), GenerateObservation(obj, s))
        /\ UNCHANGED <<external, instance, creds, history, ops>>

\* Mutants: a restore that runs counts as deleted, one that is over does not.
DeletesRunning(s) == "removeFinalizer"
DeletesNone(s) == "writeStatus"

\* checkForDeletion: a restore that is over counts as deleted.
checkForDeletion(s) == IF s = "running" THEN "writeStatus" ELSE "removeFinalizer"

\* GenerateBackupRestoreObservation, setConditions.
GenerateBackupRestoreObservation(obj, s) == [obj EXCEPT !.id = Named(obj), !.ready = s = "done"]

\* Observe of a Restore.
GetRestore ==
    LET obj == cache["restore"]
        s == GetRestoreStatus(Named(obj))
    IN  /\ Asking("restore")
        /\ Take("restore", IF obj.deleting THEN checkForDeletion(s) ELSE "writeStatus",
                GenerateBackupRestoreObservation(obj, s))
        /\ UNCHANGED <<external, instance, creds, history, ops>>

\* Connect fails (ProviderConfig, credentials), or GetBackup or GetRestore does.
ConnectFails(k) ==
    /\ Intervene
    /\ Reconciling(k)
    /\ Take(k, "writeStatus", cache[k])
    /\ UNCHANGED <<external, instance, creds, history>>

-----------------------------------------------------------------------------
(* Create and Delete, and what the managed reconciler writes.              *)

Goto(k, step, obj, content) ==
    /\ work' = [work EXCEPT ![k] = [step |-> step, obj |-> obj, content |-> content]]
    /\ UNCHANGED <<res, cache, fresh>>

Stop(k) ==
    /\ work' = [work EXCEPT ![k] = Idle]
    /\ fresh' = [fresh EXCEPT ![k] = @ \ {"work"}]

\* The copy becomes the stored object, or a conflict ends the reconcile.
Save(k, new, step) ==
    \/ /\ "work" \in fresh[k]
       /\ WriteRes(k, new, {"work"})
       /\ work' = [work EXCEPT ![k].step = step, ![k].obj = new]
    \/ /\ "work" \notin fresh[k]
       /\ Stop(k)
       /\ UNCHANGED res

AddFinalizer(k) ==
    /\ work[k].step = "addFinalizer"
    /\ Save(k, [res[k] EXCEPT !.finalizer = TRUE], "markPending")
    /\ UNCHANGED <<cache, external, instance, creds, history, ops>>

MarkPending(k) ==
    /\ work[k].step = "markPending"
    /\ Save(k, [res[k] EXCEPT !.create = "pending"], "create")
    /\ UNCHANGED <<cache, external, instance, creds, history, ops>>

\* Mutant: the annotation is forgotten.
CreatedUnnamed(obj, i, outcome) == [obj EXCEPT !.create = outcome]

\* AddAnnotations.
Created(obj, i, outcome) == [obj EXCEPT !.mark = i, !.create = outcome]

\* An answer arrives, or is lost with the ID; what then becomes of the resource.
Answered(k, obj, i, content) ==
    \/ /\ Goto(k, "annotate", Created(obj, i, "succeeded"), content)
       /\ UNCHANGED <<lost, ops>>
    \/ /\ Intervene
       /\ Goto(k, "annotate", [obj EXCEPT !.create = "failed"], None)
       /\ lost' = lost \cup {k}

\* Create of a ServiceBinding: Bind with the same ID finds the binding again.
Bind ==
    /\ work["binding"].step = "create"
    /\ BindAtBroker
    /\ \E content \in Contents : Answered("binding", work["binding"].obj, UID, content)
    /\ UNCHANGED <<instance, creds, blind>>

\* generateConnectionDetails: an answer without credentials (an asynchronous one) is an
\* error, but the annotation is there.
BindAsync ==
    /\ Intervene
    /\ work["binding"].step = "create"
    /\ BindAtBroker
    /\ Goto("binding", "annotate", Created(work["binding"].obj, UID, "failed"), None)
    /\ UNCHANGED <<instance, creds, history>>

\* The manager numbers what it starts (the bound: as long as there are IDs).
Start(k) ==
    LET unused == {i \in IDs : external[k][i] = "absent"}
        next == CHOOSE i \in unused : TRUE
    IN  /\ unused # {}
        /\ External(k, next, "running")
        /\ Answered(k, work[k].obj, next, None)

\* Create of a Backup.
CreateBackup ==
    /\ work["backup"].step = "create"
    /\ Start("backup")
    /\ UNCHANGED <<instance, creds, blind>>

\* Create of a Restore.
CreateRestore ==
    LET obj == work["restore"].obj IN
    /\ work["restore"].step = "create"
    /\ IF IsRestorable(obj.backup)
         THEN Start("restore")
         ELSE /\ Goto("restore", "annotate", [obj EXCEPT !.create = "failed"], None)
              /\ UNCHANGED <<external, lost, ops>>
    /\ UNCHANGED <<instance, creds, blind>>

\* Annotations are written to whatever is stored; nothing else of the copy survives.
Annotate(k) ==
    LET new == [res[k] EXCEPT !.create = work[k].obj.create, !.mark = work[k].obj.mark] IN
    /\ work[k].step = "annotate"
    /\ WriteRes(k, new, {"work"})
    /\ work' = [work EXCEPT ![k].obj = new,
                            ![k].step = IF work[k].content = None THEN "writeStatus" ELSE "publish"]
    /\ UNCHANGED <<cache, external, instance, creds, history, ops>>

\* generateConnectionDetails; the composition copies the Secret to the claim's.
Publish(k) ==
    /\ work[k].step = "publish"
    /\ creds' = work[k].content
    /\ Goto(k, "writeStatus", work[k].obj, None)
    /\ UNCHANGED <<external, instance, history, ops>>

\* Delete of a ServiceBinding.
Unbind ==
    /\ work["binding"].step = "delete"
    /\ UnbindAtBroker
    /\ Goto("binding", "writeStatus", [work["binding"].obj EXCEPT !.ready = FALSE], None)
    /\ UNCHANGED <<instance, creds, history, ops>>

\* Delete of a Backup.
DeleteBackup ==
    LET i == work["backup"].obj.id IN
    /\ work["backup"].step = "delete"
    /\ DeleteAtManager(i)
    /\ Goto("backup", "writeStatus", [work["backup"].obj EXCEPT !.ready = FALSE], None)
    /\ UNCHANGED <<instance, creds, history, ops>>

\* A call of Create, Delete or PublishConnection fails without an effect.
CallFails(k) ==
    /\ Intervene
    /\ \/ /\ work[k].step = "create"
          /\ Goto(k, "annotate", [work[k].obj EXCEPT !.create = "failed"], None)
       \/ /\ work[k].step \in {"delete", "publish"}
          /\ Goto(k, "writeStatus", work[k].obj, None)
    /\ UNCHANGED <<external, instance, creds, history>>

RemoveFinalizer(k) ==
    /\ work[k].step = "removeFinalizer"
    /\ work' = [work EXCEPT ![k] = Idle]
    /\ IF "work" \in fresh[k]
         THEN WriteRes(k, None, {})
         ELSE UNCHANGED <<res, fresh>>
    /\ UNCHANGED <<cache, external, instance, creds, history, ops>>

WriteStatus(k) ==
    /\ work[k].step = "writeStatus"
    /\ work' = [work EXCEPT ![k] = Idle]
    /\ IF "work" \in fresh[k]
         THEN /\ res' = [res EXCEPT ![k] = work[k].obj]
              /\ fresh' = [fresh EXCEPT ![k] = IF work[k].obj = res[k] THEN @ \ {"work"} ELSE {}]
         ELSE UNCHANGED <<res, fresh>>
    /\ UNCHANGED <<cache, external, instance, creds, history, ops>>

\* The provider dies; what it created a moment ago is in nobody's annotations.
Crash ==
    /\ Intervene
    /\ \E k \in Kinds : work[k].step # "idle"
    /\ work' = [k \in Kinds |-> Idle]
    /\ fresh' = [k \in Kinds |-> fresh[k] \ {"work"}]
    /\ lost' = lost \cup {k \in Kinds : work[k].step = "annotate" /\ work[k].obj.mark # None}
    /\ UNCHANGED <<res, cache, external, instance, creds, blind>>

-----------------------------------------------------------------------------
New == [deleting |-> FALSE, finalizer |-> FALSE, create |-> "none", mark |-> None,
        instance |-> FALSE, backup |-> None, id |-> None, details |-> <<>>, ready |-> FALSE]

Init ==
    /\ \E ks \in Claims : res = [k \in Kinds |-> IF k \in ks THEN New ELSE None]
    /\ cache = [k \in Kinds |-> None]
    /\ fresh = [k \in Kinds |-> {}]
    /\ work = [k \in Kinds |-> Idle]
    /\ external = [k \in Kinds |-> [i \in IDsOf(k) |-> "absent"]]
    /\ instance = "unset"
    /\ creds = None
    /\ lost = {}
    /\ blind = {}
    /\ ops = 0

Observe(k) == ObserveUnset(k) \/ ObserveNew(k) \/ (CASE k = "binding" -> GetBinding
                                                     [] k = "backup"  -> GetBackup
                                                     [] k = "restore" -> GetRestore)

Create(k) == CASE k = "binding" -> Bind
               [] k = "backup"  -> CreateBackup
               [] k = "restore" -> CreateRestore

Delete(k) == (k = "binding" /\ Unbind) \/ (k = "backup" /\ DeleteBackup)

Reconcile(k) ==
    \/ Observe(k) \/ AddFinalizer(k) \/ MarkPending(k) \/ Create(k) \/ Annotate(k) \/ Publish(k)
    \/ Delete(k) \/ RemoveFinalizer(k) \/ WriteStatus(k)

Next ==
    \/ InstanceReady \/ InstanceGone \/ Crash \/ GetBindingFails \/ BindAsync
    \/ \E i \in IDs : Expire(i)
    \/ \E k \in Kinds :
          \/ UserDelete(k) \/ ClearPending(k) \/ Deliver(k) \/ Reconcile(k)
          \/ ConnectFails(k) \/ CallFails(k)
          \/ \E i \in IDsOf(k) : Finish(k, i) \/ Fail(k, i)

Spec == Init /\ [][Next]_vars

\* Crossplane reconciles again and again, the cache catches up, and broker and backup
\* manager end what they have started.
FairSpec ==
    /\ Spec
    /\ WF_vars(InstanceReady)
    /\ \A k \in Kinds :
          /\ WF_vars(Reconcile(k))
          /\ WF_vars(Deliver(k))
          /\ \A i \in IDsOf(k) : WF_vars(Finish(k, i))

-----------------------------------------------------------------------------
\* Every field of the resources, their copies and the outside world has its type.
TypeOK ==
    /\ res \in [Kinds -> Resource \cup {None}]
    /\ cache \in [Kinds -> Resource \cup {None}]
    /\ fresh \in [Kinds -> SUBSET {"cache", "work"}]
    /\ work \in [Kinds -> [step : Steps, obj : Resource \cup {None},
                           content : Contents \cup {None}]]
    /\ \A k \in Kinds : external[k] \in [IDsOf(k) -> ExternalStates]
    /\ instance \in {"unset", "set", "gone"}
    /\ creds \in Contents \cup {None}
    /\ lost \subseteq Kinds
    /\ blind \subseteq Kinds
    /\ ops \in 0..MaxOps

\* A Backup takes one backup and a Restore restores once, whatever old copies, conflicts,
\* failed calls and restarts do between the creation and the annotation with its ID; only
\* an answer that is lost, or a death before the annotation is written, makes a second
\* ("giving us an orphaned backup belonging to no MR", Create).  A backup that the manager
\* deletes by itself is replaced again and again, because the status keeps the old ID.
CreatedOnce ==
    \A k \in {"backup", "restore"} \ lost :
        Cardinality({i \in IDs : external[k][i] # "absent"}) <= 1

Leftover(k) == {"present", "running"} \cup IF k = "backup" THEN {"done"} ELSE {}

\* A resource goes only after what it stands for: no binding and no backup is left behind,
\* and no restore is still running, unless its ID was lost or an error was taken for its
\* absence.
NothingLeftBehind ==
    \A k \in Kinds \ (lost \cup blind) :
        res[k] = None => \A i \in IDsOf(k) : external[k][i] \notin Leftover(k)

\* A binding whose credentials never reached the claim's Secret stays as it is: Observe
\* does not get past initializeConnectionDetails.
Stuck(k) ==
    /\ k = "binding"
    /\ res[k].mark # None
    /\ res[k].details = <<>>
    /\ creds = None \/ Extract(creds) = <<>>

\* The status names a backup that went by itself.
Outlived(k) == k = "backup" /\ res[k].id # None /\ external[k][res[k].id] = "deleted"

\* What a resource needs in order to be created.
Possible(k) ==
    /\ k \in {"binding", "backup"} => res[k].instance \/ instance = "set"
    /\ k = "restore" => \/ res[k].backup # None /\ external["backup"][res[k].backup] = "done"
                        \/ res[k].id # None

Failed(k) == \E i \in IDsOf(k) : external[k][i] = "failed"

\* Once nobody intervenes, every resource that is not deleted becomes ready and every
\* other one goes, unless Crossplane waits for an administrator.
Settles ==
    \A k \in Kinds :
        <>[](\/ res[k] = None
             \/ res[k].create = "pending"
             \/ Stuck(k)
             \/ ~res[k].deleting /\ (res[k].ready \/ ~Possible(k) \/ Failed(k) \/ Outlived(k)))
=============================================================================

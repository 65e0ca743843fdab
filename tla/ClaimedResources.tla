-------------------------- MODULE ClaimedResources --------------------------
(***************************************************************************)
(* The konnector's controller of claimed resources, for one object of a    *)
(* claimed resource in one pair of namespaces.  The object is owned by one *)
(* side, which an annotation on both copies says, and copied to the other  *)
(* side.  The life of the namespaces is the subject of ServiceNamespaces:  *)
(* here the pair comes and goes as a whole.                                *)
(*                                                                         *)
(* The provider's copy is read from an informer, the consumer's from the   *)
(* API server.  The copies are of a kind that may be updated without       *)
(* resource version (Secrets, ConfigMaps, ...), and the consumer's copy    *)
(* has no finalizers.                                                      *)
(***************************************************************************)
EXTENDS Naturals

CONSTANTS
    Data,         \* what is in an object
    None,
    MaxCROps      \* how many times users intervene, calls fail, the konnector restarts

Owners == {"unknown", "Provider", "Consumer"}

Provided == [data : Data, owner : Owners,
             finalizer : BOOLEAN,            \* somebody's finalizer is on the object
             deleting : BOOLEAN]
Consumed == [data : Data, owner : Owners]

ASSUME ClaimedResourcesAssumption ==
    /\ None \notin Provided \cup Consumed
    /\ MaxCROps \in Nat

VARIABLES
    prov, provCache,     \* the provider's copy; the informer's copy of it
    provFresh,           \* who has the current version: "cache", "work"
    cons, consCache,     \* the consumer's copy; the informer's copy, which is only for events
    consFresh,
    sn, snCache,         \* whether the APIServiceNamespace is ready; the konnector's copy
    selector,            \* the owner that the claim selects, "unknown" when it does not
    queued, work,        \* the key is queued; the reconcile in progress
    crOps

copies == <<prov, provCache, provFresh, cons, consCache, consFresh>>
crVars == <<copies, sn, snCache, selector, queued, work, crOps>>

Calls == {"annotateProvider", "annotateConsumer", "createConsumer", "updateConsumer",
          "deleteConsumer", "deleteMisplaced", "createProvider", "updateProvider", "deleteProvider"}

NoWork == [step |-> "idle", prov |-> None, cons |-> None, owner |-> "unknown"]

CRIntervene == crOps < MaxCROps /\ crOps' = crOps + 1

WriteProv(new) == prov' = new /\ provFresh' = {}
WriteCons(new) == cons' = new /\ consFresh' = {}

\* What a deletion leaves.
Deleted(p) == IF p.finalizer THEN [p EXCEPT !.deleting = TRUE] ELSE None

-----------------------------------------------------------------------------
(* Users of both sides.                                                    *)

ProviderChanges ==
    /\ CRIntervene
    /\ \/ /\ prov = None /\ sn
          /\ \E d \in Data, f \in BOOLEAN :
                WriteProv([data |-> d, owner |-> "unknown", finalizer |-> f, deleting |-> FALSE])
       \/ /\ prov # None
          /\ \E d \in Data \ {prov.data} : WriteProv([prov EXCEPT !.data = d])
       \/ /\ prov # None /\ ~prov.deleting
          /\ WriteProv(Deleted(prov))
    /\ UNCHANGED <<provCache, cons, consCache, consFresh, sn, snCache, selector, queued, work>>

\* Whoever has the finalizer removes it in the end.
ProviderFinalizes ==
    /\ prov # None /\ prov.deleting
    /\ WriteProv(None)
    /\ UNCHANGED <<provCache, cons, consCache, consFresh, sn, snCache, selector, queued,
                   work, crOps>>

ConsumerChanges ==
    /\ CRIntervene
    /\ \/ /\ cons = None
          /\ \E d \in Data : WriteCons([data |-> d, owner |-> "unknown"])
       \/ /\ cons # None
          /\ \E d \in Data \ {cons.data} : WriteCons([cons EXCEPT !.data = d])
       \/ /\ cons # None
          /\ WriteCons(None)
    /\ UNCHANGED <<prov, provCache, provFresh, consCache, sn, snCache, selector, queued, work>>

\* The consumer deletes the namespace, or has it again; the backend follows.
NamespacesChange ==
    /\ CRIntervene
    /\ sn' = ~sn
    /\ IF sn THEN WriteProv(None) /\ WriteCons(None)
             ELSE UNCHANGED <<prov, provFresh, cons, consFresh>>
    /\ UNCHANGED <<provCache, consCache, snCache, selector, queued, work>>

-----------------------------------------------------------------------------
(* Events.                                                                 *)

isClaimed(o) == selector = "unknown" \/ o.owner \in {"unknown", selector}

\* Mutant: nothing waits for the consumer's objects.
enqueueNothing(o) == FALSE

\* enqueueConsumer; the event of a deletion has the last object.
enqueueConsumer(o) == o # None /\ isClaimed(o) /\ snCache

DeliverConsumer ==
    /\ "cache" \notin consFresh
    /\ consCache' = cons
    /\ consFresh' = consFresh \cup {"cache"}
    /\ queued' = (queued \/ enqueueConsumer(IF cons = None THEN consCache ELSE cons))
    /\ UNCHANGED <<prov, provCache, provFresh, cons, sn, snCache, selector, work, crOps>>

\* enqueueProvider.  The informer of the namespace runs while its APIServiceNamespace is ready.
DeliverProvider ==
    /\ "cache" \notin provFresh
    /\ snCache
    /\ provCache' = prov
    /\ provFresh' = provFresh \cup {"cache"}
    /\ queued' = (queued \/ prov # None \/ provCache # None)
    /\ UNCHANGED <<prov, cons, consCache, consFresh, sn, snCache, selector, work, crOps>>

\* Every 30 minutes.
Resync ==
    /\ ~queued
    /\ queued' = (enqueueConsumer(consCache) \/ provCache # None)
    /\ queued'
    /\ UNCHANGED <<copies, sn, snCache, selector, work, crOps>>

\* The informer over many namespaces starts and stops the informer of the namespace;
\* enqueueServiceNamespace enqueues what that has listed.
DeliverServiceNamespace ==
    /\ snCache # sn
    /\ snCache' = sn
    /\ queued' = (queued \/ (sn /\ provCache # None))
    /\ provCache' = IF sn THEN provCache ELSE None
    /\ provFresh' = IF sn THEN provFresh ELSE provFresh \ {"cache"}
    /\ UNCHANGED <<prov, cons, consCache, consFresh, sn, selector, work, crOps>>

\* The konnector restarts, for instance because enqueueConsumer panics when its watch has
\* missed a deletion.
RestartKonnector ==
    /\ CRIntervene
    /\ snCache' = FALSE
    /\ provCache' = None /\ provFresh' = {}
    /\ consCache' = None /\ consFresh' = {}
    /\ queued' = FALSE /\ work' = NoWork
    /\ UNCHANGED <<prov, cons, sn, selector>>

-----------------------------------------------------------------------------
(* reconcile.                                                              *)

\* Mutant: the consumer's annotation is looked at first.
determineConsumer(p, c) ==
    IF c # None /\ c.owner # "unknown" THEN c.owner
    ELSE IF p # None /\ p.owner # "unknown" THEN p.owner
    ELSE IF c = None THEN "Provider"
    ELSE IF p = None THEN "Consumer"
    ELSE "unknown"

determineOwner(p, c) ==
    IF p # None /\ p.owner # "unknown" THEN p.owner
    ELSE IF c = None THEN "Provider"
    ELSE IF c.owner # "unknown" THEN c.owner
    ELSE IF p = None THEN "Consumer"
    ELSE "unknown"

\* The call after the annotation of the owner's copy.
Copying(p, c, owner) ==
    CASE owner = "Provider" /\ c = None                -> "createConsumer"
      [] owner = "Provider" /\ c # None /\ p.deleting  -> "deleteMisplaced"
      [] owner = "Provider" /\ c # None /\ ~p.deleting -> "updateConsumer"
      [] owner = "Consumer" /\ p = None                -> "createProvider"
      [] owner = "Consumer" /\ p # None                -> "updateProvider"

FirstCall(p, c, owner) ==
    LET own == IF owner = "Provider" THEN p ELSE c
    IN  CASE owner = "Provider" /\ own = None                      -> "deleteConsumer"
          [] owner = "Consumer" /\ own = None                      -> "deleteProvider"
          [] owner = "Provider" /\ own # None /\ own.owner # owner -> "annotateProvider"
          [] owner = "Consumer" /\ own # None /\ own.owner # owner -> "annotateConsumer"
          [] own # None /\ own.owner = owner                       -> Copying(p, c, owner)

Begin(skips) ==
    LET owner == determineOwner(provCache, cons)
    IN  /\ work.step = "idle" /\ queued
        /\ snCache
        /\ queued' = FALSE
        /\ work' = IF skips THEN work
                   ELSE [step |-> FirstCall(provCache, cons, owner), prov |-> provCache,
                         cons |-> cons, owner |-> owner]
        /\ provFresh' = IF "cache" \in provFresh THEN provFresh \cup {"work"}
                                                 ELSE provFresh \ {"work"}
        /\ consFresh' = consFresh \cup {"work"}
        /\ UNCHANGED <<prov, provCache, cons, consCache, sn, snCache, selector, crOps>>

\* While the APIServiceNamespace is not ready the key goes back to the queue.
Read == Begin((provCache = None /\ cons = None) \/ determineOwner(provCache, cons) = "unknown")

Calling(step) ==
    /\ work.step = step
    /\ UNCHANGED <<provCache, consCache, sn, snCache, selector, crOps>>

Ends(err) == work' = NoWork /\ queued' = (queued \/ err)

Continues ==
    /\ work' = [work EXCEPT !.step = Copying(work.prov, work.cons, work.owner)]
    /\ UNCHANGED queued

KeepProv == UNCHANGED <<prov, provFresh>>
KeepCons == UNCHANGED <<cons, consFresh>>

\* makeProviderOwner and an update of the version that was in the cache.
annotateProvider ==
    /\ Calling("annotateProvider")
    /\ IF "work" \in provFresh
         THEN WriteProv([prov EXCEPT !.owner = "Provider"]) /\ Continues
         ELSE KeepProv /\ Ends(TRUE)
    /\ KeepCons

\* makeConsumerOwner and an update of the version that was read.
annotateConsumer ==
    /\ Calling("annotateConsumer")
    /\ IF "work" \in consFresh
         THEN WriteCons([cons EXCEPT !.owner = "Consumer"]) /\ Continues
         ELSE KeepCons /\ Ends(TRUE)
    /\ KeepProv

createConsumer ==
    /\ Calling("createConsumer")
    /\ IF cons = None
         THEN WriteCons([data |-> work.prov.data, owner |-> "Provider"]) /\ Ends(FALSE)
         ELSE KeepCons /\ Ends(TRUE)
    /\ KeepProv

\* The copy of what was in the cache before the annotation.
updateConsumer ==
    /\ Calling("updateConsumer")
    /\ IF cons # None
         THEN WriteCons([data |-> work.prov.data, owner |-> work.prov.owner]) /\ Ends(FALSE)
         ELSE KeepCons /\ Ends(TRUE)
    /\ KeepProv

deleteConsumer ==
    /\ Calling("deleteConsumer")
    /\ IF cons # None THEN WriteCons(None) ELSE KeepCons
    /\ Ends(FALSE)
    /\ KeepProv

\* The deletion is tried in the namespace of the provider, which the consumer does not have.
deleteMisplaced ==
    /\ Calling("deleteMisplaced")
    /\ Ends(TRUE)
    /\ KeepProv /\ KeepCons

createProvider ==
    /\ Calling("createProvider")
    /\ IF sn /\ prov = None
         THEN /\ WriteProv([data |-> work.cons.data, owner |-> "Consumer",
                            finalizer |-> FALSE, deleting |-> FALSE])
              /\ Ends(FALSE)
         ELSE KeepProv /\ Ends(TRUE)
    /\ KeepCons

\* The copy has no finalizers: the update removes them, and with them an object that was
\* waiting for them.
updateProvider ==
    /\ Calling("updateProvider")
    /\ IF prov # None
         THEN /\ WriteProv(IF prov.deleting THEN None
                           ELSE [data |-> work.cons.data, owner |-> "Consumer",
                                 finalizer |-> FALSE, deleting |-> FALSE])
              /\ Ends(FALSE)
         ELSE KeepProv /\ Ends(TRUE)
    /\ KeepCons

deleteProvider ==
    /\ Calling("deleteProvider")
    /\ IF prov # None THEN WriteProv(Deleted(prov)) ELSE KeepProv
    /\ Ends(FALSE)
    /\ KeepCons

CallFails ==
    /\ CRIntervene
    /\ work.step # "idle"
    /\ Ends(TRUE)
    /\ KeepProv /\ KeepCons
    /\ UNCHANGED <<provCache, consCache, sn, snCache, selector>>

-----------------------------------------------------------------------------
CRInit ==
    /\ prov \in {None} \cup [data : Data, owner : {"unknown"}, finalizer : BOOLEAN,
                            deleting : {FALSE}]
    /\ provCache = None /\ provFresh = {}
    /\ cons \in {None} \cup [data : Data, owner : {"unknown"}]
    /\ consCache = None /\ consFresh = {}
    /\ sn = TRUE /\ snCache = FALSE
    /\ selector \in Owners
    /\ queued = FALSE /\ work = NoWork
    /\ crOps = 0

ReconcileClaimed ==
    \/ Read \/ annotateProvider \/ annotateConsumer \/ createConsumer \/ updateConsumer
    \/ deleteConsumer \/ deleteMisplaced \/ createProvider \/ updateProvider \/ deleteProvider

CRNext ==
    \/ ProviderChanges \/ ProviderFinalizes \/ ConsumerChanges \/ NamespacesChange
    \/ DeliverConsumer \/ DeliverProvider \/ DeliverServiceNamespace \/ Resync
    \/ RestartKonnector \/ ReconcileClaimed \/ CallFails

CRSpec == CRInit /\ [][CRNext]_crVars

\* Watches deliver, controllers run, informers are resynced and the API server finishes
\* what it deletes.
CRFairSpec ==
    /\ CRSpec
    /\ WF_crVars(DeliverServiceNamespace)
    /\ WF_crVars(DeliverConsumer) /\ WF_crVars(DeliverProvider) /\ WF_crVars(Resync)
    /\ WF_crVars(ReconcileClaimed) /\ WF_crVars(ProviderFinalizes)

-----------------------------------------------------------------------------
\* Copies are of their types, and a reconcile that makes calls knows the owner.
CRTypeOK ==
    /\ prov \in Provided \cup {None} /\ provCache \in Provided \cup {None}
    /\ cons \in Consumed \cup {None} /\ consCache \in Consumed \cup {None}
    /\ provFresh \subseteq {"cache", "work"} /\ consFresh \subseteq {"cache", "work"}
    /\ selector \in Owners /\ queued \in BOOLEAN
    /\ sn \in BOOLEAN /\ snCache \in BOOLEAN
    /\ work.prov \in Provided \cup {None} /\ work.cons \in Consumed \cup {None}
    /\ work = NoWork \/ (work.step \in Calls /\ work.owner \in {"Provider", "Consumer"})
    /\ crOps \in 0..MaxCROps

\* The konnector neither changes nor deletes what the provider owns: once an object is
\* annotated so, no event, stale copy or half-done reconcile makes it the consumer's.
ProviderKeepsItsOwn ==
    [][ReconcileClaimed /\ prov # None /\ prov.owner = "Provider" =>
          prov' # None /\ prov'.data = prov.data /\ prov'.owner = "Provider"]_crVars

InStep ==
    \/ prov = None /\ (cons = None \/ ~isClaimed(cons))
    \/ /\ prov # None /\ cons # None
       /\ \/ prov.data = cons.data /\ prov.owner = cons.owner /\ prov.owner # "unknown"
          \/ prov.owner = "unknown" /\ cons.owner = "unknown"   \* nobody's: left alone

\* Once nobody intervenes both sides have the same object, or none, whatever became of the
\* namespaces meanwhile; an object that both sides have created stays as it is on each.
CopiesConverge == <>[](sn => InStep)
=============================================================================

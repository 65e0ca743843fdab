---------------------------- MODULE SyncerProofs ----------------------------
(***************************************************************************)
(* Proofs about Syncer, for all values of its constants, and about the     *)
(* names it gives to cluster-scoped objects (ClusterScoped).               *)
(***************************************************************************)
EXTENDS Syncer, ClusterScoped, TLAPS

-----------------------------------------------------------------------------
(* The inductive invariant.                                                *)

\* A holder of the current version of an object holds that object, and has a call
\* that needs it.
CopiesAreCurrent ==
    /\ "cache" \in consFresh => consCache = cons
    /\ "cache" \in provFresh => provCache = prov
    /\ "spec" \in consFresh =>
          specW.call \notin {"none", "createServiceNamespace"} /\ specW.obj = cons
    /\ "status" \in consFresh => statusW.call = "updateStatus" /\ cons # NoObj
    /\ "adopt" \in consFresh => adoptW.call = "annotateDownstream" /\ adoptW.obj = cons
    /\ "spec" \in provFresh => specW.call \notin {"none", "createServiceNamespace"}
    /\ "spec" \in provFresh /\ specW.call \in {"addFinalizer", "applyUpstream"} =>
          specW.up = prov

\* Only running workers are busy, and workers run on synced caches.
Gate ==
    /\ running => consSynced
    /\ specW.call # "none" => running

\* What the spec and adopt workers read is what their calls are for.  Until the spec
\* worker has updated the downstream object itself, it holds the current version only
\* together with the cache.
SpecCopy ==
    /\ specW.call \notin {"none", "createServiceNamespace"} => specW.obj # NoObj
    /\ specW.call = "addFinalizer" => ~specW.obj.deleting
    /\ specW.call \in {"deleteUpstream", "removeFinalizer"} => specW.obj.deleting
    /\ specW.call = "removeFinalizer" => DownstreamFinalizer \in specW.obj.finalizers
    /\ specW.call \in {"addFinalizer", "deleteUpstream", "removeFinalizer"}
         /\ "spec" \in consFresh => "cache" \in consFresh
    /\ specW.call = "applyUpstream" => specW.up # NoObj

\* The adopt worker creates from an object it read and annotates one without annotation.
AdoptCopy ==
    /\ adoptW.call \in {"createDownstream", "annotateDownstream"} => adoptW.obj # NoObj
    /\ adoptW.call = "annotateDownstream" => ~adoptW.obj.bound

\* A finalizer seen in the cache on an object that is not being deleted is still there.
CachedFinalizerHeld ==
    consCache # NoObj /\ ~consCache.deleting /\ DownstreamFinalizer \in consCache.finalizers =>
        cons # NoObj /\ DownstreamFinalizer \in cons.finalizers

\* While an upstream object is being created or updated, the cache shows a downstream
\* object, and a deletion it shows is a real one.
CreateSeesObject ==
    specW.call \in {"createUpstream", "applyUpstream"} =>
        consCache # NoObj /\ (consCache.deleting => cons.deleting)

\* The downstream object of a pair is there, live, and known to a synced cache.
PairIsKnown ==
    paired => /\ cons # NoObj /\ ~cons.deleting /\ DownstreamFinalizer \in cons.finalizers
              /\ consSynced => consCache # NoObj /\ ~consCache.deleting

IInv ==
    /\ TypeOK
    /\ CopiesAreCurrent
    /\ Gate
    /\ SpecCopy
    /\ AdoptCopy
    /\ CachedFinalizerHeld
    /\ FinalizerHeld
    /\ CreateSeesObject
    /\ PairIsKnown
    /\ SpecDeleteIsWanted
-----------------------------------------------------------------------------
(* Facts about the operators of the API servers.                           *)

\* A delete request keeps an object that has finalizers, with its finalizers.
LEMMA DeletedFacts ==
    ASSUME NEW obj \in Object
    PROVE  /\ Deleted(obj) \in ObjectOrNone
           /\ DownstreamFinalizer \in obj.finalizers =>
                 Deleted(obj) # NoObj /\ DownstreamFinalizer \in Deleted(obj).finalizers
BY SyncerAssumption DEF Deleted, Object, ObjectOrNone

\* Storing an object yields the object or nothing.
LEMMA StoredFacts ==
    ASSUME NEW obj \in Object
    PROVE  Stored(obj) \in ObjectOrNone
BY DEF Stored, ObjectOrNone

\* Changing single fields of an object yields an object.
LEMMA ExceptFacts ==
    ASSUME NEW obj \in Object, NEW s \in Specs, NEW t \in Statuses \cup {NoStatus},
           NEW f \in SUBSET {DownstreamFinalizer, ForeignFinalizer}
    PROVE  /\ [obj EXCEPT !.spec = s] \in Object
           /\ [obj EXCEPT !.status = t] \in Object
           /\ [obj EXCEPT !.finalizers = f] \in Object
           /\ [obj EXCEPT !.bound = TRUE] \in Object
           /\ [obj EXCEPT !.spec = s, !.bound = TRUE] \in Object
           /\ [obj EXCEPT !.status = t, !.deleting = FALSE, !.bound = TRUE] \in Object
BY DEF Object

\* The next call of the spec controller, by what it read.
LEMMA SpecCallFacts ==
    ASSUME NEW obj \in Object, NEW up \in ObjectOrNone
    PROVE  /\ SpecCall(obj, up) \in SpecCalls \cup {"none"}
           /\ SpecCall(obj, up) # "createServiceNamespace"
           /\ SpecCall(obj, up) = "addFinalizer" =>
                 ~obj.deleting /\ DownstreamFinalizer \notin obj.finalizers
           /\ SpecCall(obj, up) \in {"createUpstream", "applyUpstream"} =>
                 ~obj.deleting /\ DownstreamFinalizer \in obj.finalizers
           /\ SpecCall(obj, up) = "applyUpstream" => up # NoObj
           /\ SpecCall(obj, up) \in {"deleteUpstream", "removeFinalizer"} => obj.deleting
           /\ SpecCall(obj, up) = "removeFinalizer" => DownstreamFinalizer \in obj.finalizers
BY DEF SpecCall, SpecCalls, Object

-----------------------------------------------------------------------------
(* Every step preserves the inductive invariant.                           *)

\* Users, operators and the provider.
LEMMA EnvironmentStep ==
    ASSUME IInv, Environment
    PROVE  IInv'
<1> USE SyncerAssumption
        DEF IInv, TypeOK, CopiesAreCurrent, Gate, SpecCopy, AdoptCopy, CachedFinalizerHeld,
            FinalizerHeld, CreateSeesObject, PairIsKnown, SpecDeleteIsWanted, ObjectOrNone,
            Controllers, SpecCalls, StatusCalls, AdoptCalls, IdleSpec, IdleStatus, IdleAdopt,
            vars, objects, caches, snVars, workers
<1> USE DEF Intervene, WriteCons, WriteProv
<1>1. ASSUME NEW s \in Specs, UserCreate(s) PROVE IInv'
    BY <1>1 DEF UserCreate, Object
<1>2. ASSUME NEW s \in Specs, UserUpdate(s) PROVE IInv'
    BY <1>2 DEF UserUpdate, Object
<1>3. ASSUME NEW s \in Specs, OperatorCreate(s) PROVE IInv'
    BY <1>3 DEF OperatorCreate, Object
<1>4. ASSUME NEW s \in Specs, OperatorUpdate(s) PROVE IInv'
    BY <1>4 DEF OperatorUpdate, Object
<1>5. ASSUME NEW t \in Statuses, ProviderReport(t) PROVE IInv'
    BY <1>5 DEF ProviderReport, Object
<1>6. CASE UserDelete
  <2> cons \in Object
    BY <1>6 DEF UserDelete
  <2>1. TypeOK'
    <3>1. cons' \in ObjectOrNone
      BY <1>6, DeletedFacts DEF UserDelete
    <3>2. consFresh' \in SUBSET (Controllers \cup {"cache"})
      BY <1>6 DEF UserDelete
    <3>3. paired' \in BOOLEAN
      BY <1>6 DEF UserDelete
    <3> QED
      BY <1>6, <3>1, <3>2, <3>3 DEF UserDelete
  <2>2. CopiesAreCurrent'
    BY <1>6, DeletedFacts DEF UserDelete
  <2>3. Gate'
    BY <1>6, DeletedFacts DEF UserDelete
  <2>4. SpecCopy'
    BY <1>6, DeletedFacts DEF UserDelete
  <2>5. AdoptCopy'
    BY <1>6, DeletedFacts DEF UserDelete
  <2>6. CachedFinalizerHeld'
    BY <1>6, DeletedFacts DEF UserDelete
  <2>7. FinalizerHeld'
    BY <1>6, DeletedFacts DEF UserDelete
  <2>8. CreateSeesObject'
    BY <1>6, DeletedFacts DEF UserDelete
  <2>9. PairIsKnown'
    BY <1>6, DeletedFacts DEF UserDelete
  <2>10. SpecDeleteIsWanted'
    BY <1>6, DeletedFacts DEF UserDelete
  <2> QED
    BY <2>1, <2>2, <2>3, <2>4, <2>5, <2>6, <2>7, <2>8, <2>9, <2>10 DEF IInv
<1>7. CASE OperatorDelete
  <2> prov \in Object
    BY <1>7 DEF OperatorDelete
  <2>1. TypeOK'
    <3>1. prov' \in ObjectOrNone
      BY <1>7, DeletedFacts DEF OperatorDelete
    <3>2. provFresh' \in SUBSET (Controllers \cup {"cache"})
      BY <1>7 DEF OperatorDelete
    <3>3. paired' \in BOOLEAN
      BY <1>7 DEF OperatorDelete
    <3> QED
      BY <1>7, <3>1, <3>2, <3>3 DEF OperatorDelete
  <2>2. CopiesAreCurrent'
    BY <1>7, DeletedFacts DEF OperatorDelete
  <2>3. Gate'
    BY <1>7, DeletedFacts DEF OperatorDelete
  <2>4. SpecCopy'
    BY <1>7, DeletedFacts DEF OperatorDelete
  <2>5. AdoptCopy'
    BY <1>7, DeletedFacts DEF OperatorDelete
  <2>6. CachedFinalizerHeld'
    BY <1>7, DeletedFacts DEF OperatorDelete
  <2>7. FinalizerHeld'
    BY <1>7, DeletedFacts DEF OperatorDelete
  <2>8. CreateSeesObject'
    BY <1>7, DeletedFacts DEF OperatorDelete
  <2>9. PairIsKnown'
    BY <1>7, DeletedFacts DEF OperatorDelete
  <2>10. SpecDeleteIsWanted'
    BY <1>7, DeletedFacts DEF OperatorDelete
  <2> QED
    BY <2>1, <2>2, <2>3, <2>4, <2>5, <2>6, <2>7, <2>8, <2>9, <2>10 DEF IInv
<1>8. CASE ProviderAddFinalizer
    BY <1>8 DEF ProviderAddFinalizer, Object
<1>9. CASE ProviderFinalize
    BY <1>9 DEF ProviderFinalize, Stored, Object
<1>10. CASE BackendReady
    BY <1>10 DEF BackendReady
<1> QED
    BY <1>1, <1>2, <1>3, <1>4, <1>5, <1>6, <1>7, <1>8, <1>9, <1>10 DEF Environment

\* The informers, starting and restarting.
LEMMA InformersStep ==
    ASSUME IInv, Informers
    PROVE  IInv'
<1> USE SyncerAssumption
        DEF IInv, TypeOK, CopiesAreCurrent, Gate, SpecCopy, AdoptCopy, CachedFinalizerHeld,
            FinalizerHeld, CreateSeesObject, PairIsKnown, SpecDeleteIsWanted, ObjectOrNone,
            Controllers, SpecCalls, StatusCalls, AdoptCalls, IdleSpec, IdleStatus, IdleAdopt,
            vars, objects, caches, snVars, workers
<1>1. CASE DeliverConsumer
    BY <1>1 DEF DeliverConsumer, EnqueueConsumer, Unseen
<1>2. CASE DeliverProvider
    BY <1>2 DEF DeliverProvider, Unseen, EnqueueProvider
<1>3. CASE DeliverServiceNamespace
    BY <1>3 DEF DeliverServiceNamespace, EnqueueServiceNamespace
<1>4. CASE Resync
    BY <1>4 DEF Resync, EnqueueConsumer, EnqueueProvider
<1>5. CASE StartControllers
    BY <1>5 DEF StartControllers, EnqueueServiceNamespace
<1>6. CASE Restart
  <2>1. TypeOK'
    <3>1. specW' \in [call : SpecCalls \cup {"none"}, obj : ObjectOrNone, up : ObjectOrNone]
      BY <1>6 DEF Restart
    <3>2. statusW' \in [call : StatusCalls \cup {"none"}, status : Statuses \cup {NoStatus}]
      BY <1>6 DEF Restart
    <3>3. adoptW' \in [call : AdoptCalls \cup {"none"}, obj : ObjectOrNone]
      BY <1>6 DEF Restart
    <3>4. consSynced' \in BOOLEAN /\ provSynced' \in BOOLEAN /\ running' \in BOOLEAN
      BY <1>6 DEF Restart
    <3>5. /\ cons' \in ObjectOrNone /\ prov' \in ObjectOrNone
          /\ consCache' \in ObjectOrNone /\ provCache' \in ObjectOrNone
          /\ consFresh' = {} /\ provFresh' = {} /\ queue' = {}
          /\ sn' = sn /\ snCache' \in {"none", "pending", "ready"}
      BY <1>6 DEF Restart
    <3>6. paired' \in BOOLEAN
      BY <1>6 DEF Restart
    <3>7. ops' \in 0..MaxOps
      BY <1>6 DEF Restart, Intervene
    <3> QED
      BY <3>1, <3>2, <3>3, <3>4, <3>5, <3>6, <3>7
  <2>2. CopiesAreCurrent'
    BY <1>6 DEF Restart
  <2>3. Gate'
    BY <1>6 DEF Restart
  <2>4. SpecCopy'
    BY <1>6 DEF Restart
  <2>5. AdoptCopy'
    BY <1>6 DEF Restart
  <2>6. CachedFinalizerHeld'
    BY <1>6 DEF Restart
  <2>7. FinalizerHeld'
    BY <1>6 DEF Restart
  <2>8. CreateSeesObject'
    BY <1>6 DEF Restart
  <2>9. PairIsKnown'
    BY <1>6 DEF Restart
  <2>10. SpecDeleteIsWanted'
    BY <1>6 DEF Restart
  <2> QED
    BY <2>1, <2>2, <2>3, <2>4, <2>5, <2>6, <2>7, <2>8, <2>9, <2>10 DEF IInv
<1> QED
    BY <1>1, <1>2, <1>3, <1>4, <1>5, <1>6 DEF Informers

\* The spec controller.
LEMMA SpecStepInv ==
    ASSUME IInv, SpecStep
    PROVE  IInv'
<1> USE SyncerAssumption
        DEF IInv, TypeOK, CopiesAreCurrent, Gate, SpecCopy, AdoptCopy, CachedFinalizerHeld,
            FinalizerHeld, CreateSeesObject, PairIsKnown, SpecDeleteIsWanted, ObjectOrNone,
            Controllers, SpecCalls, StatusCalls, AdoptCalls, IdleSpec, IdleStatus, IdleAdopt,
            vars, objects, caches, snVars, workers
<1> USE DEF Begin, SpecDone
<1>1. CASE SpecBeginGone
    BY <1>1 DEF SpecBeginGone
<1>2. CASE SpecBeginNamespace
    BY <1>2 DEF SpecBeginNamespace
<1>3. CASE SpecBegin
  <2> DEFINE next == SpecCall(consCache, provCache)
  <2> consCache \in Object
    BY <1>3 DEF SpecBegin
  <2>a. specW' = IF next = "none" THEN IdleSpec
                 ELSE [call |-> next, obj |-> consCache, up |-> provCache]
    BY <1>3 DEF SpecBegin, SpecContinue
  <2>b. "spec" \notin consFresh /\ "spec" \in consFresh' => next # "none" /\ "cache" \in consFresh
    BY <1>3 DEF SpecBegin, SpecContinue
  <2>c. /\ consFresh' \subseteq consFresh \cup {"spec"}
        /\ "cache" \in consFresh => "cache" \in consFresh'
    BY <1>3 DEF SpecBegin, SpecContinue
  <2> HIDE DEF next
  <2>1. TypeOK'
    BY <1>3, <2>a, <2>b, <2>c, SpecCallFacts DEF SpecBegin, next
  <2>2. CopiesAreCurrent'
    <3>1. "spec" \notin consFresh /\ "spec" \notin provFresh
      BY <1>3 DEF SpecBegin
    <3>2. "cache" \in provFresh' => "cache" \in provFresh
      BY <1>3 DEF SpecBegin
    <3>3. "spec" \in provFresh' => provCache = prov /\ next # "none"
      BY <1>3, <2>a, <3>1 DEF SpecBegin
    <3>4. UNCHANGED <<cons, prov, consCache, provCache, statusW, adoptW>>
      BY <1>3 DEF SpecBegin
    <3>5. next # "createServiceNamespace"
      BY SpecCallFacts DEF next
    <3> QED
      BY <2>a, <2>b, <2>c, <3>1, <3>2, <3>3, <3>4, <3>5
  <2>3. Gate'
    BY <1>3, <2>a, <2>b, <2>c, SpecCallFacts DEF SpecBegin, next
  <2>4. SpecCopy'
    BY <1>3, <2>a, <2>b, <2>c, SpecCallFacts DEF SpecBegin, next
  <2>5. AdoptCopy'
    BY <1>3, <2>a, <2>b, <2>c, SpecCallFacts DEF SpecBegin, next
  <2>6. CachedFinalizerHeld'
    BY <1>3, <2>a, <2>b, <2>c, SpecCallFacts DEF SpecBegin, next
  <2>7. FinalizerHeld'
    BY <1>3, <2>a, <2>b, <2>c, SpecCallFacts DEF SpecBegin, next
  <2>8. CreateSeesObject'
    BY <1>3, <2>a, <2>b, <2>c, SpecCallFacts DEF SpecBegin, next
  <2>9. PairIsKnown'
    BY <1>3, <2>a, <2>b, <2>c, SpecCallFacts DEF SpecBegin, next
  <2>10. SpecDeleteIsWanted'
    BY <1>3, <2>a, <2>b, <2>c, SpecCallFacts DEF SpecBegin, next
  <2> QED
    BY <2>1, <2>2, <2>3, <2>4, <2>5, <2>6, <2>7, <2>8, <2>9, <2>10 DEF IInv
<1>4. CASE SpecCreateServiceNamespace
    BY <1>4 DEF SpecCreateServiceNamespace
<1>5. CASE SpecAddFinalizer
  <2>1. TypeOK'
    BY <1>5 DEF SpecAddFinalizer, SpecContinue, SpecCall, Object
  <2>2. CopiesAreCurrent'
    BY <1>5 DEF SpecAddFinalizer, SpecContinue, SpecCall, Object
  <2>3. Gate'
    BY <1>5 DEF SpecAddFinalizer, SpecContinue, SpecCall, Object
  <2>4. SpecCopy'
    BY <1>5 DEF SpecAddFinalizer, SpecContinue, SpecCall, Object
  <2>5. AdoptCopy'
    BY <1>5 DEF SpecAddFinalizer, SpecContinue, SpecCall, Object
  <2>6. CachedFinalizerHeld'
    BY <1>5 DEF SpecAddFinalizer, SpecContinue, SpecCall, Object
  <2>7. FinalizerHeld'
    BY <1>5 DEF SpecAddFinalizer, SpecContinue, SpecCall, Object
  <2>8. CreateSeesObject'
    BY <1>5 DEF SpecAddFinalizer, SpecContinue, SpecCall, Object
  <2>9. PairIsKnown'
    BY <1>5 DEF SpecAddFinalizer, SpecContinue, SpecCall, Object
  <2>10. SpecDeleteIsWanted'
    BY <1>5 DEF SpecAddFinalizer, SpecContinue, SpecCall, Object
  <2> QED
    BY <2>1, <2>2, <2>3, <2>4, <2>5, <2>6, <2>7, <2>8, <2>9, <2>10 DEF IInv
<1>6. CASE SpecCreateUpstream
  <2>1. TypeOK'
    <3>1. prov' \in ObjectOrNone
      <4>1. specW.obj.spec \in Specs
        BY <1>6 DEF SpecCreateUpstream, Object
      <4>2. [spec |-> specW.obj.spec, status |-> NoStatus, finalizers |-> {},
             deleting |-> FALSE, bound |-> TRUE] \in Object
        BY <4>1 DEF Object
      <4> QED
        BY <1>6, <4>2 DEF SpecCreateUpstream
    <3>2. paired' \in BOOLEAN
      BY <1>6 DEF SpecCreateUpstream
    <3>3. provFresh' \in SUBSET (Controllers \cup {"cache"})
      BY <1>6 DEF SpecCreateUpstream
    <3> QED
      BY <1>6, <3>1, <3>2, <3>3 DEF SpecCreateUpstream
  <2>2. CopiesAreCurrent'
    BY <1>6 DEF SpecCreateUpstream, Object
  <2>3. Gate'
    BY <1>6 DEF SpecCreateUpstream, Object
  <2>4. SpecCopy'
    BY <1>6 DEF SpecCreateUpstream, Object
  <2>5. AdoptCopy'
    BY <1>6 DEF SpecCreateUpstream, Object
  <2>6. CachedFinalizerHeld'
    BY <1>6 DEF SpecCreateUpstream, Object
  <2>7. FinalizerHeld'
    BY <1>6 DEF SpecCreateUpstream, Object
  <2>8. CreateSeesObject'
    BY <1>6 DEF SpecCreateUpstream, Object
  <2>9. PairIsKnown'
    BY <1>6 DEF SpecCreateUpstream, Object
  <2>10. SpecDeleteIsWanted'
    BY <1>6 DEF SpecCreateUpstream, Object
  <2> QED
    BY <2>1, <2>2, <2>3, <2>4, <2>5, <2>6, <2>7, <2>8, <2>9, <2>10 DEF IInv
<1>7. CASE SpecApplyUpstream
  <2>1. TypeOK'
    <3>1. specW.obj \in Object /\ specW.up \in Object
      BY <1>7 DEF SpecApplyUpstream
    <3>2. specW.obj.spec \in Specs
      BY <3>1 DEF Object
    <3>3. [specW.up EXCEPT !.spec = specW.obj.spec, !.bound = TRUE] \in Object
      BY <3>1, <3>2, ExceptFacts
    <3>4. prov' \in ObjectOrNone
      BY <1>7, <3>3 DEF SpecApplyUpstream
    <3> QED
      BY <1>7, <3>1, <3>4 DEF SpecApplyUpstream
  <2>2. CopiesAreCurrent'
    BY <1>7 DEF SpecApplyUpstream, Object
  <2>3. Gate'
    BY <1>7 DEF SpecApplyUpstream, Object
  <2>4. SpecCopy'
    BY <1>7 DEF SpecApplyUpstream, Object
  <2>5. AdoptCopy'
    BY <1>7 DEF SpecApplyUpstream, Object
  <2>6. CachedFinalizerHeld'
    BY <1>7 DEF SpecApplyUpstream, Object
  <2>7. FinalizerHeld'
    BY <1>7 DEF SpecApplyUpstream, Object
  <2>8. CreateSeesObject'
    BY <1>7 DEF SpecApplyUpstream, Object
  <2>9. PairIsKnown'
    BY <1>7 DEF SpecApplyUpstream, Object
  <2>10. SpecDeleteIsWanted'
    BY <1>7 DEF SpecApplyUpstream, Object
  <2> QED
    BY <2>1, <2>2, <2>3, <2>4, <2>5, <2>6, <2>7, <2>8, <2>9, <2>10 DEF IInv
<1>8. CASE SpecDeleteUpstream
  <2>a. specW.obj \in Object /\ specW.obj.deleting
    BY <1>8 DEF SpecDeleteUpstream
  <2>b. \/ specW' = IdleSpec
        \/ /\ specW' = [call |-> "removeFinalizer", obj |-> specW.obj, up |-> NoObj]
           /\ DownstreamFinalizer \in specW.obj.finalizers
    BY <1>8 DEF SpecDeleteUpstream
  <2>c. /\ consFresh' \in {consFresh, consFresh \ {"spec"}}
        /\ "spec" \in consFresh' => specW'.call = "removeFinalizer"
    BY <1>8 DEF SpecDeleteUpstream
  <2>d. prov' \in ObjectOrNone
    BY <1>8, DeletedFacts DEF SpecDeleteUpstream
  <2>e. /\ provFresh' \in SUBSET provFresh /\ "spec" \notin provFresh'
        /\ provFresh' # {} => prov' = prov
    BY <1>8 DEF SpecDeleteUpstream
  <2>f. paired' \in {paired, FALSE}
    BY <1>8 DEF SpecDeleteUpstream
  <2>g. /\ queue' = queue
        /\ UNCHANGED <<cons, caches, snVars, running, statusW, adoptW, ops>>
    BY <1>8 DEF SpecDeleteUpstream
  <2>h. specW.call = "deleteUpstream"
    BY <1>8 DEF SpecDeleteUpstream
  <2>1. TypeOK'
    <3>1. paired' \in BOOLEAN
      BY <2>f
    <3>2. specW' \in [call : SpecCalls \cup {"none"}, obj : ObjectOrNone, up : ObjectOrNone]
      BY <2>a, <2>b
    <3> QED
      BY <2>c, <2>d, <2>e, <2>g, <3>1, <3>2
  <2>2. CopiesAreCurrent'
    BY <2>a, <2>b, <2>c, <2>d, <2>e, <2>g, <2>h
  <2>3. Gate'
    BY <2>b, <2>g, <2>h
  <2>4. SpecCopy'
    BY <2>a, <2>b, <2>c, <2>h
  <2>5. AdoptCopy'
    BY <2>g
  <2>6. CachedFinalizerHeld'
    BY <2>g
  <2>7. FinalizerHeld'
    BY <2>b
  <2>8. CreateSeesObject'
    BY <2>b
  <2>9. PairIsKnown'
    BY <2>f, <2>g
  <2>10. SpecDeleteIsWanted'
    BY <2>b
  <2> QED
    BY <2>1, <2>2, <2>3, <2>4, <2>5, <2>6, <2>7, <2>8, <2>9, <2>10 DEF IInv
<1>9. CASE SpecRemoveFinalizer
  <2>1. TypeOK'
    BY <1>9 DEF SpecRemoveFinalizer, WriteCons, Stored, Object
  <2>2. CopiesAreCurrent'
    BY <1>9 DEF SpecRemoveFinalizer, WriteCons, Stored, Object
  <2>3. Gate'
    BY <1>9 DEF SpecRemoveFinalizer, WriteCons, Stored, Object
  <2>4. SpecCopy'
    BY <1>9 DEF SpecRemoveFinalizer, WriteCons, Stored, Object
  <2>5. AdoptCopy'
    BY <1>9 DEF SpecRemoveFinalizer, WriteCons, Stored, Object
  <2>6. CachedFinalizerHeld'
    BY <1>9 DEF SpecRemoveFinalizer, WriteCons, Stored, Object
  <2>7. FinalizerHeld'
    BY <1>9 DEF SpecRemoveFinalizer, WriteCons, Stored, Object
  <2>8. CreateSeesObject'
    BY <1>9 DEF SpecRemoveFinalizer, WriteCons, Stored, Object
  <2>9. PairIsKnown'
    BY <1>9 DEF SpecRemoveFinalizer, WriteCons, Stored, Object
  <2>10. SpecDeleteIsWanted'
    BY <1>9 DEF SpecRemoveFinalizer, WriteCons, Stored, Object
  <2> QED
    BY <2>1, <2>2, <2>3, <2>4, <2>5, <2>6, <2>7, <2>8, <2>9, <2>10 DEF IInv
<1> QED
    BY <1>1, <1>2, <1>3, <1>4, <1>5, <1>6, <1>7, <1>8, <1>9 DEF SpecStep

\* The status controller.
LEMMA StatusStepInv ==
    ASSUME IInv, StatusStep
    PROVE  IInv'
<1> USE SyncerAssumption
        DEF IInv, TypeOK, CopiesAreCurrent, Gate, SpecCopy, AdoptCopy, CachedFinalizerHeld,
            FinalizerHeld, CreateSeesObject, PairIsKnown, SpecDeleteIsWanted, ObjectOrNone,
            Controllers, SpecCalls, StatusCalls, AdoptCalls, IdleSpec, IdleStatus, IdleAdopt,
            vars, objects, caches, snVars, workers
<1> USE DEF Begin, StatusDone
<1>1. CASE StatusBeginGone
    BY <1>1 DEF StatusBeginGone
<1>2. CASE StatusBeginOrphan
    BY <1>2 DEF StatusBeginOrphan
<1>3. CASE StatusBegin
  <2>1. TypeOK'
    <3>1. provCache.status \in Statuses \cup {NoStatus}
      BY <1>3 DEF StatusBegin, Object
    <3>2. statusW' \in [call : StatusCalls \cup {"none"}, status : Statuses \cup {NoStatus}]
      BY <1>3, <3>1 DEF StatusBegin
    <3>3. consFresh' \in SUBSET (Controllers \cup {"cache"})
      BY <1>3 DEF StatusBegin
    <3> QED
      BY <1>3, <3>2, <3>3 DEF StatusBegin
  <2>2. CopiesAreCurrent'
    BY <1>3 DEF StatusBegin, Object
  <2>3. Gate'
    BY <1>3 DEF StatusBegin, Object
  <2>4. SpecCopy'
    BY <1>3 DEF StatusBegin, Object
  <2>5. AdoptCopy'
    BY <1>3 DEF StatusBegin, Object
  <2>6. CachedFinalizerHeld'
    BY <1>3 DEF StatusBegin, Object
  <2>7. FinalizerHeld'
    BY <1>3 DEF StatusBegin, Object
  <2>8. CreateSeesObject'
    BY <1>3 DEF StatusBegin, Object
  <2>9. PairIsKnown'
    BY <1>3 DEF StatusBegin, Object
  <2>10. SpecDeleteIsWanted'
    BY <1>3 DEF StatusBegin, Object
  <2> QED
    BY <2>1, <2>2, <2>3, <2>4, <2>5, <2>6, <2>7, <2>8, <2>9, <2>10 DEF IInv
<1>4. CASE StatusDeleteUpstream
  <2>1. TypeOK'
    <3>1. prov' \in ObjectOrNone
      BY <1>4, DeletedFacts DEF StatusDeleteUpstream, WriteProv
    <3>2. provFresh' \in SUBSET (Controllers \cup {"cache"})
      BY <1>4 DEF StatusDeleteUpstream, WriteProv
    <3>3. paired' \in BOOLEAN
      BY <1>4 DEF StatusDeleteUpstream
    <3>4. statusW' = IdleStatus /\ queue' \in SUBSET Controllers
      BY <1>4 DEF StatusDeleteUpstream
    <3> QED
      BY <1>4, <3>1, <3>2, <3>3, <3>4 DEF StatusDeleteUpstream
  <2>2. CopiesAreCurrent'
    BY <1>4, DeletedFacts DEF StatusDeleteUpstream, WriteProv
  <2>3. Gate'
    BY <1>4, DeletedFacts DEF StatusDeleteUpstream, WriteProv
  <2>4. SpecCopy'
    BY <1>4, DeletedFacts DEF StatusDeleteUpstream, WriteProv
  <2>5. AdoptCopy'
    BY <1>4, DeletedFacts DEF StatusDeleteUpstream, WriteProv
  <2>6. CachedFinalizerHeld'
    BY <1>4, DeletedFacts DEF StatusDeleteUpstream, WriteProv
  <2>7. FinalizerHeld'
    BY <1>4, DeletedFacts DEF StatusDeleteUpstream, WriteProv
  <2>8. CreateSeesObject'
    BY <1>4, DeletedFacts DEF StatusDeleteUpstream, WriteProv
  <2>9. PairIsKnown'
    BY <1>4, DeletedFacts DEF StatusDeleteUpstream, WriteProv
  <2>10. SpecDeleteIsWanted'
    BY <1>4, DeletedFacts DEF StatusDeleteUpstream, WriteProv
  <2> QED
    BY <2>1, <2>2, <2>3, <2>4, <2>5, <2>6, <2>7, <2>8, <2>9, <2>10 DEF IInv
<1>5. CASE StatusUpdateStatus
    BY <1>5 DEF StatusUpdateStatus, Object
<1> QED
    BY <1>1, <1>2, <1>3, <1>4, <1>5 DEF StatusStep

\* The adopt controller.
LEMMA AdoptStepInv ==
    ASSUME IInv, AdoptStep
    PROVE  IInv'
<1> USE SyncerAssumption
        DEF IInv, TypeOK, CopiesAreCurrent, Gate, SpecCopy, AdoptCopy, CachedFinalizerHeld,
            FinalizerHeld, CreateSeesObject, PairIsKnown, SpecDeleteIsWanted, ObjectOrNone,
            Controllers, SpecCalls, StatusCalls, AdoptCalls, IdleSpec, IdleStatus, IdleAdopt,
            vars, objects, caches, snVars, workers
<1> USE DEF Begin, AdoptDone
<1>1. CASE AdoptBeginGone
    BY <1>1 DEF AdoptBeginGone
<1>2. CASE AdoptBeginCandidate
  <2>1. TypeOK'
    BY <1>2 DEF AdoptBeginCandidate
  <2>2. CopiesAreCurrent'
    BY <1>2 DEF AdoptBeginCandidate
  <2>3. Gate'
    BY <1>2 DEF AdoptBeginCandidate
  <2>4. SpecCopy'
    BY <1>2 DEF AdoptBeginCandidate
  <2>5. AdoptCopy'
    BY <1>2 DEF AdoptBeginCandidate
  <2>6. CachedFinalizerHeld'
    BY <1>2 DEF AdoptBeginCandidate
  <2>7. FinalizerHeld'
    BY <1>2 DEF AdoptBeginCandidate
  <2>8. CreateSeesObject'
    BY <1>2 DEF AdoptBeginCandidate
  <2>9. PairIsKnown'
    BY <1>2 DEF AdoptBeginCandidate
  <2>10. SpecDeleteIsWanted'
    BY <1>2 DEF AdoptBeginCandidate
  <2> QED
    BY <2>1, <2>2, <2>3, <2>4, <2>5, <2>6, <2>7, <2>8, <2>9, <2>10 DEF IInv
<1>3. CASE AdoptBegin
  <2>1. TypeOK'
    <3>1. adoptW' \in [call : AdoptCalls \cup {"none"}, obj : ObjectOrNone]
      BY <1>3 DEF AdoptBegin
    <3>2. consFresh' \in SUBSET (Controllers \cup {"cache"})
      BY <1>3 DEF AdoptBegin
    <3> QED
      BY <1>3, <3>1, <3>2 DEF AdoptBegin
  <2>2. CopiesAreCurrent'
    BY <1>3 DEF AdoptBegin, Object
  <2>3. Gate'
    BY <1>3 DEF AdoptBegin, Object
  <2>4. SpecCopy'
    BY <1>3 DEF AdoptBegin, Object
  <2>5. AdoptCopy'
    BY <1>3 DEF AdoptBegin, Object
  <2>6. CachedFinalizerHeld'
    BY <1>3 DEF AdoptBegin, Object
  <2>7. FinalizerHeld'
    BY <1>3 DEF AdoptBegin, Object
  <2>8. CreateSeesObject'
    BY <1>3 DEF AdoptBegin, Object
  <2>9. PairIsKnown'
    BY <1>3 DEF AdoptBegin, Object
  <2>10. SpecDeleteIsWanted'
    BY <1>3 DEF AdoptBegin, Object
  <2> QED
    BY <2>1, <2>2, <2>3, <2>4, <2>5, <2>6, <2>7, <2>8, <2>9, <2>10 DEF IInv
<1>4. CASE AdoptCreateDownstream
  <2>a. adoptW.obj \in Object
    BY <1>4 DEF AdoptCreateDownstream
  <2>b. adoptW' = IdleAdopt
    BY <1>4 DEF AdoptCreateDownstream
  <2>1. TypeOK'
    <3>1. [adoptW.obj EXCEPT !.status = NoStatus, !.deleting = FALSE, !.bound = TRUE] \in Object
      BY <2>a DEF Object
    <3>2. cons' \in ObjectOrNone
      BY <1>4, <3>1 DEF AdoptCreateDownstream, WriteCons
    <3>3. consFresh' \in SUBSET (Controllers \cup {"cache"})
      BY <1>4 DEF AdoptCreateDownstream, WriteCons
    <3> QED
      BY <1>4, <2>b, <3>2, <3>3 DEF AdoptCreateDownstream
  <2>2. CopiesAreCurrent'
    BY <1>4, ExceptFacts DEF AdoptCreateDownstream, WriteCons
  <2>3. Gate'
    BY <1>4, ExceptFacts DEF AdoptCreateDownstream, WriteCons
  <2>4. SpecCopy'
    BY <1>4, ExceptFacts DEF AdoptCreateDownstream, WriteCons
  <2>5. AdoptCopy'
    BY <2>b
  <2>6. CachedFinalizerHeld'
    BY <1>4, ExceptFacts DEF AdoptCreateDownstream, WriteCons
  <2>7. FinalizerHeld'
    BY <1>4, ExceptFacts DEF AdoptCreateDownstream, WriteCons
  <2>8. CreateSeesObject'
    BY <1>4, ExceptFacts DEF AdoptCreateDownstream, WriteCons
  <2>9. PairIsKnown'
    BY <1>4, ExceptFacts DEF AdoptCreateDownstream, WriteCons
  <2>10. SpecDeleteIsWanted'
    BY <1>4, ExceptFacts DEF AdoptCreateDownstream, WriteCons
  <2> QED
    BY <2>1, <2>2, <2>3, <2>4, <2>5, <2>6, <2>7, <2>8, <2>9, <2>10 DEF IInv
<1>5. CASE AdoptAnnotateDownstream
  <2>a. adoptW.obj \in Object /\ ~adoptW.obj.bound
    BY <1>5 DEF AdoptAnnotateDownstream
  <2> DEFINE new == [adoptW.obj EXCEPT !.bound = TRUE]
  <2>b. /\ new \in Object /\ new # adoptW.obj /\ new # NoObj
        /\ new.finalizers = adoptW.obj.finalizers /\ new.deleting = adoptW.obj.deleting
    <3>1. new \in Object /\ new.bound
      BY <2>a DEF Object
    <3>2. new.finalizers = adoptW.obj.finalizers /\ new.deleting = adoptW.obj.deleting
      BY <2>a DEF Object
    <3> QED
      BY <2>a, <3>1, <3>2
  <2>c. \/ /\ "adopt" \in consFresh /\ adoptW.obj = cons
           /\ cons' = new /\ consFresh' = {}
        \/ UNCHANGED <<cons, consFresh>> /\ "adopt" \notin consFresh
    BY <1>5, <2>b DEF AdoptAnnotateDownstream, WriteCons
  <2> HIDE DEF new
  <2>1. TypeOK'
    BY <1>5, <2>a, <2>b, <2>c DEF AdoptAnnotateDownstream
  <2>2. CopiesAreCurrent'
    BY <1>5, <2>a, <2>b, <2>c DEF AdoptAnnotateDownstream
  <2>3. Gate'
    BY <1>5, <2>a, <2>b, <2>c DEF AdoptAnnotateDownstream
  <2>4. SpecCopy'
    BY <1>5, <2>a, <2>b, <2>c DEF AdoptAnnotateDownstream
  <2>5. AdoptCopy'
    BY <1>5, <2>a, <2>b, <2>c DEF AdoptAnnotateDownstream
  <2>6. CachedFinalizerHeld'
    BY <1>5, <2>a, <2>b, <2>c DEF AdoptAnnotateDownstream
  <2>7. FinalizerHeld'
    BY <1>5, <2>a, <2>b, <2>c DEF AdoptAnnotateDownstream
  <2>8. CreateSeesObject'
    BY <1>5, <2>a, <2>b, <2>c DEF AdoptAnnotateDownstream
  <2>9. PairIsKnown'
    BY <1>5, <2>a, <2>b, <2>c DEF AdoptAnnotateDownstream
  <2>10. SpecDeleteIsWanted'
    BY <1>5, <2>a, <2>b, <2>c DEF AdoptAnnotateDownstream
  <2> QED
    BY <2>1, <2>2, <2>3, <2>4, <2>5, <2>6, <2>7, <2>8, <2>9, <2>10 DEF IInv
<1>6. CASE AdoptAnnotateUpstream
    BY <1>6 DEF AdoptAnnotateUpstream
<1> QED
    BY <1>1, <1>2, <1>3, <1>4, <1>5, <1>6 DEF AdoptStep

\* A failing API call.
LEMMA CallFailsInv ==
    ASSUME IInv, NEW c \in Controllers, CallFails(c)
    PROVE  IInv'
<1> USE SyncerAssumption
        DEF IInv, TypeOK, CopiesAreCurrent, Gate, SpecCopy, AdoptCopy, CachedFinalizerHeld,
            FinalizerHeld, CreateSeesObject, PairIsKnown, SpecDeleteIsWanted, ObjectOrNone,
            Controllers, SpecCalls, StatusCalls, AdoptCalls, IdleSpec, IdleStatus, IdleAdopt,
            vars, objects, caches, snVars, workers
<1>a. /\ consFresh' = consFresh \ {c} /\ provFresh' = provFresh \ {c}
      /\ queue' \in SUBSET Controllers
      /\ ops' \in 0..MaxOps
      /\ UNCHANGED <<cons, prov, caches, snVars, running, paired>>
    BY DEF CallFails, Intervene, SpecDone, StatusDone, AdoptDone
<1>b. /\ specW' = specW \/ (c = "spec" /\ specW' = IdleSpec)
      /\ statusW' = statusW \/ (c = "status" /\ statusW' = IdleStatus)
      /\ adoptW' = adoptW \/ (c = "adopt" /\ adoptW' \in {IdleAdopt, [IdleAdopt EXCEPT !.call = "annotateUpstream"]})
    BY DEF CallFails, SpecDone, StatusDone, AdoptDone
<1>1. TypeOK'
    BY <1>a, <1>b
<1>2. CopiesAreCurrent'
    BY <1>a, <1>b
<1>3. Gate'
    BY <1>a, <1>b
<1>4. SpecCopy'
    BY <1>a, <1>b
<1>5. AdoptCopy'
    BY <1>a, <1>b
<1>6. CachedFinalizerHeld'
    BY <1>a, <1>b
<1>7. FinalizerHeld'
    BY <1>a, <1>b
<1>8. CreateSeesObject'
    BY <1>a, <1>b
<1>9. PairIsKnown'
    BY <1>a, <1>b
<1>10. SpecDeleteIsWanted'
    BY <1>a, <1>b
<1> QED
    BY <1>1, <1>2, <1>3, <1>4, <1>5, <1>6, <1>7, <1>8, <1>9, <1>10

\* The three controllers and the failures of their calls.
LEMMA KonnectorStepInv ==
    ASSUME IInv, Konnector
    PROVE  IInv'
BY SpecStepInv, StatusStepInv, AdoptStepInv, CallFailsInv DEF Konnector

\* Every step of the system preserves the inductive invariant.
LEMMA NextStep == IInv /\ [Next]_vars => IInv'
<1> SUFFICES ASSUME IInv, [Next]_vars PROVE IInv'
    OBVIOUS
<1>1. CASE Next
    BY <1>1, EnvironmentStep, InformersStep, KonnectorStepInv DEF Next
<1>2. CASE UNCHANGED vars
  <2> USE <1>2 DEF vars, objects, caches, snVars, workers
  <2>1. TypeOK'
    BY DEF IInv, TypeOK
  <2>2. CopiesAreCurrent' /\ Gate' /\ SpecCopy' /\ AdoptCopy'
    BY DEF IInv, CopiesAreCurrent, Gate, SpecCopy, AdoptCopy
  <2>3. CachedFinalizerHeld' /\ FinalizerHeld' /\ CreateSeesObject'
    BY DEF IInv, CachedFinalizerHeld, FinalizerHeld, CreateSeesObject
  <2>4. PairIsKnown' /\ SpecDeleteIsWanted'
    BY DEF IInv, PairIsKnown, SpecDeleteIsWanted
  <2> QED
    BY <2>1, <2>2, <2>3, <2>4 DEF IInv
<1> QED
    BY <1>1, <1>2

\* The inductive invariant holds initially: no objects, empty caches, idle workers.
LEMMA InitInv == Init => IInv
<1> SUFFICES ASSUME Init PROVE IInv
    OBVIOUS
<1> USE SyncerAssumption DEF Init, IdleSpec, IdleStatus, IdleAdopt
<1>1. TypeOK
  <2>1. /\ cons \in ObjectOrNone /\ prov \in ObjectOrNone
        /\ consCache \in ObjectOrNone /\ provCache \in ObjectOrNone
    BY DEF ObjectOrNone
  <2>2. /\ specW \in [call : SpecCalls \cup {"none"}, obj : ObjectOrNone, up : ObjectOrNone]
        /\ statusW \in [call : StatusCalls \cup {"none"}, status : Statuses \cup {NoStatus}]
        /\ adoptW \in [call : AdoptCalls \cup {"none"}, obj : ObjectOrNone]
    BY DEF ObjectOrNone
  <2>3. /\ consFresh \in SUBSET (Controllers \cup {"cache"})
        /\ provFresh \in SUBSET (Controllers \cup {"cache"})
        /\ queue \in SUBSET Controllers
    OBVIOUS
  <2>4. /\ consSynced \in BOOLEAN /\ provSynced \in BOOLEAN
        /\ running \in BOOLEAN /\ paired \in BOOLEAN
    BY Zenon
  <2>5. sn \in {"none", "pending", "ready"} /\ snCache \in {"none", "pending", "ready"}
    OBVIOUS
  <2>6. ops \in 0..MaxOps
    OBVIOUS
  <2> QED
    BY <2>1, <2>2, <2>3, <2>4, <2>5, <2>6 DEF TypeOK
<1>2. CopiesAreCurrent /\ Gate /\ SpecCopy /\ AdoptCopy
    BY DEF CopiesAreCurrent, Gate, SpecCopy, AdoptCopy
<1>3. CachedFinalizerHeld /\ FinalizerHeld /\ CreateSeesObject /\ PairIsKnown /\ SpecDeleteIsWanted
    BY DEF CachedFinalizerHeld, FinalizerHeld, CreateSeesObject, PairIsKnown, SpecDeleteIsWanted
<1> QED
    BY <1>1, <1>2, <1>3 DEF IInv

\* The inductive invariant holds in every reachable state.
LEMMA Invariance == Spec => []IInv
BY InitInv, NextStep, PTL DEF Spec

-----------------------------------------------------------------------------
(* The theorems.                                                           *)

\* The state of the syncer is well typed: in particular every update it sends is an
\* object, never the absence of one.
THEOREM TypeCorrect == Spec => []TypeOK
<1>1. IInv => TypeOK
    BY DEF IInv
<1> QED
    BY Invariance, <1>1, PTL

\* The spec controller creates and updates upstream objects only for downstream
\* objects that exist and carry its finalizer, whatever the staleness of its cache.
THEOREM CreatesUnderFinalizer == Spec => []FinalizerHeld
<1>1. IInv => FinalizerHeld
    BY DEF IInv
<1> QED
    BY Invariance, <1>1, PTL

\* The spec controller never asks for the deletion of the upstream object of a
\* downstream object that nobody asked to delete.
THEOREM SpecDeletesOnlyWanted == Spec => []SpecDeleteIsWanted
<1>1. IInv => SpecDeleteIsWanted
    BY DEF IInv
<1> QED
    BY Invariance, <1>1, PTL

\* Neither the spec nor the status controller decides to delete the upstream object of
\* a downstream object that nobody asked to delete: workers only run on synced caches,
\* and a synced cache knows the downstream object of a pair and shows it as live.
THEOREM DeletesAreDecidedOnKnowledge == Spec => DeleteDecisionIsWanted
<1> DEFINE Wanted ==
        /\ specW.call # "deleteUpstream" /\ specW'.call = "deleteUpstream" => ~paired
        /\ statusW.call # "deleteUpstream" /\ statusW'.call = "deleteUpstream" => ~paired
<1>1. IInv /\ [Next]_vars => [Wanted]_vars
  <2> SUFFICES ASSUME IInv, [Next]_vars PROVE Wanted \/ UNCHANGED vars
      OBVIOUS
  <2> USE DEF vars, objects, caches, snVars, workers, IdleSpec, IdleStatus, IdleAdopt
  <2>1. CASE Environment
    <3>1. UNCHANGED workers
      BY <2>1 DEF Environment, UserCreate, UserUpdate, UserDelete, OperatorCreate, OperatorUpdate,
                  OperatorDelete, ProviderReport, ProviderAddFinalizer, ProviderFinalize, BackendReady
    <3> QED
      BY <3>1
  <2>2. CASE Informers
    <3>1. UNCHANGED workers \/ (specW' = IdleSpec /\ statusW' = IdleStatus)
      BY <2>2 DEF Informers, DeliverConsumer, DeliverProvider, DeliverServiceNamespace, Resync,
                  StartControllers, Restart
    <3> QED
      BY <3>1
  <2>3. CASE SpecStep
    <3>1. statusW' = statusW
      BY <2>3 DEF SpecStep, SpecBeginGone, SpecBeginNamespace, SpecBegin, SpecCreateServiceNamespace,
                  SpecAddFinalizer, SpecCreateUpstream, SpecApplyUpstream, SpecDeleteUpstream,
                  SpecRemoveFinalizer, SpecContinue
    <3>2. CASE SpecBegin
      <4>1. running /\ consCache \in Object /\ provCache \in ObjectOrNone
        BY <3>2 DEF SpecBegin, Begin, IInv, TypeOK, ObjectOrNone
      <4>2. specW'.call = "deleteUpstream" => consCache.deleting
        BY <3>2, <4>1, SpecCallFacts DEF SpecBegin, SpecContinue, SpecDone
      <4>3. paired => ~consCache.deleting
        BY <4>1 DEF IInv, Gate, PairIsKnown
      <4> QED
        BY <3>1, <4>2, <4>3
    <3>3. CASE SpecAddFinalizer
      <4>1. CASE "spec" \in consFresh
        <5> DEFINE obj == [specW.obj EXCEPT !.finalizers = @ \cup {DownstreamFinalizer}]
        <5>1. specW.obj \in Object /\ ~specW.obj.deleting /\ specW.up \in ObjectOrNone
          BY <3>3 DEF SpecAddFinalizer, IInv, TypeOK, SpecCopy, ObjectOrNone
        <5>2. obj \in Object /\ ~obj.deleting
          BY <5>1 DEF Object
        <5>3. SpecCall(obj, specW.up) # "deleteUpstream"
          BY <5>1, <5>2, SpecCallFacts
        <5>4. specW'.call = SpecCall(obj, specW.up)
          <6>1. SpecContinue(obj, specW.up, {"spec"})
            BY <3>3, <4>1 DEF SpecAddFinalizer
          <6> HIDE DEF obj
          <6> QED
            BY <6>1 DEF SpecContinue
        <5> QED
          BY <3>1, <5>3, <5>4
      <4>2. CASE "spec" \notin consFresh
        BY <3>1, <3>3, <4>2 DEF SpecAddFinalizer, SpecDone
      <4> QED
        BY <4>1, <4>2
    <3>4. CASE ~SpecBegin /\ ~SpecAddFinalizer
      <4>1. specW'.call = "deleteUpstream" => specW.call = "deleteUpstream"
        BY <2>3, <3>4 DEF IInv, TypeOK, SpecStep, SpecBeginGone, SpecBeginNamespace,
            SpecCreateServiceNamespace, SpecCreateUpstream, SpecApplyUpstream, SpecDeleteUpstream,
            SpecRemoveFinalizer, SpecDone
      <4> QED
        BY <3>1, <4>1
    <3> QED
      BY <3>2, <3>3, <3>4
  <2>4. CASE StatusStep
    <3>1. specW' = specW
      BY <2>4 DEF StatusStep, StatusBeginGone, StatusBeginOrphan, StatusBegin, StatusDeleteUpstream,
                  StatusUpdateStatus
    <3>2. CASE StatusBeginOrphan
      <4>1. consCache = NoObj /\ running
        BY <3>2 DEF StatusBeginOrphan, Begin
      <4> QED
        BY <3>1, <4>1 DEF IInv, Gate, PairIsKnown
    <3>3. CASE ~StatusBeginOrphan
      <4>1. statusW'.call = "deleteUpstream" => statusW.call = "deleteUpstream"
        BY <2>4, <3>3 DEF StatusStep, StatusBeginGone, StatusBegin, StatusDeleteUpstream,
                          StatusUpdateStatus, StatusDone
      <4> QED
        BY <3>1, <4>1
    <3> QED
      BY <3>2, <3>3
  <2>5. CASE AdoptStep
    <3>1. UNCHANGED <<specW, statusW>>
      BY <2>5 DEF AdoptStep, AdoptBeginGone, AdoptBeginCandidate, AdoptBegin, AdoptCreateDownstream,
                  AdoptAnnotateDownstream, AdoptAnnotateUpstream
    <3> QED
      BY <3>1
  <2>6. ASSUME NEW c \in Controllers, CallFails(c) PROVE Wanted
    BY <2>6 DEF CallFails, SpecDone, StatusDone, AdoptDone
  <2> QED
    BY <2>1, <2>2, <2>3, <2>4, <2>5, <2>6 DEF Next, Konnector
<1> QED
    BY Invariance, <1>1, PTL DEF Spec, DeleteDecisionIsWanted

\* Concurrent changes of the downstream object survive the konnector's writes: an update
\* is only accepted from a copy that is still current, and it changes nothing in that
\* copy but what the controller is there to change.
THEOREM UpdatesAreNotLost == Spec => NoLostUpdate
<1> DEFINE Kept ==
        Konnector /\ cons # NoObj /\ cons' # NoObj =>
          /\ cons'.spec = cons.spec
          /\ cons'.deleting = cons.deleting
          /\ cons'.finalizers \ {DownstreamFinalizer} = cons.finalizers \ {DownstreamFinalizer}
          /\ cons'.status # cons.status => statusW.call = "updateStatus"
<1>1. IInv /\ [Next]_vars => [Kept]_vars
  <2> SUFFICES ASSUME IInv, Konnector, cons # NoObj, cons' # NoObj PROVE Kept
      BY DEF vars
  <2> USE DEF vars, objects, caches, snVars, workers, IInv, CopiesAreCurrent
  <2>a. cons \in Object
    BY DEF TypeOK, ObjectOrNone
  <2>1. CASE SpecAddFinalizer
    BY <2>1, <2>a DEF SpecAddFinalizer, SpecContinue, SpecDone, WriteCons, Object
  <2>2. CASE SpecRemoveFinalizer
    BY <2>2, <2>a DEF SpecRemoveFinalizer, WriteCons, Stored, Object
  <2>3. CASE StatusUpdateStatus
    BY <2>3, <2>a DEF StatusUpdateStatus, Object
  <2>4. CASE AdoptAnnotateDownstream
    BY <2>4, <2>a DEF AdoptAnnotateDownstream, WriteCons, Object
  <2>5. CASE AdoptCreateDownstream
    BY <2>5, <2>a DEF AdoptCreateDownstream
  <2>6. CASE ~(SpecAddFinalizer \/ SpecRemoveFinalizer \/ StatusUpdateStatus
                 \/ AdoptAnnotateDownstream \/ AdoptCreateDownstream)
    <3>1. SpecStep => cons' = cons
      BY <2>6 DEF SpecStep, SpecBeginGone, SpecBeginNamespace, SpecBegin, SpecCreateServiceNamespace,
                  SpecCreateUpstream, SpecApplyUpstream, SpecDeleteUpstream, SpecContinue
    <3>2. StatusStep => cons' = cons
      BY <2>6 DEF StatusStep, StatusBeginGone, StatusBeginOrphan, StatusBegin, StatusDeleteUpstream
    <3>3. AdoptStep => cons' = cons
      BY <2>6 DEF AdoptStep, AdoptBeginGone, AdoptBeginCandidate, AdoptBegin, AdoptAnnotateUpstream
    <3>4. ASSUME NEW c \in Controllers, CallFails(c) PROVE cons' = cons
      BY <3>4 DEF CallFails
    <3>5. cons' = cons
      BY <3>1, <3>2, <3>3, <3>4 DEF Konnector
    <3> QED
      BY <3>5
  <2> QED
    BY <2>1, <2>2, <2>3, <2>4, <2>5, <2>6
<1> QED
    BY Invariance, <1>1, PTL DEF Spec, NoLostUpdate

-----------------------------------------------------------------------------
(* Names of cluster-scoped objects.                                        *)

\* What Prepend puts together.
LEMMA PrependFacts ==
    ASSUME Dash \in Char, NEW name \in Name, NEW ns \in Name
    PROVE  /\ Prepend(name, ns) \in Name
           /\ ns \o <<Dash>> \in Name
           /\ Len(ns \o <<Dash>>) = Len(ns) + 1
           /\ Len(Prepend(name, ns)) = Len(ns) + 1 + Len(name)
           /\ \A j \in 1..Len(ns) : Prepend(name, ns)[j] = ns[j] /\ (ns \o <<Dash>>)[j] = ns[j]
           /\ Prepend(name, ns)[Len(ns) + 1] = Dash /\ (ns \o <<Dash>>)[Len(ns) + 1] = Dash
           /\ \A j \in 1..Len(name) : Prepend(name, ns)[Len(ns) + 1 + j] = name[j]
  BY DEF Prepend, Name

\* The downstream name of an upstream name is the name it was made of: Behead undoes Prepend.
THEOREM BeheadUndoesPrepend ==
    ASSUME Dash \in Char, NEW name \in Name, NEW ns \in Name
    PROVE  Behead(Prepend(name, ns), ns) = name
<1> DEFINE key == Prepend(name, ns)
<1>0. Len(ns) \in Nat /\ Len(name) \in Nat
    BY DEF Name
<1>1. /\ key \in Name /\ Len(key) = Len(ns) + 1 + Len(name)
      /\ \A j \in 1..Len(name) : key[Len(ns) + 1 + j] = name[j]
    BY PrependFacts
<1>2. HasPrefix(key, ns \o <<Dash>>)
  <2> DEFINE prefix == ns \o <<Dash>>
  <2>1. /\ Len(prefix) = Len(ns) + 1
        /\ \A j \in 1..Len(ns) : key[j] = ns[j] /\ prefix[j] = ns[j]
        /\ key[Len(ns) + 1] = Dash /\ prefix[Len(ns) + 1] = Dash
    BY PrependFacts
  <2> HIDE DEF prefix, key
  <2>. QED  BY <1>0, <1>1, <2>1 DEF HasPrefix, prefix
<1> HIDE DEF key
<1>3. SubSeq(key, Len(ns) + 2, Len(key)) = name
    BY <1>0, <1>1 DEF Name
<1>. QED  BY <1>2, <1>3 DEF Behead, key

\* Two objects of one cluster never share a provider object: Prepend keeps names apart.
THEOREM PrependIsInjective ==
    ASSUME Dash \in Char, NEW a \in Name, NEW b \in Name, NEW ns \in Name,
           Prepend(a, ns) = Prepend(b, ns)
    PROVE  a = b
  BY BeheadUndoesPrepend

\* The controllers of a cluster leave the objects of another one alone as long as neither
\* provider namespace continues the other after a dash (enqueueProvider of the spec and of
\* the status controller looks at the name alone): of the namespaces "a" and "a-b", a takes
\* a-b's objects for its own.
THEOREM KeysAreSeparate ==
    ASSUME Dash \in Char, NEW name \in Name, NEW ns \in Name, NEW other \in Name,
           ns # other,
           ~HasPrefix(other, ns \o <<Dash>>), ~HasPrefix(ns, other \o <<Dash>>)
    PROVE  ~IsOwnKey(Prepend(name, other), ns)
<1> DEFINE key == Prepend(name, other)
<1>1. SUFFICES ASSUME HasPrefix(key, ns \o <<Dash>>) PROVE FALSE
    BY DEF IsOwnKey, Behead
<1>2. /\ \A j \in 1..Len(other) : key[j] = other[j] /\ (other \o <<Dash>>)[j] = other[j]
      /\ key[Len(other) + 1] = Dash /\ (other \o <<Dash>>)[Len(other) + 1] = Dash
      /\ Len(other \o <<Dash>>) = Len(other) + 1
    BY PrependFacts
<1>3. /\ \A j \in 1..Len(ns) : key[j] = ns[j] /\ (ns \o <<Dash>>)[j] = ns[j]
      /\ key[Len(ns) + 1] = Dash /\ (ns \o <<Dash>>)[Len(ns) + 1] = Dash
      /\ Len(ns \o <<Dash>>) = Len(ns) + 1
  <2>1. /\ \A j \in 1..Len(ns) : (ns \o <<Dash>>)[j] = ns[j]
        /\ (ns \o <<Dash>>)[Len(ns) + 1] = Dash
        /\ Len(ns \o <<Dash>>) = Len(ns) + 1
    BY PrependFacts
  <2>2. Len(ns) \in Nat
    BY DEF Name
  <2> HIDE DEF key
  <2>. QED  BY <1>1, <2>1, <2>2 DEF HasPrefix
<1>4. Len(ns) \in Nat /\ Len(other) \in Nat
    BY DEF Name
<1> HIDE DEF key
<1>5. CASE Len(ns) < Len(other)
    BY <1>2, <1>3, <1>4, <1>5 DEF HasPrefix
<1>6. CASE Len(other) < Len(ns)
    BY <1>2, <1>3, <1>4, <1>6 DEF HasPrefix
<1>7. CASE Len(ns) = Len(other)
    BY <1>2, <1>3, <1>7 DEF Name
<1>. QED  BY <1>4, <1>5, <1>6, <1>7

\* A copy that goes to the provider and back is the object it was: neither the annotation
\* nor the owner reference nor the prefix stays behind.
THEOREM RoundTrip ==
    ASSUME Dash \in Char, None \notin Name,
           NEW obj \in Unstructured, NEW ns \in Name, NEW uid \in UIDs,
           obj.clusterNs = None, Referring(obj.owners, ns) = {}
    PROVE  TranslateFromUpstream(TranslateFromDownstream(obj, ns, uid)) = obj
<1> DEFINE ref == Reference(ns, uid)
           up == TranslateFromDownstream(obj, ns, uid)
           n == Len(obj.owners)
<1>1. up = [name |-> Prepend(obj.name, ns), clusterNs |-> ns, owners |-> Append(obj.owners, ref)]
    BY DEF TranslateFromDownstream, SwitchToUpstreamName, InjectClusterNs, Unstructured
<1>2. n \in Nat /\ obj.owners \in Seq(Owner) /\ ref \in Owner
  <2>1. obj.owners \in Seq(Owner)
    BY DEF Unstructured
  <2>2. ref \in Owner
    BY DEF Reference, Owner
  <2>. QED  BY <2>1, <2>2
<1>3. Referring(up.owners, ns) = {n + 1}
    BY <1>1, <1>2 DEF Referring, RefersTo, Reference
<1>4. findOwnerReferenceToClusterNs(up.owners, ns) = n + 1
    BY <1>2, <1>3 DEF findOwnerReferenceToClusterNs
<1>5. Len(up.owners) = n + 1
    BY <1>1, <1>2
<1>6. SubSeq([up.owners EXCEPT ![n + 1] = up.owners[n + 1]], 1, (n + 1) - 1) = obj.owners
  <2> DEFINE owners == Append(obj.owners, ref)
  <2>0. owners \in Seq(Owner) /\ up.owners = owners
    BY <1>1, <1>2
  <2>1. [up.owners EXCEPT ![n + 1] = up.owners[n + 1]] = owners
    <3> HIDE DEF owners
    <3>. QED  BY <2>0
  <2>2. SubSeq(Append(obj.owners, ref), 1, n) = obj.owners
    BY <1>2
  <2>. QED  BY <1>2, <2>1, <2>2
<1>7. WithoutReference(up.owners, ns) = obj.owners
  <2> HIDE DEF up, n
  <2>. QED  BY <1>3, <1>4, <1>5, <1>6 DEF WithoutReference
<1>8. ClearClusterNs(up, ns)
         = [name |-> Prepend(obj.name, ns), clusterNs |-> None, owners |-> obj.owners]
    BY <1>1, <1>7 DEF ClearClusterNs
<1>9. Behead(Prepend(obj.name, ns), ns) = obj.name
    BY BeheadUndoesPrepend DEF Unstructured
<1>10. up.clusterNs = ns /\ ns # None
    BY <1>1
<1> HIDE DEF up
<1>11. TranslateFromUpstream(up) = [name |-> obj.name, clusterNs |-> None, owners |-> obj.owners]
    BY <1>8, <1>9, <1>10 DEF TranslateFromUpstream, SwitchToDownstreamName, ExtractClusterNs
<1>12. obj = [name |-> obj.name, clusterNs |-> obj.clusterNs, owners |-> obj.owners]
    BY DEF Unstructured
<1>. QED  BY <1>11, <1>12 DEF up
=============================================================================

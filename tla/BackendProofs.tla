---------------------------- MODULE BackendProofs ----------------------------
(***************************************************************************)
(* Proofs about the backend's controllers: that ExportRequests implements  *)
(* ExportService, for all requests and CRDs; that ServiceNamespaces        *)
(* forgets no namespace; and, in the last part, that in Heartbeat the      *)
(* backend and the konnector keep each other's verdicts.                   *)
(***************************************************************************)
EXTENDS ExportRequests, ServiceNamespaces, Heartbeat, TLAPS

-----------------------------------------------------------------------------
(* ExportRequests: the inductive invariant.                                *)

\* A copy in a cache is the stored object unless an event is still to come.
CachesAreCurrent ==
    /\ \A r \in Requests \ staleRequests : requestCache[r] = request[r]
    /\ ~staleExport => exportCache = export

\* A worker between two calls has what the next one needs.
WorkersArePrepared ==
    /\ requestWork.step = "idle" <=> requestWork.key = None
    /\ requestWork.step = "create" => requestWork.spec \in ExportSpec(Revs)
    /\ exportWork.step = "patch" => exportWork.new \in Export

\* An answer that will meet no conflict is for a request that still waits for one, and good
\* news are for a request that has its export.
AnswersAreAwaited ==
    /\ requestWork.current /\ (requestWork.step = "create" \/ requestWork.status # None) =>
          requestWork.key \in Requests /\ Pending(requestWork.key)
    /\ requestWork.current /\ requestWork.status # None /\ requestWork.status.phase = "Succeeded" =>
          requestWork.key \in granted

\* A patch that will meet no conflict is for an export that exists.
PatchesFindExport == exportWork.step = "patch" /\ exportWork.current => export # None

GrantedExist == \A r \in granted : request[r] # None

Inv ==
    /\ TypeOK
    /\ CachesAreCurrent
    /\ WorkersArePrepared
    /\ AnswersAreAwaited
    /\ PatchesFindExport
    /\ GrantedExist

-----------------------------------------------------------------------------
(* Facts about schemas and the service.                                    *)

LEMMA SchemaType ==
    ASSUME NEW c \in CRDs
    PROVE  CRDToServiceExport(c) \in ExportSpec(Revs)
<1>1. c \in CRDSpec(Revs) /\ c.rev \in Revs
    BY ExportRequestsAssumption DEF Revs
<1>2. c.served \in SUBSET Names /\ c.storage \in Names /\ c.webhook \in BOOLEAN
    BY <1>1 DEF CRDSpec
<1> QED
    BY <1>1, <1>2 DEF CRDToServiceExport, ExportSpec

LEMMA ExportType ==
    ASSUME NEW spec \in ExportSpec(Revs), NEW inSync \in BOOLEAN
    PROVE  [spec |-> spec, inSync |-> inSync, hash |-> APIServiceExportCRDSpecHash(spec)] \in Export
  BY DEF Export

\* The phases that the service shows.
phase == [r \in Requests |-> IF request[r] = None THEN "none" ELSE request[r].phase]

LEMMA ServiceStutters ==
    ASSUME phase' = phase, granted' = granted, requestWork'.key = requestWork.key,
           export' # None <=> export # None
    PROVE  [Service!Next]_(Service!vars)
  BY DEF phase, Service!vars

LEMMA ServiceLeaves ==
    ASSUME phase' = phase, granted' = granted, requestWork'.key = None,
           export' # None <=> export # None
    PROVE  [Service!Next]_(Service!vars)
<1>1. Service!Leave
    BY DEF phase, Service!Leave
<1> QED
    BY <1>1 DEF Service!Next

LEMMA ServiceWithdraws ==
    ASSUME phase' = phase, granted' = granted, requestWork'.key = requestWork.key, export' = None
    PROVE  [Service!Next]_(Service!vars)
<1>1. Service!Withdraw
    BY DEF phase, Service!Withdraw
<1> QED
    BY <1>1 DEF Service!Next

LEMMA ServiceSubmits ==
    ASSUME NEW r \in Requests, phase[r] = "none", phase' = [phase EXCEPT ![r] = "Pending"],
           granted' = granted, requestWork'.key = requestWork.key, export' # None <=> export # None
    PROVE  [Service!Next]_(Service!vars)
<1>1. Service!Submit(r)
    BY DEF phase, Service!Submit
<1> QED
    BY <1>1 DEF Service!Next

LEMMA ServiceRemoves ==
    ASSUME NEW r \in Requests, phase[r] # "none", phase' = [phase EXCEPT ![r] = "none"],
           granted' = granted \ {r}, requestWork'.key = requestWork.key,
           export' # None <=> export # None
    PROVE  [Service!Next]_(Service!vars)
<1>1. Service!Remove(r)
    BY DEF phase, Service!Remove
<1> QED
    BY <1>1 DEF Service!Next

LEMMA ServiceTakes ==
    ASSUME NEW r \in Requests, phase' = phase, requestWork.key = None, requestWork'.key = r,
           granted' \in {granted, granted \cup {r}}, export' # None <=> export # None
    PROVE  [Service!Next]_(Service!vars)
<1>1. Service!Take(r)
    BY DEF phase, Service!Take
<1> QED
    BY <1>1 DEF Service!Next

LEMMA ServiceMakes ==
    ASSUME phase' = phase, requestWork.key # None, requestWork'.key = requestWork.key,
           granted' \in {granted, granted \cup {requestWork.key}}, export' # None
    PROVE  [Service!Next]_(Service!vars)
<1>1. Service!Make
    BY DEF phase, Service!Make
<1> QED
    BY <1>1 DEF Service!Next

LEMMA ServiceAnswers ==
    ASSUME NEW r \in Requests, NEW answer \in {"Succeeded", "Failed"},
           phase[r] = "Pending", phase' = [phase EXCEPT ![r] = answer],
           answer = "Succeeded" => r \in granted,
           granted' = granted, requestWork'.key = None, export' # None <=> export # None
    PROVE  [Service!Next]_(Service!vars)
<1>1. Service!Answer(r, answer)
    BY DEF phase, Service!Answer
<1> QED
    BY <1>1 DEF Service!Next

-----------------------------------------------------------------------------
(* Users, the clock and informers.                                         *)

USE DEF provider, caches, RequestWork, ExportWork, Answer

LEMMA Apart ==
    /\ None \notin Requests /\ None \notin CRDs /\ None \notin Request /\ None \notin Export
    /\ MaxOps \in Nat
    /\ NewRequest \in Request /\ NewRequest.phase = "Pending"
  BY ExportRequestsAssumption DEF NewRequest, Request, Phases

\* The variables of the export, and of the requests.
ExportPart == <<crd, crdCache, template, export, exportCache, staleExport, exportQueue, exportWork>>
RequestPart == <<request, requestCache, staleRequests, requestQueue, requestWork, granted>>

\* The invariant in two halves, which share no variable but crdCache.
RequestInv ==
    /\ crdCache \in CRDs \cup {None}
    /\ request \in [Requests -> Request \cup {None}]
    /\ requestCache \in [Requests -> Request \cup {None}]
    /\ staleRequests \subseteq Requests
    /\ requestQueue \subseteq Requests
    /\ requestWork \in RequestWork
    /\ granted \subseteq Requests
    /\ \A r \in Requests \ staleRequests : requestCache[r] = request[r]
    /\ requestWork.step = "idle" <=> requestWork.key = None
    /\ requestWork.step = "create" => requestWork.spec \in ExportSpec(Revs)
    /\ AnswersAreAwaited
    /\ GrantedExist

ExportInv ==
    /\ crd \in CRDs \cup {None}
    /\ crdCache \in CRDs \cup {None}
    /\ template \in BOOLEAN
    /\ export \in Export \cup {None}
    /\ exportCache \in Export \cup {None}
    /\ staleExport \in BOOLEAN
    /\ exportQueue \in BOOLEAN
    /\ exportWork \in ExportWork
    /\ ~staleExport => exportCache = export
    /\ exportWork.step = "patch" => exportWork.new \in Export
    /\ PatchesFindExport

LEMMA IdleFacts ==
    /\ RequestIdle \in RequestWork
    /\ RequestIdle.step = "idle" /\ RequestIdle.key = None /\ ~RequestIdle.current
    /\ ExportIdle \in ExportWork
    /\ ExportIdle.step = "idle"
  BY DEF RequestIdle, ExportIdle, RequestSteps, ExportSteps

LEMMA Halves == Inv <=> RequestInv /\ ExportInv /\ ops \in 0..MaxOps
  BY DEF Inv, TypeOK, CachesAreCurrent, WorkersArePrepared, RequestInv, ExportInv

LEMMA Halved ==
    ASSUME RequestInv', ExportInv', ops' \in 0..MaxOps
    PROVE  Inv'
  BY DEF Inv, TypeOK, CachesAreCurrent, WorkersArePrepared, RequestInv, ExportInv

LEMMA RequestInvKept ==
    ASSUME RequestInv, UNCHANGED <<crdCache, RequestPart>>
    PROVE  RequestInv'
  BY DEF RequestInv, RequestPart, AnswersAreAwaited, GrantedExist, Pending

LEMMA ExportInvKept ==
    ASSUME ExportInv, UNCHANGED ExportPart
    PROVE  ExportInv'
  BY DEF ExportInv, ExportPart, PatchesFindExport

\* A step that writes request r outdates the copies of it.
LEMMA StoreRequestKeeps ==
    ASSUME RequestInv, NEW r \in Requests, NEW new \in Request \cup {None},
           StoreRequest(r, new), RequestOutdated(r),
           new = None => r \notin granted',
           granted' \subseteq granted, granted \subseteq granted' \cup {r},
           UNCHANGED <<crdCache, requestCache, requestQueue>>
    PROVE  RequestInv'
<1> USE DEF RequestInv, StoreRequest, RequestOutdated
<1>1. /\ request' \in [Requests -> Request \cup {None}]
      /\ staleRequests' \subseteq Requests /\ granted' \subseteq Requests
      /\ \A q \in Requests \ staleRequests' : requestCache'[q] = request'[q]
    OBVIOUS
<1>2. /\ requestWork' \in RequestWork
      /\ requestWork'.step = requestWork.step /\ requestWork'.key = requestWork.key
      /\ requestWork'.spec = requestWork.spec /\ requestWork'.status = requestWork.status
      /\ requestWork'.current => requestWork.current /\ requestWork.key # r
    OBVIOUS
<1>3. AnswersAreAwaited'
    BY <1>1, <1>2 DEF AnswersAreAwaited, Pending
<1>4. GrantedExist'
    BY <1>1, <1>2, Apart DEF GrantedExist
<1> QED
    BY <1>1, <1>2, <1>3, <1>4

\* A request that is written has a new phase, and so has the service.
LEMMA PhaseStored ==
    ASSUME RequestInv, NEW r \in Requests, NEW new \in Request \cup {None}, StoreRequest(r, new)
    PROVE  phase' = [phase EXCEPT ![r] = IF new = None THEN "none" ELSE new.phase]
  BY DEF RequestInv, StoreRequest, phase

LEMMA ClientSubmitStep ==
    ASSUME Inv, NEW r \in Requests, ClientSubmit(r)
    PROVE  Inv' /\ [Service!Next]_(Service!vars)
<1>1. RequestInv /\ ExportInv /\ ops \in 0..MaxOps
    BY Halves
<1>2. /\ ops < MaxOps /\ ops' = ops + 1 /\ request[r] = None
      /\ StoreRequest(r, NewRequest) /\ RequestOutdated(r)
      /\ granted' = granted
      /\ UNCHANGED <<crdCache, requestCache, requestQueue, ExportPart>>
    BY DEF ClientSubmit, Intervene, ExportPart
<1>3. RequestInv'
    BY <1>1, <1>2, StoreRequestKeeps, Apart
<1>4. ExportInv'
    BY <1>1, <1>2, ExportInvKept
<1>5. phase[r] = "none" /\ phase' = [phase EXCEPT ![r] = "Pending"]
    BY <1>1, <1>2, PhaseStored, Apart DEF phase
<1>6. requestWork'.key = requestWork.key
    BY <1>1, <1>2 DEF RequestOutdated, RequestInv
<1>7. ops' \in 0..MaxOps
    BY <1>1, <1>2, Apart
<1>8. [Service!Next]_(Service!vars)
    BY <1>2, <1>5, <1>6, ServiceSubmits DEF ExportPart
<1> QED
    BY <1>3, <1>4, <1>7, <1>8, Halved

LEMMA ClientRemoveStep ==
    ASSUME Inv, NEW r \in Requests, ClientRemove(r)
    PROVE  Inv' /\ [Service!Next]_(Service!vars)
<1>1. RequestInv /\ ExportInv /\ ops \in 0..MaxOps
    BY Halves
<1>2. /\ ops < MaxOps /\ ops' = ops + 1 /\ request[r] # None
      /\ StoreRequest(r, None) /\ RequestOutdated(r)
      /\ granted' = granted \ {r}
      /\ UNCHANGED <<crdCache, requestCache, requestQueue, ExportPart>>
    BY DEF ClientRemove, Intervene, ExportPart
<1>3. RequestInv'
    BY <1>1, <1>2, StoreRequestKeeps
<1>4. ExportInv'
    BY <1>1, <1>2, ExportInvKept
<1>5. phase[r] # "none" /\ phase' = [phase EXCEPT ![r] = "none"]
  <2>1. request[r].phase \in Phases
    BY <1>1, <1>2 DEF RequestInv, Request
  <2> QED
    BY <1>1, <1>2, <2>1, PhaseStored DEF phase, Phases
<1>6. requestWork'.key = requestWork.key
    BY <1>1, <1>2 DEF RequestOutdated, RequestInv
<1>7. ops' \in 0..MaxOps
    BY <1>1, <1>2, Apart
<1>8. [Service!Next]_(Service!vars)
    BY <1>2, <1>5, <1>6, ServiceRemoves DEF ExportPart
<1> QED
    BY <1>3, <1>4, <1>7, <1>8, Halved

LEMMA ProviderStep ==
    ASSUME Inv, ProviderSetTemplate \/ \E new \in CRDs \cup {None} : ProviderSetCRD(new)
    PROVE  Inv' /\ [Service!Next]_(Service!vars)
<1>1. RequestInv /\ ExportInv /\ ops \in 0..MaxOps
    BY Halves
<1>2. /\ ops < MaxOps /\ ops' = ops + 1
      /\ UNCHANGED <<crdCache, RequestPart, export, exportCache, staleExport, exportQueue, exportWork>>
    BY DEF ProviderSetTemplate, ProviderSetCRD, Intervene, RequestPart
<1>3. crd' \in CRDs \cup {None} /\ template' \in BOOLEAN
    BY <1>1 DEF ProviderSetTemplate, ProviderSetCRD, ExportInv
<1>4. RequestInv'
    BY <1>1, <1>2, RequestInvKept
<1>5. ExportInv'
    BY <1>1, <1>2, <1>3 DEF ExportInv, PatchesFindExport
<1>6. ops' \in 0..MaxOps
    BY <1>1, <1>2, Apart
<1>7. [Service!Next]_(Service!vars)
    BY <1>2, ServiceStutters DEF RequestPart, phase
<1> QED
    BY <1>4, <1>5, <1>6, <1>7, Halved

LEMMA ClientDeleteExportStep ==
    ASSUME Inv, ClientDeleteExport
    PROVE  Inv' /\ [Service!Next]_(Service!vars)
<1>1. RequestInv /\ ExportInv /\ ops \in 0..MaxOps
    BY Halves
<1>2. /\ ops < MaxOps /\ ops' = ops + 1
      /\ export' = None /\ staleExport' = TRUE
      /\ exportWork' = [exportWork EXCEPT !.current = FALSE]
      /\ UNCHANGED <<crd, crdCache, template, RequestPart, exportCache, exportQueue>>
    BY DEF ClientDeleteExport, Intervene, StoreExport, ExportOutdated, RequestPart
<1>3. RequestInv'
    BY <1>1, <1>2, RequestInvKept
<1>4. ExportInv'
    BY <1>1, <1>2 DEF ExportInv, PatchesFindExport
<1>5. ops' \in 0..MaxOps
    BY <1>1, <1>2, Apart
<1>6. [Service!Next]_(Service!vars)
    BY <1>2, ServiceWithdraws DEF RequestPart, phase
<1> QED
    BY <1>3, <1>4, <1>5, <1>6, Halved

LEMMA TickStep ==
    ASSUME Inv, NEW r \in Requests, Tick(r)
    PROVE  Inv' /\ [Service!Next]_(Service!vars)
<1> DEFINE older(x) == IF x = None \/ x.age = 2 THEN x ELSE [x EXCEPT !.age = @ + 1]
<1>1. RequestInv /\ ExportInv /\ ops \in 0..MaxOps
    BY Halves
<1>2. /\ request' = [request EXCEPT ![r] = older(request[r])]
      /\ requestCache' = [requestCache EXCEPT ![r] = older(requestCache[r])]
      /\ UNCHANGED <<ExportPart, staleRequests, requestQueue, requestWork, granted, ops>>
    BY DEF Tick, ExportPart
<1>3. ASSUME NEW x \in Request \cup {None}
      PROVE  /\ older(x) \in Request \cup {None}
             /\ older(x) = None <=> x = None
             /\ x # None => older(x).phase = x.phase
  <2>1. CASE x = None \/ x.age = 2
    BY <2>1
  <2>2. CASE ~(x = None \/ x.age = 2)
    <3>1. x \in Request /\ x.age \in 0..1
        BY <2>2 DEF Request
    <3>2. older(x) \in Request /\ older(x).phase = x.phase
        BY <2>2, <3>1 DEF Request
    <3> QED
        BY <2>2, <3>2, Apart
  <2> QED
    BY <2>1, <2>2
<1>4. request[r] \in Request \cup {None} /\ requestCache[r] \in Request \cup {None}
    BY <1>1 DEF RequestInv
<1> HIDE DEF older
<1>5. RequestInv'
  <2>1. \A q \in Requests : /\ request'[q] = None <=> request[q] = None
                            /\ request[q] # None => request'[q].phase = request[q].phase
    BY <1>1, <1>2, <1>3, <1>4 DEF RequestInv
  <2>2. /\ request' \in [Requests -> Request \cup {None}]
        /\ requestCache' \in [Requests -> Request \cup {None}]
        /\ \A q \in Requests \ staleRequests' : requestCache'[q] = request'[q]
    BY <1>1, <1>2, <1>3, <1>4 DEF RequestInv
  <2>3. AnswersAreAwaited' /\ GrantedExist'
    BY <1>1, <1>2, <2>1 DEF RequestInv, AnswersAreAwaited, GrantedExist, Pending
  <2> QED
    BY <1>1, <1>2, <2>2, <2>3 DEF RequestInv, ExportPart
<1>6. ExportInv'
    BY <1>1, <1>2, ExportInvKept
<1>7. phase' = phase
  <2>1. \A q \in Requests : /\ request'[q] = None <=> request[q] = None
                            /\ request[q] # None => request'[q].phase = request[q].phase
    BY <1>1, <1>2, <1>3, <1>4 DEF RequestInv
  <2> QED
    BY <2>1 DEF phase
<1>8. [Service!Next]_(Service!vars)
    BY <1>2, <1>7, ServiceStutters DEF ExportPart
<1> QED
    BY <1>1, <1>2, <1>5, <1>6, <1>8, Halved

LEMMA DeliverRequestStep ==
    ASSUME Inv, NEW r \in Requests, DeliverRequest(r)
    PROVE  Inv' /\ [Service!Next]_(Service!vars)
<1>1. RequestInv /\ ExportInv /\ ops \in 0..MaxOps
    BY Halves
<1>2. /\ requestCache' = [requestCache EXCEPT ![r] = request[r]]
      /\ staleRequests' = staleRequests \ {r}
      /\ requestQueue' = requestQueue \cup {r}
      /\ UNCHANGED <<ExportPart, request, requestWork, granted, ops>>
    BY DEF DeliverRequest, ExportPart
<1>3. RequestInv'
  <2>1. AnswersAreAwaited' /\ GrantedExist'
    BY <1>1, <1>2 DEF RequestInv, AnswersAreAwaited, GrantedExist, Pending
  <2> QED
    BY <1>1, <1>2, <2>1 DEF RequestInv, ExportPart
<1>4. ExportInv'
    BY <1>1, <1>2, ExportInvKept
<1>5. [Service!Next]_(Service!vars)
    BY <1>2, ServiceStutters DEF ExportPart, phase
<1> QED
    BY <1>1, <1>2, <1>3, <1>4, <1>5, Halved

LEMMA ReplayStep ==
    ASSUME Inv, DeliverExport \/ DeliverCRD \/ Resync
    PROVE  Inv' /\ [Service!Next]_(Service!vars)
<1>1. RequestInv /\ ExportInv /\ ops \in 0..MaxOps
    BY Halves
<1>2. /\ requestQueue' = requestQueue \cup CachedRequests
      /\ UNCHANGED <<crd, template, export, exportWork, request, requestCache, staleRequests,
                     requestWork, granted, ops>>
    BY DEF DeliverExport, DeliverCRD, Resync
<1>3. crdCache' \in CRDs \cup {None}
    BY <1>1 DEF DeliverExport, DeliverCRD, Resync, ExportInv
<1>4. /\ exportCache' \in Export \cup {None} /\ staleExport' \in BOOLEAN
      /\ ~staleExport' => exportCache' = export
    BY <1>1 DEF DeliverExport, DeliverCRD, Resync, ExportInv
<1>5. exportQueue' \in BOOLEAN
    BY <1>1 DEF DeliverExport, DeliverCRD, Resync, ExportInv
<1>6. RequestInv'
  <2>1. AnswersAreAwaited' /\ GrantedExist'
    BY <1>1, <1>2 DEF RequestInv, AnswersAreAwaited, GrantedExist, Pending
  <2> QED
    BY <1>1, <1>2, <1>3, <2>1 DEF RequestInv, CachedRequests
<1>7. ExportInv'
    BY <1>1, <1>2, <1>3, <1>4, <1>5 DEF ExportInv, PatchesFindExport
<1>8. [Service!Next]_(Service!vars)
    BY <1>2, ServiceStutters DEF phase
<1> QED
    BY <1>1, <1>2, <1>6, <1>7, <1>8, Halved

LEMMA RestartStep ==
    ASSUME Inv, Restart
    PROVE  Inv' /\ [Service!Next]_(Service!vars)
<1>1. RequestInv /\ ExportInv /\ ops \in 0..MaxOps
    BY Halves
<1>2. /\ ops < MaxOps /\ ops' = ops + 1
      /\ crdCache' = crd /\ requestCache' = request /\ exportCache' = export
      /\ staleRequests' = {} /\ staleExport' = FALSE
      /\ requestQueue' = {r \in Requests : request[r] # None}
      /\ exportQueue' = (export # None)
      /\ requestWork' = RequestIdle /\ exportWork' = ExportIdle
      /\ UNCHANGED <<crd, template, request, export, granted>>
    BY DEF Restart, Intervene
<1>3. RequestIdle.key = None
    BY IdleFacts
<1>4. RequestInv'
  <2>1. AnswersAreAwaited' /\ GrantedExist'
    BY <1>1, <1>2, IdleFacts DEF RequestInv, AnswersAreAwaited, GrantedExist
  <2> QED
    BY <1>1, <1>2, <2>1, IdleFacts DEF RequestInv, ExportInv
<1>5. exportQueue' \in BOOLEAN
    BY <1>2
<1>6. ExportInv'
    BY <1>1, <1>2, <1>5, IdleFacts DEF ExportInv, PatchesFindExport
<1>7. ops' \in 0..MaxOps
    BY <1>1, <1>2, Apart
<1>8. [Service!Next]_(Service!vars)
    BY <1>2, <1>3, ServiceLeaves DEF phase
<1> QED
    BY <1>4, <1>6, <1>7, <1>8, Halved

-----------------------------------------------------------------------------
(* The request controller.                                                 *)

\* What ensureExports makes of request r: a worker that holds the copy, with an answer only
\* for a request that waits.
LEMMA EnsureExports ==
    ASSUME RequestInv, NEW r \in Requests, requestCache[r] # None, template \in BOOLEAN,
           request' = request, ensureExports(r, requestCache[r])
    PROVE  /\ requestWork' \in RequestWork
           /\ requestWork'.step # "idle" /\ requestWork'.key = r
           /\ requestWork'.step = "create" => requestWork'.spec \in ExportSpec(Revs)
           /\ requestWork'.current => r \notin staleRequests
           /\ requestWork'.step = "create" \/ requestWork'.status # None =>
                 requestCache[r].phase = "Pending"
           /\ granted' \in {granted, granted \cup {r}}
           /\ r \in granted' \ granted => request[r] # None
           /\ /\ requestWork'.status # None /\ requestWork'.status.phase = "Succeeded"
              /\ requestWork'.current /\ request[r] # None
              => r \in granted'
<1> DEFINE obj == requestCache[r]
           work(step, status, spec, err) ==
              [step |-> step, key |-> r, current |-> r \notin staleRequests,
               status |-> status, spec |-> spec, err |-> err]
           notFound == [phase |-> PhaseWithoutCRD(obj), ready |-> "false"]
           changed(status) ==
              IF status = [phase |-> obj.phase, ready |-> obj.ready] THEN None ELSE status
<1>1. obj \in Request /\ crdCache \in CRDs \cup {None} /\ (r \notin staleRequests) \in BOOLEAN
    BY DEF RequestInv
<1>2. PhaseWithoutCRD(obj) \in {"Pending", "Failed"}
    BY DEF PhaseWithoutCRD
<1>3. Succeeded \in Answer
    BY DEF Succeeded, Phases
<1>4. CASE /\ obj.phase = "Pending" /\ crdCache = None
           /\ requestWork' = work("commit", changed(notFound), None, FALSE)
           /\ granted' = granted
  <2>1. notFound \in Answer
    BY <1>2 DEF Phases
  <2>2. /\ changed(notFound) \in Answer \cup {None}
        /\ changed(notFound) # None => changed(notFound).phase # "Succeeded"
    BY <1>2, <2>1
  <2> HIDE DEF changed, notFound
  <2> QED
    BY <1>1, <1>4, <2>2 DEF RequestSteps
<1>5. CASE /\ obj.phase = "Pending" /\ crdCache # None /\ exportCache # None
           /\ requestWork' = work("commit", Succeeded, None, FALSE)
           /\ Grant(r)
  <2>1. requestWork' = work("commit", Succeeded, None, FALSE) /\ obj.phase = "Pending"
    BY <1>5
  <2>2. granted' = granted \cup (IF request[r] # None /\ requestWork'.current THEN {r} ELSE {})
    BY <1>5 DEF Grant
  <2> QED
    BY <1>1, <1>3, <2>1, <2>2 DEF RequestSteps
<1>6. CASE /\ requestWork' = work("commit", None, None, TRUE)
           /\ granted' = granted
    BY <1>1, <1>6 DEF RequestSteps
<1>7. CASE /\ obj.phase = "Pending" /\ crdCache # None
           /\ requestWork' = work("create", None, CRDToServiceExport(crdCache), FALSE)
           /\ granted' = granted
  <2>1. CRDToServiceExport(crdCache) \in ExportSpec(Revs)
    BY <1>1, <1>7, SchemaType
  <2> QED
    BY <1>1, <1>7, <2>1 DEF RequestSteps
<1>8. CASE /\ requestWork' = work(IF obj.age = 2 THEN "delete" ELSE "commit", None, None, FALSE)
           /\ granted' = granted
    BY <1>1, <1>8 DEF RequestSteps
<1> QED
    BY <1>4, <1>5, <1>6, <1>7, <1>8 DEF ensureExports

LEMMA ProcessRequestStep ==
    ASSUME Inv, NEW r \in Requests, ProcessRequest(r)
    PROVE  Inv' /\ [Service!Next]_(Service!vars)
<1>1. RequestInv /\ ExportInv /\ ops \in 0..MaxOps
    BY Halves
<1>2. /\ requestWork.step = "idle" /\ requestQueue' = requestQueue \ {r}
      /\ UNCHANGED <<ExportPart, request, requestCache, staleRequests, ops>>
    BY DEF ProcessRequest, ExportPart
<1>3. ExportInv'
    BY <1>1, <1>2, ExportInvKept
<1>4. requestWork.key = None
    BY <1>1, <1>2 DEF RequestInv
<1>5. phase' = phase
    BY <1>2 DEF phase
<1>6. CASE requestWork' = requestWork /\ granted' = granted
  <2>1. AnswersAreAwaited' /\ GrantedExist'
    BY <1>1, <1>2, <1>6 DEF RequestInv, AnswersAreAwaited, GrantedExist, Pending
  <2>2. RequestInv'
    BY <1>1, <1>2, <1>6, <2>1 DEF RequestInv, ExportPart
  <2>3. [Service!Next]_(Service!vars)
    BY <1>2, <1>5, <1>6, ServiceStutters DEF ExportPart
  <2> QED
    BY <1>1, <1>2, <1>3, <2>2, <2>3, Halved
<1>7. CASE requestCache[r] # None /\ ensureExports(r, requestCache[r])
  <2>1. request' = request /\ template \in BOOLEAN
    BY <1>1, <1>2 DEF ExportInv
  <2> HIDE DEF RequestInv
  <2>2. /\ requestWork' \in RequestWork
        /\ requestWork'.step # "idle" /\ requestWork'.key = r
        /\ requestWork'.step = "create" => requestWork'.spec \in ExportSpec(Revs)
        /\ requestWork'.current => r \notin staleRequests
        /\ requestWork'.step = "create" \/ requestWork'.status # None =>
              requestCache[r].phase = "Pending"
        /\ granted' \in {granted, granted \cup {r}}
        /\ r \in granted' \ granted => request[r] # None
        /\ /\ requestWork'.status # None /\ requestWork'.status.phase = "Succeeded"
           /\ requestWork'.current /\ request[r] # None
           => r \in granted'
    BY <1>1, <1>7, <2>1, EnsureExports
  <2>3. r \notin staleRequests => request[r] = requestCache[r]
    BY <1>1 DEF RequestInv
  <2>4. AnswersAreAwaited'
    BY <1>2, <1>7, <2>2, <2>3 DEF AnswersAreAwaited, Pending
  <2>5. GrantedExist'
    BY <1>1, <1>2, <2>2 DEF RequestInv, GrantedExist
  <2>6. granted' \subseteq Requests
    BY <1>1, <2>2 DEF RequestInv
  <2>7. r # None
    BY Apart
  <2>8. RequestInv'
    BY <1>1, <1>2, <2>2, <2>4, <2>5, <2>6, <2>7 DEF RequestInv, ExportPart
  <2>9. [Service!Next]_(Service!vars)
    BY <1>2, <1>4, <1>5, <2>2, ServiceTakes DEF ExportPart
  <2> QED
    BY <1>1, <1>2, <1>3, <2>8, <2>9, Halved
<1> QED
    BY <1>6, <1>7 DEF ProcessRequest

\* The export is made, or another one is in the way.
LEMMA CreateServiceExportStep ==
    ASSUME Inv, createServiceExport
    PROVE  Inv' /\ [Service!Next]_(Service!vars)
<1> DEFINE new == [spec |-> requestWork.spec, inSync |-> FALSE,
                   hash |-> APIServiceExportCRDSpecHash(requestWork.spec)]
<1>1. RequestInv /\ ExportInv /\ ops \in 0..MaxOps
    BY Halves
<1>2. /\ requestWork.step = "create"
      /\ UNCHANGED <<crd, template, crdCache, requestCache, exportCache, request, staleRequests,
                     requestQueue, exportQueue, ops>>
    BY DEF createServiceExport
<1>3. /\ requestWork \in RequestWork /\ requestWork.key \in Requests /\ requestWork.key # None
      /\ requestWork.current => Pending(requestWork.key)
    BY <1>1, <1>2 DEF RequestInv, AnswersAreAwaited
<1>4. phase' = phase
    BY <1>2 DEF phase
<1>5. CASE /\ export = None /\ StoreExport(new)
           /\ requestWork' = [requestWork EXCEPT !.step = "commit", !.status = Succeeded]
           /\ Grant(requestWork.key) /\ ExportOutdated
  <2>1. /\ requestWork' \in RequestWork
        /\ requestWork'.step = "commit" /\ requestWork'.key = requestWork.key
        /\ requestWork'.current = requestWork.current
    BY <1>3, <1>5 DEF RequestSteps, Succeeded, Phases
  <2>2. granted' = granted \cup (IF request[requestWork.key] # None /\ requestWork.current
                                   THEN {requestWork.key} ELSE {})
    BY <1>5, <2>1 DEF Grant
  <2>3. AnswersAreAwaited' /\ GrantedExist'
    BY <1>1, <1>2, <1>3, <2>1, <2>2 DEF RequestInv, AnswersAreAwaited, GrantedExist, Pending
  <2>4. RequestInv'
    BY <1>1, <1>2, <1>3, <2>1, <2>2, <2>3 DEF RequestInv
  <2>5. new \in Export
    BY <1>1, <1>2, ExportType DEF RequestInv
  <2>6. export' = new /\ export' \in Export
    BY <1>5, <2>5 DEF StoreExport
  <2>7. ExportInv'
    BY <1>1, <1>2, <1>5, <2>6 DEF ExportInv, StoreExport, ExportOutdated, PatchesFindExport
  <2>8. export' # None
    BY <2>6, Apart
  <2>9. [Service!Next]_(Service!vars)
    BY <1>3, <1>4, <2>1, <2>2, <2>8, ServiceMakes
  <2> QED
    BY <1>1, <1>2, <2>4, <2>7, <2>9, Halved
<1>6. CASE /\ export # None
           /\ requestWork' = [requestWork EXCEPT !.step = "commit", !.err = TRUE]
           /\ UNCHANGED <<export, staleExport, granted, exportWork>>
  <2>1. /\ requestWork' \in RequestWork
        /\ requestWork'.step = "commit" /\ requestWork'.key = requestWork.key
        /\ requestWork'.current = requestWork.current /\ requestWork'.status = requestWork.status
    BY <1>3, <1>6 DEF RequestSteps
  <2>2. AnswersAreAwaited' /\ GrantedExist'
    BY <1>1, <1>2, <1>3, <1>6, <2>1 DEF RequestInv, AnswersAreAwaited, GrantedExist, Pending
  <2>3. RequestInv'
    BY <1>1, <1>2, <1>3, <1>6, <2>1, <2>2 DEF RequestInv
  <2>4. ExportInv'
    BY <1>1, <1>2, <1>6, ExportInvKept DEF ExportPart
  <2>5. [Service!Next]_(Service!vars)
    BY <1>4, <1>6, <2>1, ServiceStutters
  <2> QED
    BY <1>1, <1>2, <2>3, <2>4, <2>5, Halved
<1> QED
    BY <1>5, <1>6 DEF createServiceExport

\* The request goes, or has gone already: then nothing is granted to it any more.
LEMMA DeleteRequestStep ==
    ASSUME Inv, deleteServiceExportRequest
    PROVE  Inv' /\ [Service!Next]_(Service!vars)
<1> DEFINE r == requestWork.key
<1>1. RequestInv /\ ExportInv /\ ops \in 0..MaxOps
    BY Halves
<1>2. /\ requestWork.step = "delete"
      /\ requestWork' = [requestWork EXCEPT !.step = "commit", !.current = FALSE,
                                            !.err = request[r] = None]
      /\ granted' = granted \ {r}
      /\ UNCHANGED <<ExportPart, requestCache, requestQueue, ops>>
    BY DEF deleteServiceExportRequest, ExportPart
<1>3. requestWork \in RequestWork /\ r \in Requests
    BY <1>1, <1>2 DEF RequestInv
<1>4. /\ requestWork' \in RequestWork
      /\ requestWork'.step = "commit" /\ requestWork'.key = r /\ ~requestWork'.current
  <2>1. (request[r] = None) \in BOOLEAN
    OBVIOUS
  <2> QED
    BY <1>2, <1>3, <2>1 DEF RequestSteps
<1>5. ExportInv'
    BY <1>1, <1>2, ExportInvKept
<1> HIDE DEF r
<1>6. CASE request[r] # None /\ StoreRequest(r, None)
  <2>1. /\ request' \in [Requests -> Request \cup {None}] /\ staleRequests' \subseteq Requests
        /\ \A q \in Requests \ staleRequests' : requestCache'[q] = request'[q]
        /\ \A q \in Requests \ {r} : request'[q] = request[q]
    BY <1>1, <1>2, <1>3, <1>6 DEF RequestInv, StoreRequest
  <2>2. AnswersAreAwaited' /\ GrantedExist'
    BY <1>1, <1>2, <1>4, <2>1 DEF RequestInv, AnswersAreAwaited, GrantedExist
  <2>3. RequestInv'
    BY <1>1, <1>2, <1>3, <1>4, <2>1, <2>2, Apart DEF RequestInv, ExportPart
  <2>4. phase[r] # "none" /\ phase' = [phase EXCEPT ![r] = "none"]
    <3>1. request[r].phase \in Phases
      BY <1>1, <1>3, <1>6 DEF RequestInv, Request
    <3> QED
      BY <1>1, <1>3, <1>6, <3>1, PhaseStored DEF phase, Phases
  <2>5. [Service!Next]_(Service!vars)
    BY <1>2, <1>3, <1>4, <2>4, ServiceRemoves DEF ExportPart, r
  <2> QED
    BY <1>1, <1>2, <1>5, <2>3, <2>5, Halved
<1>7. CASE request[r] = None /\ UNCHANGED <<request, staleRequests>>
  <2>1. granted' = granted
    BY <1>1, <1>2, <1>7 DEF RequestInv, GrantedExist
  <2>2. AnswersAreAwaited' /\ GrantedExist'
    BY <1>1, <1>4, <1>7, <2>1 DEF RequestInv, AnswersAreAwaited, GrantedExist
  <2>3. RequestInv'
    BY <1>1, <1>2, <1>3, <1>4, <1>7, <2>1, <2>2, Apart DEF RequestInv, ExportPart
  <2>4. [Service!Next]_(Service!vars)
    BY <1>2, <1>4, <1>7, <2>1, ServiceStutters DEF ExportPart, phase, r
  <2> QED
    BY <1>1, <1>2, <1>5, <2>3, <2>4, Halved
<1> QED
    BY <1>6, <1>7 DEF deleteServiceExportRequest, r

\* A reconcile that ends leaves an idle worker.
LEMMA FinishRequestKeeps ==
    ASSUME RequestInv, requestWork.key \in Requests, NEW failed \in BOOLEAN, FinishRequest(failed),
           request' \in [Requests -> Request \cup {None}], staleRequests' \subseteq Requests,
           \A q \in Requests \ staleRequests' : requestCache[q] = request'[q],
           \A q \in Requests : request[q] # None => request'[q] # None,
           UNCHANGED <<crdCache, requestCache, granted>>
    PROVE  RequestInv'
<1>1. requestWork' = RequestIdle /\ requestQueue' \subseteq Requests
    BY DEF FinishRequest, RequestInv
<1>2. AnswersAreAwaited' /\ GrantedExist'
    BY <1>1, IdleFacts DEF RequestInv, AnswersAreAwaited, GrantedExist
<1> QED
    BY <1>1, <1>2, IdleFacts DEF RequestInv

LEMMA CommitRequestStep ==
    ASSUME Inv, commitRequest
    PROVE  Inv' /\ [Service!Next]_(Service!vars)
<1> DEFINE r == requestWork.key
           changed == requestWork.status # None
           new == [phase |-> requestWork.status.phase, age |-> request[r].age,
                   ready |-> requestWork.status.ready]
<1>1. RequestInv /\ ExportInv /\ ops \in 0..MaxOps
    BY Halves
<1>2. /\ requestWork.step = "commit"
      /\ UNCHANGED <<ExportPart, requestCache, granted, ops>>
    BY DEF commitRequest, ExportPart
<1>3. requestWork \in RequestWork /\ r \in Requests
    BY <1>1, <1>2 DEF RequestInv
<1>4. ExportInv'
    BY <1>1, <1>2, ExportInvKept
<1>5. CASE changed /\ requestWork.current /\ StoreRequest(r, new) /\ FinishRequest(requestWork.err)
  <2>1. requestWork.status \in Answer /\ Pending(r)
    BY <1>1, <1>3, <1>5 DEF RequestInv, AnswersAreAwaited
  <2>2. new \in Request
    BY <1>1, <1>3, <2>1 DEF RequestInv, Request, Pending
  <2>3. new # None
    BY <2>2, Apart
  <2> HIDE DEF new, r
  <2>4. /\ request' \in [Requests -> Request \cup {None}] /\ staleRequests' \subseteq Requests
        /\ \A q \in Requests \ staleRequests' : requestCache[q] = request'[q]
        /\ \A q \in Requests : request[q] # None => request'[q] # None
    BY <1>1, <1>3, <1>5, <2>2, <2>3 DEF RequestInv, StoreRequest
  <2>5. requestWork.err \in BOOLEAN
    BY <1>3
  <2>6. UNCHANGED <<crdCache, requestCache, granted>> /\ FinishRequest(requestWork.err)
    BY <1>2, <1>5 DEF ExportPart
  <2>7. RequestInv'
    BY <1>1, <1>3, <2>4, <2>5, <2>6, FinishRequestKeeps DEF r
  <2>8. phase[r] = "Pending" /\ phase' = [phase EXCEPT ![r] = requestWork.status.phase]
    BY <1>1, <1>3, <1>5, <2>1, <2>2, <2>3, PhaseStored DEF phase, Pending, new
  <2>9. requestWork'.key = None
    BY <1>5, IdleFacts DEF FinishRequest
  <2>10. CASE requestWork.status.phase = "Pending"
    <3>1. phase' = phase
      BY <2>8, <2>10 DEF phase
    <3>2. [Service!Next]_(Service!vars)
      BY <1>2, <2>9, <3>1, ServiceLeaves DEF ExportPart
    <3> QED
      BY <1>1, <1>2, <1>4, <2>7, <3>2, Halved
  <2>11. CASE requestWork.status.phase # "Pending"
    <3>1. requestWork.status.phase \in {"Succeeded", "Failed"}
      BY <2>1, <2>11 DEF Phases
    <3>2. requestWork.status.phase = "Succeeded" => r \in granted
      BY <1>1, <1>5 DEF RequestInv, AnswersAreAwaited, r
    <3>3. export' # None <=> export # None
      BY <1>2 DEF ExportPart
    <3>4. [Service!Next]_(Service!vars)
      BY <1>2, <1>3, <2>8, <2>9, <3>1, <3>2, <3>3, ServiceAnswers
    <3> QED
      BY <1>1, <1>2, <1>4, <2>7, <3>4, Halved
  <2> QED
    BY <2>10, <2>11
<1>6. CASE FinishRequest(requestWork.err \/ changed) /\ UNCHANGED <<request, staleRequests>>
  <2>1. (requestWork.err \/ changed) \in BOOLEAN
    BY <1>3
  <2>2. RequestInv'
    BY <1>1, <1>2, <1>3, <1>6, <2>1, FinishRequestKeeps DEF RequestInv, ExportPart
  <2>3. requestWork'.key = None
    BY <1>6, IdleFacts DEF FinishRequest
  <2>4. [Service!Next]_(Service!vars)
    BY <1>2, <1>6, <2>3, ServiceLeaves DEF ExportPart, phase
  <2> QED
    BY <1>1, <1>2, <1>4, <2>2, <2>4, Halved
<1> QED
    BY <1>5, <1>6 DEF commitRequest

LEMMA RequestCallFailsStep ==
    ASSUME Inv, RequestCallFails
    PROVE  Inv' /\ [Service!Next]_(Service!vars)
<1>1. RequestInv /\ ExportInv /\ ops \in 0..MaxOps
    BY Halves
<1>2. /\ ops < MaxOps /\ ops' = ops + 1
      /\ requestWork.step # "idle" /\ FinishRequest(TRUE)
      /\ UNCHANGED <<ExportPart, request, staleRequests, requestCache, granted>>
    BY DEF RequestCallFails, Intervene, ExportPart
<1>3. requestWork.key \in Requests
    BY <1>1, <1>2 DEF RequestInv
<1>4. RequestInv'
    BY <1>1, <1>2, <1>3, FinishRequestKeeps DEF RequestInv, ExportPart
<1>5. ExportInv'
    BY <1>1, <1>2, ExportInvKept
<1>6. ops' \in 0..MaxOps
    BY <1>1, <1>2, Apart
<1>7. requestWork'.key = None
    BY <1>2, IdleFacts DEF FinishRequest
<1>8. [Service!Next]_(Service!vars)
    BY <1>2, <1>7, ServiceLeaves DEF ExportPart, phase
<1> QED
    BY <1>4, <1>5, <1>6, <1>8, Halved

-----------------------------------------------------------------------------
(* The export controller.                                                  *)

\* A step of the export controller that makes no call.
LEMMA ProcessExportStep ==
    ASSUME Inv, ProcessExport
    PROVE  Inv' /\ [Service!Next]_(Service!vars)
<1>1. RequestInv /\ ExportInv /\ ops \in 0..MaxOps
    BY Halves
<1>2. UNCHANGED <<crd, template, crdCache, exportCache, export, staleExport, RequestPart, ops>>
    BY DEF ProcessExport, RequestPart
<1>3. RequestInv'
    BY <1>1, <1>2, RequestInvKept
<1>4. exportQueue' \in BOOLEAN
    BY DEF ProcessExport, ensureSchema
<1>5. [Service!Next]_(Service!vars)
    BY <1>2, ServiceStutters DEF RequestPart, phase
<1>6. /\ exportWork' \in ExportWork
      /\ exportWork'.step = "patch" => exportWork'.new \in Export /\ exportCache # None
      /\ exportWork'.step = "patch" /\ exportWork'.current => ~staleExport
  <2> DEFINE expected == CRDToServiceExport(crdCache)
             hash == APIServiceExportCRDSpecHash(expected)
             work(step, new) == [step |-> step, current |-> ~staleExport, new |-> new]
  <2>1. CASE UNCHANGED exportWork
    <3>1. exportWork.step = "idle"
      BY DEF ProcessExport
    <3> QED
      BY <1>1, <2>1, <3>1 DEF ExportInv
  <2>2. CASE exportWork' = work("delete", None)
    BY <1>1, <2>2 DEF ExportInv, ExportSteps
  <2>3. CASE /\ crdCache # None /\ exportCache # None
             /\ exportWork' = work("patch", [exportCache EXCEPT !.spec = expected, !.hash = hash])
    <3>1. expected \in ExportSpec(Revs)
      BY <1>1, <2>3, SchemaType DEF ExportInv
    <3>2. [exportCache EXCEPT !.spec = expected, !.hash = hash] \in Export
      <4> HIDE DEF expected
      <4>1. exportCache \in Export
        BY <1>1, <2>3 DEF ExportInv
      <4> QED
        BY <3>1, <4>1 DEF Export
    <3> HIDE DEF expected, hash
    <3> QED
      BY <1>1, <2>3, <3>2 DEF ExportInv, ExportSteps
  <2>4. CASE exportWork' = ExportIdle
    BY <2>4, IdleFacts
  <2>5. CASE /\ exportCache # None
             /\ exportWork' = work("patch", [exportCache EXCEPT !.inSync = TRUE])
    <3>1. [exportCache EXCEPT !.inSync = TRUE] \in Export
      BY <1>1, <2>5 DEF ExportInv, Export
    <3> QED
      BY <1>1, <2>5, <3>1 DEF ExportInv, ExportSteps
  <2> QED
    BY <2>1, <2>2, <2>3, <2>4, <2>5 DEF ProcessExport, ensureSchema
<1>7. ExportInv'
    BY <1>1, <1>2, <1>4, <1>6 DEF ExportInv, PatchesFindExport
<1> QED
    BY <1>1, <1>2, <1>3, <1>5, <1>7, Halved

\* A call of the export controller, which ends its reconcile: the export stays, goes or, if
\* it exists, has a new content.
LEMMA ExportCallStep ==
    ASSUME Inv, deleteServiceExport \/ commitExport \/ ExportCallFails
    PROVE  Inv' /\ [Service!Next]_(Service!vars)
<1>1. RequestInv /\ ExportInv /\ ops \in 0..MaxOps
    BY Halves
<1>2. /\ exportWork' = ExportIdle
      /\ UNCHANGED <<crd, template, crdCache, exportCache, RequestPart>>
      /\ ops' = ops \/ (ops < MaxOps /\ ops' = ops + 1)
    BY DEF deleteServiceExport, commitExport, ExportCallFails, Intervene, RequestPart
<1>3. exportQueue' \in BOOLEAN
    BY <1>1 DEF deleteServiceExport, commitExport, ExportCallFails, ExportInv
<1>4. \/ UNCHANGED <<export, staleExport>>
      \/ export' = None /\ staleExport' = TRUE
      \/ export' \in Export /\ export # None /\ staleExport' = TRUE
    BY <1>1 DEF deleteServiceExport, commitExport, ExportCallFails, StoreExport, ExportInv,
                PatchesFindExport
<1>5. RequestInv'
    BY <1>1, <1>2, RequestInvKept
<1>6. ExportInv'
    BY <1>1, <1>2, <1>3, <1>4, IdleFacts DEF ExportInv, PatchesFindExport
<1>7. ops' \in 0..MaxOps
    BY <1>1, <1>2, Apart
<1>8. [Service!Next]_(Service!vars)
  <2>1. phase' = phase /\ granted' = granted /\ requestWork'.key = requestWork.key
    BY <1>2 DEF RequestPart, phase
  <2>2. CASE export' = None
    BY <2>1, <2>2, ServiceWithdraws
  <2>3. CASE export' # None
    <3>1. export # None
      BY <1>4, <2>3
    <3> QED
      BY <2>1, <2>3, <3>1, ServiceStutters
  <2> QED
    BY <2>2, <2>3
<1> QED
    BY <1>5, <1>6, <1>7, <1>8, Halved

-----------------------------------------------------------------------------
(* The theorems about ExportRequests.                                      *)

LEMMA InitInv == Init => Inv /\ Service!Init
<1> SUFFICES ASSUME Init PROVE Inv /\ Service!Init
    OBVIOUS
<1> USE DEF Init
<1>1. RequestInv
  <2>1. AnswersAreAwaited /\ GrantedExist
    BY IdleFacts DEF AnswersAreAwaited, GrantedExist
  <2>2. request \in [Requests -> Request \cup {None}]
    BY Apart
  <2> QED
    BY <2>1, <2>2, IdleFacts DEF RequestInv
<1>2. ExportInv
    BY IdleFacts DEF ExportInv, PatchesFindExport
<1>3. ops \in 0..MaxOps
    BY Apart
<1>4. Service!Init
  <2>1. phase \in [Requests -> {"none", "Pending"}]
    BY Apart DEF phase
  <2> QED
    BY <2>1, IdleFacts DEF Service!Init, phase
<1> QED
    BY <1>1, <1>2, <1>3, <1>4, Halves

LEMMA InvStep ==
    ASSUME Inv, [Next]_vars
    PROVE  Inv' /\ [Service!Next]_(Service!vars)
<1>1. CASE UNCHANGED vars
  <2>1. UNCHANGED <<ExportPart, RequestPart, crdCache, ops>>
    BY <1>1 DEF vars, ExportPart, RequestPart
  <2>2. RequestInv /\ ExportInv /\ ops \in 0..MaxOps
    BY Halves
  <2>3. Inv'
    BY <2>1, <2>2, RequestInvKept, ExportInvKept, Halved
  <2>4. [Service!Next]_(Service!vars)
    BY <2>1, ServiceStutters DEF ExportPart, RequestPart, phase
  <2> QED
    BY <2>3, <2>4
<1>2. CASE Users
    BY <1>2, ClientSubmitStep, ClientRemoveStep, ProviderStep, ClientDeleteExportStep DEF Users
<1>3. CASE \E r \in Requests : Tick(r) \/ DeliverRequest(r)
    BY <1>3, TickStep, DeliverRequestStep
<1>4. CASE DeliverExport \/ DeliverCRD \/ Resync
    BY <1>4, ReplayStep
<1>5. CASE Restart
    BY <1>5, RestartStep
<1>6. CASE RequestController
    BY <1>6, ProcessRequestStep, CreateServiceExportStep, DeleteRequestStep, CommitRequestStep
       DEF RequestController
<1>7. CASE ExportController \/ ExportCallFails
    BY <1>7, ProcessExportStep, ExportCallStep DEF ExportController
<1>8. CASE RequestCallFails
    BY <1>8, RequestCallFailsStep
<1> QED
    BY <1>1, <1>2, <1>3, <1>4, <1>5, <1>6, <1>7, <1>8 DEF Next

\* Objects, copies and workers are of their types whatever users, the clock and failing calls
\* do: in particular an export that is patched or made has a schema of some CRD.
THEOREM TypeCorrect == Spec => []TypeOK
<1>1. Inv => TypeOK
    BY DEF Inv
<1> QED
    BY <1>1, InitInv, InvStep, PTL DEF Spec

\* The two controllers implement the service that clients of requests rely on, for any number
\* of requests: a request is answered once, "Succeeded" is said only to a request for which
\* an export was found or made (and not to a later one of its name), and only a request
\* makes an export appear (serviceexportrequest_reconcile.go, serviceexport_reconcile.go).
THEOREM ExportServiceImplemented == Spec => ImplementsService
<1>1. Init => Inv /\ Service!Init
    BY InitInv
<1>2. Inv /\ [Next]_vars => Inv' /\ [Service!Next]_(Service!vars)
    BY InvStep
<1> QED
    BY <1>1, <1>2, PTL DEF Spec, ImplementsService, Service!Spec

-----------------------------------------------------------------------------
(* ServiceNamespaces, for any number of interventions.                     *)

USE DEF konnectorSide, backendSide, namespace, aside

LEMMA NamespacesInitType == NSInit => NSTypeOK
<1> SUFFICES ASSUME NSInit PROVE NSTypeOK
    OBVIOUS
<1> USE DEF NSInit, SNStates, NSStates, Steps, Rules
<1>1. access \in Access
  <2>1. (scope = "Cluster") \in BOOLEAN
    OBVIOUS
  <2> QED
    BY <2>1 DEF Access
<1>2. workB \in [step : Steps, old : SNStates] /\ (workB.old = "none" <=> workB.step = "idle")
    OBVIOUS
<1>3. nsOps \in 0..MaxNSOps
    BY ServiceNamespacesAssumption
<1>4. /\ sn \in SNStates /\ snCache \in SNStates /\ snBackend \in SNStates
      /\ snFresh \subseteq {"konnector", "backend", "work"}
      /\ pns \in NSStates /\ pnsCache \in NSStates /\ scope \in {"Cluster", "Namespaced"}
    OBVIOUS
<1>5. /\ cns \in BOOLEAN /\ cnsCache \in BOOLEAN /\ queueD \in BOOLEAN /\ queueB \in BOOLEAN
      /\ pnsFresh \in BOOLEAN /\ rb \in BOOLEAN /\ rbCache \in BOOLEAN /\ lost \in BOOLEAN
    OBVIOUS
<1> QED
    BY <1>1, <1>2, <1>3, <1>4, <1>5, Zenon DEF NSTypeOK

LEMMA NamespacesTypeStep ==
    ASSUME NSTypeOK, [NSNext]_nsVars
    PROVE  NSTypeOK'
<1> USE ServiceNamespacesAssumption DEF NSTypeOK, SNStates, NSStates, Steps, Access, Rules
<1>1. CASE ConsumerNamespaceChanges
    BY <1>1 DEF ConsumerNamespaceChanges, NSIntervene
<1>2. CASE createServiceNamespace
    BY <1>2 DEF createServiceNamespace, WriteSN
<1>3. CASE DeliverConsumerNamespace
    BY <1>3 DEF DeliverConsumerNamespace
<1>4. CASE DeliverServiceNamespace
    BY <1>4 DEF DeliverServiceNamespace
<1>5. CASE DeliverServiceNamespaceToBackend
    BY <1>5 DEF DeliverServiceNamespaceToBackend
<1>6. CASE DeliverProviderNamespace
    BY <1>6 DEF DeliverProviderNamespace
<1>7. CASE DeliverRoleBinding
    BY <1>7 DEF DeliverRoleBinding
<1>8. CASE processDeletion
  <2>1. sn' \in SNStates /\ snFresh' \subseteq {"konnector", "backend", "work"}
    BY <1>8 DEF processDeletion, WriteSN
  <2>2. queueD' = FALSE /\ UNCHANGED <<cns, cnsCache, snCache, backendSide, namespace, rb, aside, nsOps>>
    BY <1>8 DEF processDeletion
  <2>3. queueD' \in BOOLEAN
    BY <2>2
  <2> QED
    BY <2>1, <2>2, <2>3
<1>9. CASE ResyncBackend
    BY <1>9 DEF ResyncBackend
<1>10. CASE processGone
  <2>1. pns' \in NSStates /\ pnsFresh' \in BOOLEAN /\ snFresh' \subseteq {"konnector", "backend", "work"}
    BY <1>10 DEF processGone, Begin, WriteNamespace
  <2>2. queueB' = FALSE /\ UNCHANGED <<konnectorSide, sn, snBackend, pnsCache, rb, rbCache, workB, aside, nsOps>>
    BY <1>10 DEF processGone, Begin
  <2>3. queueB' \in BOOLEAN
    BY <2>2
  <2> QED
    BY <2>1, <2>2, <2>3
<1>11. CASE reconcileNamespace
  <2>1. pns' \in NSStates /\ pnsFresh' \in BOOLEAN /\ snFresh' \subseteq {"konnector", "backend", "work"}
    BY <1>11 DEF reconcileNamespace, Begin, WriteNamespace
  <2>2. /\ queueB' = FALSE
        /\ UNCHANGED <<konnectorSide, sn, snBackend, pnsCache, rb, rbCache, aside, nsOps>>
    BY <1>11 DEF reconcileNamespace, Begin
  <2>3. /\ workB' \in [step : Steps, old : SNStates]
        /\ workB'.step # "idle" /\ workB'.old # "none"
    BY <1>11 DEF reconcileNamespace
  <2>4. queueB' \in BOOLEAN
    BY <2>2
  <2> QED
    BY <2>1, <2>2, <2>3, <2>4
<1>12. CASE ensureRBACRoleBinding
  <2>1. /\ UNCHANGED <<konnectorSide, sn, snFresh, namespace, snBackend, pnsCache, rbCache, aside, nsOps>>
        /\ rb' \in BOOLEAN
    BY <1>12 DEF ensureRBACRoleBinding, Finish
  <2>2. queueB' \in BOOLEAN
    BY <1>12 DEF ensureRBACRoleBinding, Finish
  <2>3. \/ workB' = [workB EXCEPT !.step = "commit"]
        \/ workB' = [step |-> "idle", old |-> "none"]
    BY <1>12 DEF ensureRBACRoleBinding, Finish
  <2>4. workB.old # "none"
    BY <1>12 DEF ensureRBACRoleBinding
  <2>5. /\ workB' \in [step : Steps, old : SNStates]
        /\ workB'.old = "none" <=> workB'.step = "idle"
    BY <2>3, <2>4
  <2> QED
    BY <2>1, <2>2, <2>5
<1>13. CASE commitStatus
  <2>1. UNCHANGED <<konnectorSide, namespace, rb, snBackend, pnsCache, rbCache, aside, nsOps>>
    BY <1>13 DEF commitStatus, Finish
  <2>2. sn' \in SNStates /\ snFresh' \subseteq {"konnector", "backend", "work"}
    BY <1>13 DEF commitStatus, WriteSN
  <2>3. queueB' \in BOOLEAN /\ workB' = [step |-> "idle", old |-> "none"]
    BY <1>13 DEF commitStatus, Finish
  <2> QED
    BY <2>1, <2>2, <2>3
<1>14. CASE BackendCallFails
    BY <1>14 DEF BackendCallFails, NSIntervene, Finish
<1>15. CASE RestartBackend
    BY <1>15 DEF RestartBackend, NSIntervene
<1>16. CASE NamespaceTerminated
  <2>1. pnsFresh' \in BOOLEAN /\ rb' \in BOOLEAN
    BY <1>16 DEF NamespaceTerminated, WriteNamespace
  <2> QED
    BY <1>16, <2>1 DEF NamespaceTerminated, WriteNamespace
<1>17. CASE ExportChanges
  <2>1. access' \in Access
    BY <1>17 DEF ExportChanges
  <2> QED
    BY <1>17, <2>1 DEF ExportChanges, NSIntervene, exceptAccess
<1>18. CASE RoleDeleted
  <2>1. access' \in Access
    BY <1>18 DEF RoleDeleted
  <2> QED
    BY <1>18, <2>1 DEF RoleDeleted, NSIntervene, exceptAccess
<1>19. CASE DeliverExportToBackend
    BY <1>19 DEF DeliverExportToBackend, exceptAccess
<1>20. CASE DeliverRBAC
  <2>1. access' \in Access
    BY <1>20 DEF DeliverRBAC
  <2> QED
    BY <1>20, <2>1 DEF DeliverRBAC, exceptAccess
<1>21. CASE reconcileAccess
  <2>1. access' \in Access
    BY <1>21 DEF reconcileAccess, ensureRBACClusterRole, ensureRBACClusterRoleBinding,
                 expectedRules
  <2> QED
    BY <1>21, <2>1 DEF reconcileAccess, exceptAccess
<1>22. CASE UNCHANGED nsVars
    BY <1>22 DEF nsVars
<1> QED
    BY <1>1, <1>2, <1>3, <1>4, <1>5, <1>6, <1>7, <1>8, <1>9, <1>10, <1>11, <1>12, <1>13, <1>14,
       <1>15, <1>16, <1>17, <1>18, <1>19, <1>20, <1>21, <1>22 DEF NSNext, Deliver, Backend

\* Objects, copies and the steps of the backend's reconcile are of their types, and only a
\* known APIServiceNamespace is reconciled (servicenamespace_controller.go, process).
THEOREM NamespacesTypeCorrect == NSSpec => []NSTypeOK
    BY NamespacesInitType, NamespacesTypeStep, PTL DEF NSSpec

-----------------------------------------------------------------------------
(* A namespace that is gone is noticed.                                    *)

\* A copy that is said to be current is: the backend's of the APIServiceNamespace and of the
\* provider's namespace.
NamespaceCopiesAreCurrent ==
    /\ "backend" \in snFresh => snBackend = sn
    /\ pnsFresh => pnsCache = pns

NamespacesInv == NSTypeOK /\ NamespaceCopiesAreCurrent /\ GoneIsNoticed

LEMMA NoticedStep ==
    ASSUME NamespacesInv, [NSNext]_nsVars
    PROVE  (NamespaceCopiesAreCurrent /\ GoneIsNoticed)'
<1> USE DEF NamespacesInv, NSTypeOK, NamespaceCopiesAreCurrent, GoneIsNoticed, SNStates, NSStates
<1>1. CASE ConsumerNamespaceChanges
    BY <1>1 DEF ConsumerNamespaceChanges, NSIntervene
<1>2. CASE createServiceNamespace
    BY <1>2 DEF createServiceNamespace, WriteSN
<1>3. CASE DeliverConsumerNamespace
    BY <1>3 DEF DeliverConsumerNamespace
<1>4. CASE DeliverServiceNamespace
    BY <1>4 DEF DeliverServiceNamespace
<1>5. CASE DeliverServiceNamespaceToBackend
    BY <1>5 DEF DeliverServiceNamespaceToBackend
<1>6. CASE DeliverProviderNamespace
    BY <1>6 DEF DeliverProviderNamespace
<1>7. CASE DeliverRoleBinding
    BY <1>7 DEF DeliverRoleBinding
<1>8. CASE processDeletion
    BY <1>8 DEF processDeletion, WriteSN
<1>9. CASE ResyncBackend
    BY <1>9 DEF ResyncBackend
<1>10. CASE processGone
    BY <1>10 DEF processGone, Begin, WriteNamespace
<1>11. CASE reconcileNamespace
    BY <1>11 DEF reconcileNamespace, Begin, WriteNamespace
<1>12. CASE ensureRBACRoleBinding
    BY <1>12 DEF ensureRBACRoleBinding, Finish
<1>13. CASE commitStatus
    BY <1>13 DEF commitStatus, Finish, WriteSN
<1>14. CASE BackendCallFails
    BY <1>14 DEF BackendCallFails, NSIntervene, Finish
<1>15. CASE RestartBackend
    BY <1>15 DEF RestartBackend, NSIntervene
<1>16. CASE NamespaceTerminated
    BY <1>16 DEF NamespaceTerminated, WriteNamespace
<1>17. CASE ExportChanges
    BY <1>17 DEF ExportChanges, NSIntervene, exceptAccess
<1>18. CASE RoleDeleted
    BY <1>18 DEF RoleDeleted, NSIntervene, exceptAccess
<1>19. CASE DeliverExportToBackend
    BY <1>19 DEF DeliverExportToBackend, exceptAccess
<1>20. CASE DeliverRBAC
    BY <1>20 DEF DeliverRBAC, exceptAccess
<1>21. CASE reconcileAccess
    BY <1>21 DEF reconcileAccess, exceptAccess, ensureRBACClusterRole,
                 ensureRBACClusterRoleBinding, expectedRules
<1>22. CASE UNCHANGED nsVars
    BY <1>22 DEF nsVars
<1> QED
    BY <1>1, <1>2, <1>3, <1>4, <1>5, <1>6, <1>7, <1>8, <1>9, <1>10, <1>11, <1>12, <1>13, <1>14,
       <1>15, <1>16, <1>17, <1>18, <1>19, <1>20, <1>21, <1>22 DEF NSNext, Deliver, Backend

\* A provider namespace that the consumer was told of and that is gone is never forgotten:
\* whatever is lost, stale or restarted, an event or the backend's queue still has it
\* (servicenamespace_controller.go, enqueueNamespace and process).
THEOREM GoneNoticed == NSSpec => []GoneIsNoticed
<1>1. NSInit => NamespacesInv
  <2> SUFFICES ASSUME NSInit PROVE NamespacesInv
    OBVIOUS
  <2>1. NSTypeOK
    BY NamespacesInitType
  <2> QED
    BY <2>1 DEF NSInit, NamespacesInv, NamespaceCopiesAreCurrent, GoneIsNoticed
<1>2. NamespacesInv /\ [NSNext]_nsVars => NamespacesInv'
    BY NamespacesTypeStep, NoticedStep DEF NamespacesInv
<1>3. NamespacesInv => GoneIsNoticed
    BY DEF NamespacesInv
<1> QED
    BY <1>1, <1>2, <1>3, PTL DEF NSSpec
-----------------------------------------------------------------------------
(* Heartbeat: the konnector's controller of ClusterBindings beside the     *)
(* backend's.  Nothing is assumed of its constants.                        *)

\* The fields of a status and of a worker, whatever is in them.
IsStatus(s) == s = [f \in {"beat", "interval", "secretValid", "healthy"} |-> s[f]]

IsWork(w) == w = [f \in {"step", "old", "new", "current", "content", "currentSecret", "err"} |-> w[f]]

Shapes ==
    /\ IsStatus(cluster) /\ IsStatus(konnectorCopy) /\ IsStatus(backendCopy)
    /\ IsWork(konnector) /\ IsWork(backend)

\* An informer's copy is the stored status unless an event is still to come, and a worker's
\* is as long as nobody writes.  A konnector that is down has neither.
CopiesAreCurrent ==
    /\ up /\ "konnector" \notin stale => konnectorCopy = cluster
    /\ "backend" \notin stale => backendCopy = cluster
    /\ konnector.current = TRUE => konnector.step # "idle" /\ konnector.old = cluster
    /\ backend.current = TRUE => backend.step # "idle" /\ backend.old = cluster

\* Only a konnector that is up has something to do.
DownIsIdle == "konnector" \in queued \/ konnector.step # "idle" => up

\* What a worker changes of its copy.
OwnVerdict ==
    /\ konnector.step # "idle" =>
          /\ IsStatus(konnector.new)
          /\ konnector.new.healthy = konnector.old.healthy
          /\ konnector.step \in {"create", "update"} => konnector.new = konnector.old
    /\ backend.step # "idle" =>
          /\ IsStatus(backend.new)
          /\ backend.new.secretValid = backend.old.secretValid
          /\ backend.new.beat = backend.old.beat

HInv == Shapes /\ CopiesAreCurrent /\ DownIsIdle /\ OwnVerdict

LEMMA OlderKeeps ==
    ASSUME NEW s, IsStatus(s)
    PROVE  /\ IsStatus(Older(s))
           /\ Older(s).secretValid = s.secretValid /\ Older(s).healthy = s.healthy
  BY DEF IsStatus, Older

LEMMA IdleShape == IsWork(Idle) /\ Idle.step = "idle" /\ Idle.current = FALSE
  BY DEF IsWork, Idle

\* The end of the konnector's reconcile, for a worker that has not changed its copy yet.
LEMMA ToCommitKeeps ==
    ASSUME NEW w, IsWork(w), IsStatus(w.new), NEW verdict
    PROVE  LET u == ToCommit(w, verdict) IN
           /\ IsWork(u) /\ u.step = "commit" /\ u.old = w.old /\ u.current = w.current
           /\ IsStatus(u.new) /\ u.new.healthy = w.new.healthy
<1> DEFINE u == ToCommit(w, verdict)
           beat == [ensureHeartbeat(w.new) EXCEPT !.secretValid = verdict]
<1>1. IsStatus(beat) /\ beat.healthy = w.new.healthy
  <2> DEFINE x == IF w.new.beat = Nothing \/ 2 * w.new.beat > Interval THEN 0 ELSE w.new.beat
  <2>1. ensureHeartbeat(w.new) = [w.new EXCEPT !.interval = TRUE, !.beat = x]
    BY DEF ensureHeartbeat
  <2> HIDE DEF x
  <2>2. IsStatus([w.new EXCEPT !.interval = TRUE, !.beat = x])
    BY DEF IsStatus
  <2>3. [w.new EXCEPT !.interval = TRUE, !.beat = x].healthy = w.new.healthy
    BY DEF IsStatus
  <2>4. PICK t : t = [w.new EXCEPT !.interval = TRUE, !.beat = x]
    OBVIOUS
  <2>5. IsStatus([t EXCEPT !.secretValid = verdict]) /\ [t EXCEPT !.secretValid = verdict].healthy = t.healthy
    BY <2>2, <2>4 DEF IsStatus
  <2> QED
    BY <2>1, <2>3, <2>4, <2>5
<1> HIDE DEF beat
<1>2. u = [w EXCEPT !.step = "commit", !.new = beat]
    BY DEF ToCommit, beat
<1>3. IsWork(u) /\ u.step = "commit" /\ u.old = w.old /\ u.current = w.current /\ u.new = beat
    BY <1>2 DEF IsWork
<1> HIDE DEF u
<1> QED
    BY <1>1, <1>3 DEF u

\* A step that writes no status and leaves the workers alone, but may outdate what the
\* konnector knows of the Secret.
LEMMA AsideStep ==
    ASSUME HInv, UNCHANGED <<cluster, backend, up>>,
           queued' \subseteq queued \cup (IF up THEN {"konnector", "backend"} ELSE {"backend"}),
           IsWork(konnector'), konnector'.step = konnector.step, konnector'.old = konnector.old,
           konnector'.new = konnector.new, konnector'.current = konnector.current,
           konnectorCopy' \in {konnectorCopy, cluster}, backendCopy' \in {backendCopy, cluster},
           "konnector" \notin stale' => "konnector" \notin stale \/ konnectorCopy' = cluster,
           "backend" \notin stale' => "backend" \notin stale \/ backendCopy' = cluster
    PROVE  HInv'
<1> USE DEF HInv
<1>1. Shapes'
    BY DEF Shapes
<1>2. CopiesAreCurrent'
    BY DEF CopiesAreCurrent
<1>3. DownIsIdle'
    BY DEF DownIsIdle
<1>4. OwnVerdict'
    BY DEF OwnVerdict
<1> QED
    BY <1>1, <1>2, <1>3, <1>4

LEMMA AsideActions ==
    ASSUME HInv,
           \/ \E content \in ProviderSecret : ProviderRotates(content)
           \/ UserDeletesSecret
           \/ Informers
    PROVE  HInv' /\ cluster' = cluster
<1>1. UNCHANGED <<cluster, backend, up>>
    BY DEF ProviderRotates, UserDeletesSecret, Informers, DeliverToKonnector,
           DeliverToBackend,
           DeliverSource, DeliverSecret, statuses
<1>2. queued' \subseteq queued \cup (IF up THEN {"konnector", "backend"} ELSE {"backend"})
    BY DEF ProviderRotates, UserDeletesSecret, Informers, DeliverToKonnector,
           DeliverToBackend,
           DeliverSource, DeliverSecret
<1>3. konnector' = konnector \/ konnector' = [konnector EXCEPT !.currentSecret = FALSE]
    BY DEF ProviderRotates, UserDeletesSecret, Informers, DeliverToKonnector,
           DeliverToBackend,
           DeliverSource, DeliverSecret
<1>4. /\ IsWork(konnector') /\ konnector'.step = konnector.step /\ konnector'.old = konnector.old
      /\ konnector'.new = konnector.new /\ konnector'.current = konnector.current
    BY <1>3 DEF HInv, Shapes, IsWork
<1>5. /\ konnectorCopy' \in {konnectorCopy, cluster} /\ backendCopy' \in {backendCopy, cluster}
      /\ "konnector" \notin stale' => "konnector" \notin stale \/ konnectorCopy' = cluster
      /\ "backend" \notin stale' => "backend" \notin stale \/ backendCopy' = cluster
    BY DEF ProviderRotates, UserDeletesSecret, Informers, DeliverToKonnector,
           DeliverToBackend,
           DeliverSource, DeliverSecret, statuses
<1>6. HInv'
    BY <1>1, <1>2, <1>4, <1>5, AsideStep
<1> QED
    BY <1>1, <1>6

LEMMA TimePassesStep ==
    ASSUME HInv, TimePasses
    PROVE  HInv' /\ cluster'.healthy = cluster.healthy /\ cluster'.secretValid = cluster.secretValid
<1> USE DEF HInv
<1>1. /\ konnector.step = "idle" /\ backend.step = "idle"
      /\ queued' \subseteq {"backend"} \cup (IF up THEN {"konnector"} ELSE {})
      /\ cluster' = Older(cluster) /\ konnectorCopy' = Older(konnectorCopy)
      /\ backendCopy' = Older(backendCopy)
      /\ UNCHANGED <<stale, up, konnector, backend>>
    BY DEF TimePasses
<1>2. cluster'.healthy = cluster.healthy /\ cluster'.secretValid = cluster.secretValid
    BY <1>1, OlderKeeps DEF Shapes
<1>3. Shapes'
    BY <1>1, OlderKeeps DEF Shapes
<1>4. CopiesAreCurrent'
    BY <1>1 DEF CopiesAreCurrent
<1>5. DownIsIdle' /\ OwnVerdict'
    BY <1>1 DEF DownIsIdle, OwnVerdict
<1> QED
    BY <1>2, <1>3, <1>4, <1>5

LEMMA StopStep ==
    ASSUME HInv, KonnectorStops
    PROVE  HInv' /\ cluster' = cluster
<1> USE DEF HInv
<1>1. /\ up' = FALSE /\ konnector' = Idle /\ queued' = queued \ {"konnector"}
      /\ konnectorCopy' = NoStatus
      /\ UNCHANGED <<cluster, backendCopy, stale, backend>>
    BY DEF KonnectorStops
<1>2. IsStatus(NoStatus)
    BY DEF NoStatus, IsStatus
<1>3. Shapes'
    BY <1>1, <1>2, IdleShape DEF Shapes
<1>4. CopiesAreCurrent' /\ DownIsIdle' /\ OwnVerdict'
    BY <1>1, IdleShape DEF CopiesAreCurrent, DownIsIdle, OwnVerdict
<1> QED
    BY <1>1, <1>3, <1>4

LEMMA StartStep ==
    ASSUME HInv, KonnectorStarts
    PROVE  HInv' /\ cluster' = cluster
<1> USE DEF HInv
<1>1. /\ up' = TRUE /\ konnectorCopy' = cluster /\ stale' = stale \ {"konnector"}
      /\ UNCHANGED <<cluster, backendCopy, konnector, backend>>
    BY DEF KonnectorStarts
<1>2. Shapes' /\ CopiesAreCurrent' /\ DownIsIdle' /\ OwnVerdict'
    BY <1>1 DEF Shapes, CopiesAreCurrent, DownIsIdle, OwnVerdict
<1> QED
    BY <1>1, <1>2

\* The konnector's worker goes on or starts, with a copy that counts as current only if it is.
LEMMA WorkerStep ==
    ASSUME HInv, up, IsWork(konnector'), IsStatus(konnector'.new), konnector'.step # "idle",
           konnector'.new.healthy = konnector'.old.healthy,
           konnector'.step \in {"create", "update"} => konnector'.new = konnector'.old,
           konnector'.current = TRUE => konnector'.old = cluster,
           queued' \subseteq queued, UNCHANGED <<statuses, up, backend>>
    PROVE  HInv' /\ cluster' = cluster
<1> USE DEF HInv, statuses
<1>1. Shapes'
    BY DEF Shapes
<1>2. CopiesAreCurrent'
    BY DEF CopiesAreCurrent
<1>3. DownIsIdle' /\ OwnVerdict'
    BY DEF DownIsIdle, OwnVerdict
<1> QED
    BY <1>1, <1>2, <1>3

LEMMA ProcessStep ==
    ASSUME HInv, Process
    PROVE  HInv' /\ cluster' = cluster
<1> DEFINE work == [Idle EXCEPT !.old = konnectorCopy, !.new = konnectorCopy,
                                !.current = "konnector" \notin stale, !.content = sourceCache,
                                !.currentSecret = ~staleSecret]
<1>1. /\ "konnector" \in queued /\ queued' \subseteq queued
      /\ UNCHANGED <<statuses, up, backend>>
      /\ \/ konnector' = ToCommit([work EXCEPT !.content = Nothing], "false")
         \/ konnector' = [work EXCEPT !.step = "create"]
         \/ konnector' = [work EXCEPT !.step = "update"]
    BY DEF Process
<1>2. up /\ ("konnector" \notin stale => konnectorCopy = cluster) /\ IsStatus(konnectorCopy)
    BY <1>1 DEF HInv, DownIsIdle, CopiesAreCurrent, Shapes
<1>3. /\ IsWork(work) /\ work.old = konnectorCopy /\ work.new = konnectorCopy
      /\ work.current = ("konnector" \notin stale)
    BY DEF Idle, IsWork
<1> HIDE DEF work
<1>4. CASE konnector' = ToCommit([work EXCEPT !.content = Nothing], "false")
  <2> DEFINE w == [work EXCEPT !.content = Nothing]
  <2>1. /\ IsWork(w) /\ w.old = konnectorCopy /\ w.new = konnectorCopy
        /\ w.current = ("konnector" \notin stale)
    BY <1>3 DEF IsWork
  <2> HIDE DEF w
  <2>2. konnector' = ToCommit(w, "false")
    BY <1>4 DEF w
  <2>3. /\ IsWork(konnector') /\ konnector'.step = "commit" /\ konnector'.old = konnectorCopy
        /\ konnector'.current = ("konnector" \notin stale)
        /\ IsStatus(konnector'.new) /\ konnector'.new.healthy = konnectorCopy.healthy
    BY <1>2, <2>1, <2>2, ToCommitKeeps
  <2> QED
    BY <1>1, <1>2, <2>3, WorkerStep
<1>5. CASE konnector' = [work EXCEPT !.step = "create"] \/ konnector' = [work EXCEPT !.step = "update"]
  <2>1. /\ IsWork(konnector') /\ konnector'.step # "idle" /\ konnector'.old = konnectorCopy
        /\ konnector'.current = ("konnector" \notin stale) /\ konnector'.new = konnectorCopy
    BY <1>3, <1>5 DEF IsWork
  <2> QED
    BY <1>1, <1>2, <2>1, WorkerStep
<1> QED
    BY <1>1, <1>4, <1>5

LEMMA SecretCallStep ==
    ASSUME HInv, createConsumerSecret \/ updateConsumerSecret \/ SecretCallFails
    PROVE  HInv' /\ cluster' = cluster
<1>1. /\ konnector.step \in {"create", "update"}
      /\ UNCHANGED <<statuses, up, queued, backend>>
      /\ \/ konnector' = ToCommit(konnector, "true")
         \/ konnector' = [ToCommit(konnector, konnector.old.secretValid) EXCEPT !.err = TRUE]
    BY DEF createConsumerSecret, updateConsumerSecret, SecretCallFails
<1>2. /\ IsWork(konnector) /\ IsStatus(konnector.new) /\ konnector.new = konnector.old
      /\ up /\ (konnector.current = TRUE => konnector.old = cluster)
    BY <1>1 DEF HInv, Shapes, OwnVerdict, DownIsIdle, CopiesAreCurrent
<1>3. PICK verdict : \/ konnector' = ToCommit(konnector, verdict)
                     \/ konnector' = [ToCommit(konnector, verdict) EXCEPT !.err = TRUE]
    BY <1>1
<1> DEFINE w == ToCommit(konnector, verdict)
<1>4. /\ IsWork(w) /\ w.step = "commit" /\ w.old = konnector.old /\ w.current = konnector.current
      /\ IsStatus(w.new) /\ w.new.healthy = konnector.new.healthy
    BY <1>2, ToCommitKeeps
<1> HIDE DEF w
<1>5. konnector' = w \/ konnector' = [w EXCEPT !.err = TRUE]
    BY <1>3 DEF w
<1>6. /\ IsWork(konnector') /\ konnector'.step = "commit" /\ konnector'.old = w.old
      /\ konnector'.current = w.current /\ konnector'.new = w.new
    BY <1>4, <1>5 DEF IsWork
<1> QED
    BY <1>1, <1>2, <1>4, <1>6, WorkerStep

\* What a step may do to the verdicts.
VerdictStep ==
    /\ backend.step # "commit" => cluster'.healthy = cluster.healthy
    /\ konnector.step # "commit" => cluster'.secretValid = cluster.secretValid
    /\ cluster'.healthy # cluster.healthy =>
          /\ cluster'.secretValid = cluster.secretValid
          /\ cluster'.beat = cluster.beat

\* A patch by a worker whose copy is current.
LEMMA PatchedFacts ==
    ASSUME NEW w, IsStatus(cluster), IsStatus(w.new), w.old = cluster
    PROVE  /\ IsStatus(Patched(w))
           /\ Patched(w).healthy = w.new.healthy
           /\ Patched(w).secretValid = w.new.secretValid
           /\ Patched(w).beat = w.new.beat
<1> DEFINE b == IF w.new.beat # w.old.beat THEN w.new.beat ELSE cluster.beat
<1>1. Patched(w) = [cluster EXCEPT !.beat = b, !.interval = w.new.interval,
                                   !.secretValid = w.new.secretValid, !.healthy = w.new.healthy]
    BY DEF Patched
<1>2. b = w.new.beat
    OBVIOUS
<1> HIDE DEF b
<1> QED
    BY <1>1, <1>2 DEF IsStatus

LEMMA CommitStep ==
    ASSUME HInv, commit
    PROVE  HInv' /\ VerdictStep
<1> USE DEF HInv
<1>1. /\ konnector.step = "commit" /\ konnector' = Idle
      /\ queued' \subseteq queued \cup {"konnector"}
      /\ UNCHANGED <<konnectorCopy, backendCopy, up>>
    BY DEF commit, Finished
<1>2. up
    BY <1>1 DEF DownIsIdle
<1>3. DownIsIdle'
    BY <1>1, <1>2, IdleShape DEF DownIsIdle
<1>4. CASE UNCHANGED <<cluster, stale, backend>>
  <2>1. Shapes'
    BY <1>1, <1>4, IdleShape DEF Shapes
  <2>2. CopiesAreCurrent' /\ OwnVerdict'
    BY <1>1, <1>4, IdleShape DEF CopiesAreCurrent, OwnVerdict
  <2>3. VerdictStep
    BY <1>4 DEF VerdictStep
  <2> QED
    BY <1>3, <2>1, <2>2, <2>3
<1>5. CASE /\ konnector.current /\ Store(Patched(konnector))
           /\ backend' = [backend EXCEPT !.current = FALSE]
  <2>1. konnector.old = cluster /\ IsStatus(cluster) /\ IsStatus(konnector.new)
    BY <1>1, <1>5 DEF CopiesAreCurrent, Shapes, OwnVerdict
  <2>2. cluster' = Patched(konnector) /\ stale' = {"konnector", "backend"}
    BY <1>5 DEF Store
  <2>3. IsStatus(cluster') /\ cluster'.healthy = cluster.healthy
    BY <1>1, <2>1, <2>2, PatchedFacts DEF OwnVerdict
  <2>4. /\ IsWork(backend') /\ backend'.step = backend.step /\ backend'.old = backend.old
        /\ backend'.new = backend.new /\ backend'.current = FALSE
    BY <1>5 DEF Shapes, IsWork
  <2>5. Shapes'
    BY <1>1, <2>3, <2>4, IdleShape DEF Shapes
  <2>6. CopiesAreCurrent'
    BY <1>1, <2>2, <2>4, IdleShape DEF CopiesAreCurrent
  <2>7. OwnVerdict'
    BY <1>1, <2>4, IdleShape DEF OwnVerdict
  <2>8. VerdictStep
    BY <1>1, <2>3 DEF VerdictStep
  <2> QED
    BY <1>3, <2>5, <2>6, <2>7, <2>8
<1> QED
    BY <1>4, <1>5 DEF commit

\* A call that fails ends the reconcile.
LEMMA CommitFailsStep ==
    ASSUME HInv, commitFails \/ backendCommitFails
    PROVE  HInv' /\ cluster' = cluster
<1> USE DEF HInv
<1>1. /\ UNCHANGED <<statuses, up>>
      /\ \/ konnector' = Idle /\ backend' = backend
         \/ backend' = Idle /\ konnector' = konnector
      /\ queued' \subseteq queued \cup {"backend"}
            \cup (IF konnector.step = "commit" THEN {"konnector"} ELSE {})
    BY DEF commitFails, backendCommitFails, Finished
<1>2. Shapes'
    BY <1>1, IdleShape DEF Shapes, statuses
<1>3. CopiesAreCurrent' /\ DownIsIdle' /\ OwnVerdict'
    BY <1>1, IdleShape DEF CopiesAreCurrent, DownIsIdle, OwnVerdict, statuses
<1> QED
    BY <1>1, <1>2, <1>3 DEF statuses

LEMMA BackendProcessStep ==
    ASSUME HInv, BackendProcess
    PROVE  HInv' /\ cluster' = cluster
<1> USE DEF HInv
<1> DEFINE verdict == ensureClusterBindingConditions(backendCopy)
           new == [backendCopy EXCEPT !.healthy = verdict]
<1>1. /\ queued' \subseteq queued
      /\ backend' = [Idle EXCEPT !.step = "commit", !.old = backendCopy, !.new = new,
                                 !.current = "backend" \notin stale]
      /\ UNCHANGED <<statuses, up, konnector>>
    BY DEF BackendProcess
<1> HIDE DEF verdict
<1>2. IsStatus(new) /\ new.secretValid = backendCopy.secretValid /\ new.beat = backendCopy.beat
    BY DEF Shapes, IsStatus
<1> HIDE DEF new
<1>3. /\ IsWork(backend') /\ backend'.step = "commit" /\ backend'.old = backendCopy
      /\ backend'.new = new /\ backend'.current = ("backend" \notin stale)
    BY <1>1 DEF Idle, IsWork
<1>4. Shapes'
    BY <1>1, <1>3 DEF Shapes, statuses
<1>5. CopiesAreCurrent' /\ DownIsIdle'
    BY <1>1, <1>3 DEF CopiesAreCurrent, DownIsIdle, statuses
<1>6. OwnVerdict'
    BY <1>1, <1>2, <1>3 DEF OwnVerdict
<1> QED
    BY <1>1, <1>4, <1>5, <1>6 DEF statuses

LEMMA BackendCommitStep ==
    ASSUME HInv, backendCommit
    PROVE  HInv' /\ VerdictStep
<1> USE DEF HInv
<1>1. /\ backend.step = "commit" /\ backend' = Idle
      /\ queued' \subseteq queued \cup {"backend"}
      /\ UNCHANGED <<konnectorCopy, backendCopy, up>>
    BY DEF backendCommit
<1>2. CASE UNCHANGED <<cluster, stale, konnector>>
  <2>1. Shapes'
    BY <1>1, <1>2, IdleShape DEF Shapes
  <2>2. CopiesAreCurrent' /\ DownIsIdle' /\ OwnVerdict'
    BY <1>1, <1>2, IdleShape DEF CopiesAreCurrent, DownIsIdle, OwnVerdict
  <2>3. VerdictStep
    BY <1>2 DEF VerdictStep
  <2> QED
    BY <2>1, <2>2, <2>3
<1>3. CASE /\ backend.current /\ Store(Patched(backend))
           /\ konnector' = [konnector EXCEPT !.current = FALSE]
  <2>1. backend.old = cluster /\ IsStatus(cluster) /\ IsStatus(backend.new)
    BY <1>1, <1>3 DEF CopiesAreCurrent, Shapes, OwnVerdict
  <2>2. cluster' = Patched(backend) /\ stale' = {"konnector", "backend"}
    BY <1>3 DEF Store
  <2>3. /\ IsStatus(cluster') /\ cluster'.secretValid = cluster.secretValid
        /\ cluster'.beat = cluster.beat
    BY <1>1, <2>1, <2>2, PatchedFacts DEF OwnVerdict
  <2>4. /\ IsWork(konnector') /\ konnector'.step = konnector.step /\ konnector'.old = konnector.old
        /\ konnector'.new = konnector.new /\ konnector'.current = FALSE
    BY <1>3 DEF Shapes, IsWork
  <2>5. Shapes'
    BY <1>1, <2>3, <2>4, IdleShape DEF Shapes
  <2>6. CopiesAreCurrent' /\ DownIsIdle'
    BY <1>1, <2>2, <2>4, IdleShape DEF CopiesAreCurrent, DownIsIdle
  <2>7. OwnVerdict'
    BY <1>1, <2>4, IdleShape DEF OwnVerdict
  <2>8. VerdictStep
    BY <1>1, <2>3 DEF VerdictStep
  <2> QED
    BY <2>5, <2>6, <2>7, <2>8
<1> QED
    BY <1>2, <1>3 DEF backendCommit

LEMMA HInvStep ==
    ASSUME HInv, [HBNext]_hbVars
    PROVE  HInv' /\ VerdictStep
<1>1. CASE UNCHANGED hbVars
  <2>1. UNCHANGED <<cluster, konnectorCopy, backendCopy, stale, up, queued, konnector, backend>>
    BY <1>1 DEF hbVars, statuses
  <2> QED
    BY <2>1 DEF VerdictStep, HInv, Shapes, CopiesAreCurrent, DownIsIdle, OwnVerdict
<1>2. CASE TimePasses
    BY <1>2, TimePassesStep DEF VerdictStep
<1>3. CASE Environment \/ Informers
    BY <1>3, AsideActions, StopStep, StartStep DEF Environment, VerdictStep
<1>4. CASE KonnectorController
    BY <1>4, ProcessStep, SecretCallStep, CommitStep DEF KonnectorController, VerdictStep
<1>5. CASE BackendController
    BY <1>5, BackendProcessStep, BackendCommitStep DEF BackendController, VerdictStep
<1>6. CASE SecretCallFails \/ commitFails \/ backendCommitFails
    BY <1>6, SecretCallStep, CommitFailsStep DEF VerdictStep
<1> QED
    BY <1>1, <1>2, <1>3, <1>4, <1>5, <1>6 DEF HBNext

\* Konnector and backend patch one list of conditions of the ClusterBinding, each from a copy
\* that may be old: neither undoes the verdict of the other, and the backend never sets the
\* time of the last heartbeat back (committer.go, clusterbinding_reconcile.go of both).
THEOREM NoVerdictIsUndone == HBSpec => VerdictsAreKept
<1>1. HBInit => HInv
  <2> SUFFICES ASSUME HBInit PROVE HInv
    OBVIOUS
  <2>1. IsStatus(NoStatus)
    BY DEF NoStatus, IsStatus
  <2> QED
    BY <2>1, IdleShape DEF HBInit, HInv, Shapes, CopiesAreCurrent, DownIsIdle, OwnVerdict
<1>2. HInv /\ [HBNext]_hbVars => HInv' /\ VerdictStep
    BY HInvStep
<1>3. VerdictStep =>
         [/\ backend.step # "commit" => cluster'.healthy = cluster.healthy
          /\ konnector.step # "commit" => cluster'.secretValid = cluster.secretValid
          /\ cluster'.healthy # cluster.healthy =>
                /\ cluster'.secretValid = cluster.secretValid
                /\ cluster'.beat = cluster.beat]_hbVars
    BY DEF VerdictStep
<1> QED
    BY <1>1, <1>2, <1>3, PTL DEF HBSpec, VerdictsAreKept

=============================================================================

----------------------------- MODULE Handshake -----------------------------
(***************************************************************************)
(* kubectl bind: how a consumer cluster gets access to a provider.  The    *)
(* command waits on a local port while a browser goes through the          *)
(* backend's pages; the request of the last page makes the objects of the  *)
(* consumer in the provider cluster and redirects the browser to the port  *)
(* with a kubeconfig.  The command keeps the kubeconfig as a Secret, asks  *)
(* for the export, deploys the konnector and creates the APIServiceBinding.*)
(* The backend's controller of ClusterBindings gives the access that the   *)
(* request for the export needs.                                           *)
(*                                                                         *)
(* All sessions are of one user and one consumer cluster, that is of one   *)
(* identity, and bind one resource.  A kubeconfig stands for the provider  *)
(* namespace it leads to.                                                  *)
(***************************************************************************)
EXTENDS Naturals, FiniteSets

CONSTANTS
    Sessions,   \* runs of the command; also names for what is generated
    None,       \* nothing
    MaxOps      \* how many times users intervene and calls fail

ASSUME HandshakeAssumption == None \notin Sessions /\ MaxOps \in Nat

Names == Sessions

VARIABLES
    cmd,        \* the commands: see Command
    kb,         \* whether the consumer cluster has the namespace klutch-bind
    secret,     \* the kubeconfig Secrets in the consumer cluster
    konnector,  \* whether the konnector is deployed
    binding,    \* the APIServiceBinding: the Secret it refers to
    web, target,\* the browser's page or the step of its request; the namespace of the request
    made,       \* the objects in each provider namespace
    index,      \* the namespaces in the backend's informer
    request,    \* the APIServiceExportRequest of each command
    ops

consumer == <<kb, secret, konnector, binding>>
provider == <<web, target, made, index>>
vars == <<cmd, consumer, provider, request, ops>>

Response == [session : Sessions, namespace : Names]

Steps == {"idle", "started", "waiting", "accepted", "found", "stored", "request", "requested",
          "deploy", "deployed", "missing", "lookup", "create", "done", "failed"}

\* The step, the port of the callback server, the response it accepted, the provider
\* namespace of the kubeconfig and the Secret that was found or made for it.
Command == [step : Steps, port : Names \cup {None}, mail : Response \cup {None},
            remote : Names \cup {None}, found : Names \cup {None}]

\* The ServiceAccount stands for its Secret too, which Kubernetes puts the token into.
Objects == {"namespace", "ClusterBinding", "ServiceAccount", "token", "kubeconfig", "RoleBinding"}

\* What a kubeconfig needs to be of use.
Complete == Objects \ {"RoleBinding"}

\* Pages and the steps of the request, whose calls get an object and create it if it is
\* missing.
Get == [ClusterBinding |-> "get ClusterBinding", ServiceAccount |-> "get ServiceAccount"]
Create == [ClusterBinding |-> "create ClusterBinding", ServiceAccount |-> "create ServiceAccount"]
Ensured == DOMAIN Get
Pages == {"none", "page", "namespace", "token", "kubeconfig", "redirect", "over"}
             \cup {Get[object] : object \in Ensured} \cup {Create[object] : object \in Ensured}

Intervene == ops < MaxOps /\ ops' = ops + 1

Running(s) == cmd[s].step \notin {"idle", "done", "failed"}
At(s, step) == cmd[s].step = step
Show(s, step) == web' = [web EXCEPT ![s] = step]
Leave(s) == Show(s, "over") /\ target' = [target EXCEPT ![s] = None]
Goto(s, step) == cmd' = [cmd EXCEPT ![s].step = step]

\* The process ends; its port may be in a browser's address still.
End(s, outcome) ==
    cmd' = [cmd EXCEPT ![s] = [@ EXCEPT !.step = outcome, !.mail = None, !.found = None]]

-----------------------------------------------------------------------------
(* kubectl bind.                                                           *)

\* A port of its own, or that of a command that has ended.
FreePorts(s) ==
    {p \in {s} \cup {cmd[t].port : t \in Sessions} :
        p # None /\ \A t \in Sessions : Running(t) => cmd[t].port # p}

\* Run, getProvider, validateProviderVersion: up to the look for the namespace.
getProvider(s) ==
    /\ At(s, "idle")
    /\ \/ End(s, "failed")
       \/ \E p \in FreePorts(s) :
             cmd' = [cmd EXCEPT ![s].step = IF kb THEN "waiting" ELSE "started", ![s].port = p]
    /\ UNCHANGED <<consumer, provider, request, ops>>

\* Run: the namespace was not there; the creation fails if it is by now.
createNamespace(s) ==
    /\ At(s, "started")
    /\ kb' = TRUE
    /\ IF kb THEN End(s, "failed") ELSE Goto(s, "waiting")
    /\ UNCHANGED <<secret, konnector, binding, provider, request, ops>>

\* The checks of the response: it must be of this session.
Accept(s) ==
    /\ cmd[s].mail # None
    /\ IF cmd[s].mail.session = s
         THEN cmd' = [cmd EXCEPT ![s] = [@ EXCEPT !.step = "accepted", !.mail = None,
                                                  !.remote = cmd[s].mail.namespace]]
         ELSE End(s, "failed")

\* Mutant: the wait has no limit.
WaitsForEver(s) ==
    /\ At(s, "waiting")
    /\ Accept(s)
    /\ UNCHANGED <<consumer, provider, request, ops>>

\* WaitForResponse: the first response, or the end of ten minutes.
WaitForResponse(s) ==
    /\ At(s, "waiting")
    /\ Accept(s) \/ (cmd[s].mail = None /\ End(s, "failed"))
    /\ UNCHANGED <<consumer, provider, request, ops>>

\* FindRemoteKubeconfig: the Secrets whose kubeconfig leads to the namespace; which one comes
\* first depends on generated names.
FindRemoteKubeconfig(n) == {x \in Names : secret[x] = n}

\* Run: the list of the Secrets.
Find(s) ==
    /\ At(s, "accepted")
    /\ LET matches == FindRemoteKubeconfig(cmd[s].remote)
       IN  \E x \in IF matches = {} THEN {None} ELSE matches :
              cmd' = [cmd EXCEPT ![s].step = "found", ![s].found = x]
    /\ UNCHANGED <<consumer, provider, request, ops>>

\* EnsureKubeconfigSecret: an update fails if the Secret is gone or another one's; a dry run
\* ends here.
EnsureKubeconfigSecret(s) ==
    LET name == IF cmd[s].found = None THEN s ELSE cmd[s].found
    IN  /\ At(s, "found")
        /\ IF cmd[s].found = None
             THEN secret' = [secret EXCEPT ![s] = cmd[s].remote]
             ELSE UNCHANGED secret
        /\ IF secret'[name] = cmd[s].remote
             THEN \/ cmd' = [cmd EXCEPT ![s].step = "stored", ![s].found = name]
                  \/ End(s, "done")
             ELSE End(s, "failed")
        /\ UNCHANGED <<kb, konnector, binding, provider, request, ops>>

-----------------------------------------------------------------------------
(* kubectl bind apiservice.                                                *)

\* getRemoteKubeconfig.
getRemoteKubeconfig(s) ==
    /\ At(s, "stored")
    /\ IF secret[cmd[s].found] = None THEN End(s, "failed") ELSE Goto(s, "request")
    /\ UNCHANGED <<consumer, provider, request, ops>>

\* createServiceExportRequest: with another name if the name is taken.  It is forbidden
\* until the controller has made the RoleBinding, and nothing tries again.
createServiceExportRequest(s) ==
    /\ At(s, "request")
    /\ IF "RoleBinding" \in made[cmd[s].remote]
         THEN request' = [request EXCEPT ![s] = "pending"] /\ Goto(s, "requested")
         ELSE UNCHANGED request /\ End(s, "failed")
    /\ UNCHANGED <<consumer, provider, ops>>

\* Mutant: the answer is not waited for.
GoesOnAtOnce(s) ==
    /\ At(s, "requested")
    /\ Goto(s, "deploy")
    /\ UNCHANGED <<consumer, provider, request, ops>>

\* The rest of createServiceExportRequest: the answer, or ten minutes without one.
WaitForRequest(s) ==
    /\ At(s, "requested")
    /\ IF request[s] = "succeeded" THEN Goto(s, "deploy") ELSE End(s, "failed")
    /\ UNCHANGED <<consumer, provider, request, ops>>

\* deployKonnector, unless --skip-konnector.
deployKonnector(s) ==
    /\ At(s, "deploy")
    /\ konnector' \in {TRUE, konnector}
    /\ Goto(s, "deployed")
    /\ UNCHANGED <<kb, secret, binding, provider, request, ops>>

\* The end of deployKonnector waits without a limit for the API that the konnector installs;
\* then createKubeconfigSecret looks for the Secret again.
WaitForKonnector(s) ==
    /\ At(s, "deployed")
    /\ konnector
    /\ LET matches == FindRemoteKubeconfig(cmd[s].remote)
       IN  \/ matches = {} /\ Goto(s, "missing")
           \/ \E x \in matches : cmd' = [cmd EXCEPT ![s].step = "lookup", ![s].found = x]
    /\ UNCHANGED <<consumer, provider, request, ops>>

\* createKubeconfigSecret: there was none.
createKubeconfigSecret(s) ==
    /\ At(s, "missing")
    /\ secret' = [secret EXCEPT ![s] = cmd[s].remote]
    /\ cmd' = [cmd EXCEPT ![s].step = "lookup", ![s].found = s]
    /\ UNCHANGED <<kb, konnector, binding, provider, request, ops>>

\* createAPIServiceBindings: one that exists must be of the same Secret, and a CRD that
\* exists must be its own.
findAPIServiceBinding(s) ==
    /\ At(s, "lookup")
    /\ \/ binding = None /\ Goto(s, "create")
       \/ binding = cmd[s].found /\ End(s, "done")
       \/ binding # None /\ End(s, "failed")
    /\ UNCHANGED <<consumer, provider, request, ops>>

\* createAPIServiceBindings: after the questions about the claims, whose answers are stored
\* and do not matter, required or not.
createAPIServiceBinding(s) ==
    /\ At(s, "create")
    /\ IF binding = None THEN binding' = cmd[s].found /\ End(s, "done")
                         ELSE UNCHANGED binding /\ End(s, "failed")
    /\ UNCHANGED <<kb, secret, konnector, provider, request, ops>>

\* A call fails, an answer is not understood, or the user stops the command.
CommandFails(s) ==
    /\ Intervene
    /\ Running(s)
    /\ End(s, "failed")
    /\ UNCHANGED <<consumer, provider, request>>

-----------------------------------------------------------------------------
(* The browser and the backend's pages.                                    *)

\* handleAuthorize, the identity provider, handleCallback, handleResources: the session is
\* in a cookie and the page lists what there is to bind.
OpenPage(s) ==
    /\ web[s] = "none" /\ At(s, "waiting")
    /\ Show(s, "page")
    /\ UNCHANGED <<cmd, consumer, target, made, index, request, ops>>

\* handleBind, HandleResources: the namespace of the identity by the informer's index.  With
\* more than one the request fails, now and for ever.
HandleResources(s) ==
    /\ web[s] = "page"
    /\ \/ /\ index = {}
          /\ Show(s, "namespace")
          /\ UNCHANGED target
       \/ \E n \in index : /\ index = {n}
                           /\ target' = [target EXCEPT ![s] = n]
                           /\ Show(s, Get.ClusterBinding)
    /\ UNCHANGED <<cmd, consumer, made, index, request, ops>>

Make(n, object) == made' = [made EXCEPT ![n] = @ \cup {object}]

\* CreateNamespace, with a generated name.
CreateNamespace(s) ==
    /\ web[s] = "namespace"
    /\ \E n \in Names :
          /\ "namespace" \notin made[n]
          /\ n = s \/ "namespace" \in made[s]
          /\ Make(n, "namespace")
          /\ target' = [target EXCEPT ![s] = n]
    /\ Show(s, Get.ClusterBinding)
    /\ UNCHANGED <<cmd, consumer, index, request, ops>>

After(object) == IF object = "ClusterBinding" THEN Get.ServiceAccount ELSE "token"

\* HandleResources, CreateServiceAccount, CreateSASecret: the look.
GetObject(s, object) ==
    /\ web[s] = Get[object]
    /\ Show(s, IF object \in made[target[s]] THEN After(object) ELSE Create[object])
    /\ UNCHANGED <<cmd, consumer, target, made, index, request, ops>>

\* CreateClusterBinding, CreateServiceAccount, CreateSASecret: fails if another request was
\* faster.
CreateObject(s, object) ==
    /\ web[s] = Create[object]
    /\ Make(target[s], object)
    /\ IF object \in made[target[s]] THEN Leave(s) ELSE Show(s, After(object)) /\ UNCHANGED target
    /\ UNCHANGED <<cmd, consumer, index, request, ops>>

\* Mutant: the kubeconfig is made of what there is.
NoWaitForToken(s) ==
    /\ web[s] = "token"
    /\ Show(s, "kubeconfig")
    /\ UNCHANGED <<cmd, consumer, target, made, index, request, ops>>

\* GenerateKubeconfig: waits ten seconds for the token.
WaitForToken(s) ==
    /\ web[s] = "token"
    /\ IF "token" \in made[target[s]] THEN Show(s, "kubeconfig") /\ UNCHANGED target ELSE Leave(s)
    /\ UNCHANGED <<cmd, consumer, made, index, request, ops>>

\* GenerateKubeconfig: creates or updates the Secret; the browser is sent to the port.
GenerateKubeconfig(s) ==
    /\ web[s] = "kubeconfig"
    /\ Make(target[s], "kubeconfig")
    /\ Show(s, "redirect")
    /\ UNCHANGED <<cmd, consumer, target, index, request, ops>>

\* callback of the authenticator that listens on the port now, which may belong to another
\* command; the first response counts.
callback(s) ==
    LET listening(t) ==
            At(t, "waiting") /\ cmd[t].port = cmd[s].port /\ cmd[t].mail = None
        response == [session |-> s, namespace |-> target[s]]
    IN  /\ web[s] = "redirect"
        /\ Leave(s)
        /\ cmd' = [t \in Sessions |->
                      IF listening(t) THEN [cmd[t] EXCEPT !.mail = response] ELSE cmd[t]]
        /\ UNCHANGED <<consumer, made, index, request, ops>>

\* The user goes back to the page, after an error or to bind again; a request may have
\* failed on the way.
ReturnToPage(s) ==
    /\ Intervene
    /\ web[s] \notin {"none", "page"}
    /\ Show(s, "page")
    /\ target' = [target EXCEPT ![s] = None]
    /\ UNCHANGED <<cmd, consumer, made, index, request>>

\* Somebody deletes a kubeconfig Secret of the consumer cluster.
UserDeletesSecret(x) ==
    /\ Intervene
    /\ secret[x] # None
    /\ secret' = [secret EXCEPT ![x] = None]
    /\ UNCHANGED <<cmd, kb, konnector, binding, provider, request>>

-----------------------------------------------------------------------------
(* The provider cluster.                                                   *)

\* The token controller of Kubernetes.
FillToken(n) ==
    /\ "ServiceAccount" \in made[n] /\ "token" \notin made[n]
    /\ Make(n, "token")
    /\ UNCHANGED <<cmd, consumer, web, target, index, request, ops>>

DeliverNamespace(n) ==
    /\ "namespace" \in made[n] /\ n \notin index
    /\ index' = index \cup {n}
    /\ UNCHANGED <<cmd, consumer, web, target, made, request, ops>>

\* ensureRBACRoleBinding of the controller of ClusterBindings (see module
\* ServiceNamespaces), once its informer has the ClusterBinding.
ensureRBACRoleBinding(n) ==
    /\ "ClusterBinding" \in made[n] /\ "RoleBinding" \notin made[n]
    /\ Make(n, "RoleBinding")
    /\ UNCHANGED <<cmd, consumer, web, target, index, request, ops>>

\* The controller of requests (module ExportRequests).
AnswerRequest(s) ==
    /\ request[s] = "pending"
    /\ \E answer \in {"succeeded", "failed"} : request' = [request EXCEPT ![s] = answer]
    /\ UNCHANGED <<cmd, consumer, provider, ops>>

-----------------------------------------------------------------------------
Init ==
    /\ cmd = [s \in Sessions |-> [step |-> "idle", port |-> None, mail |-> None,
                                  remote |-> None, found |-> None]]
    /\ kb = FALSE
    /\ secret = [x \in Names |-> None]
    /\ konnector = FALSE
    /\ binding = None
    /\ web = [s \in Sessions |-> "none"]
    /\ target = [s \in Sessions |-> None]
    /\ made = [n \in Names |-> {}]
    /\ index = {}
    /\ request = [s \in Sessions |-> "none"]
    /\ ops = 0

\* The steps of a command once it is started; they end with its waits.
Continue(s) ==
    \/ createNamespace(s) \/ WaitForResponse(s) \/ Find(s) \/ EnsureKubeconfigSecret(s)
    \/ getRemoteKubeconfig(s) \/ createServiceExportRequest(s) \/ WaitForRequest(s)
    \/ deployKonnector(s) \/ WaitForKonnector(s) \/ createKubeconfigSecret(s)
    \/ findAPIServiceBinding(s) \/ createAPIServiceBinding(s)

Browser(s) ==
    \/ OpenPage(s) \/ HandleResources(s) \/ CreateNamespace(s)
    \/ \E object \in Ensured : GetObject(s, object) \/ CreateObject(s, object)
    \/ WaitForToken(s) \/ GenerateKubeconfig(s) \/ callback(s) \/ ReturnToPage(s)

Provider(n) ==
    \/ FillToken(n) \/ DeliverNamespace(n) \/ ensureRBACRoleBinding(n)

Next ==
    \/ \E s \in Sessions : \/ getProvider(s) \/ Continue(s) \/ CommandFails(s) \/ Browser(s)
                           \/ AnswerRequest(s)
    \/ \E n \in Names : Provider(n) \/ UserDeletesSecret(n)

Spec == Init /\ [][Next]_vars

\* Nobody has to start a command or to go on in the browser.
Fairness == \A s \in Sessions : WF_vars(Continue(s))

FairSpec == Spec /\ Fairness

-----------------------------------------------------------------------------
\* Steps, objects and copies are of their types, and a request that makes objects knows the
\* namespace they belong to.
TypeOK ==
    /\ cmd \in [Sessions -> Command]
    /\ kb \in BOOLEAN /\ konnector \in BOOLEAN
    /\ secret \in [Names -> Names \cup {None}]
    /\ binding \in Names \cup {None}
    /\ web \in [Sessions -> Pages]
    /\ target \in [Sessions -> Names \cup {None}]
    /\ \A s \in Sessions : target[s] = None <=> web[s] \in {"none", "page", "namespace", "over"}
    /\ made \in [Names -> SUBSET Objects]
    /\ index \subseteq Names
    /\ request \in [Sessions -> {"none", "pending", "succeeded", "failed"}]
    /\ ops \in 0..MaxOps

\* A kubeconfig that a command works with leads to a namespace with everything in it, its
\* ClusterBinding and a token included, however many requests ran side by side or failed
\* half-way.
HandedOutIsComplete ==
    \A s \in Sessions : cmd[s].remote # None => Complete \subseteq made[cmd[s].remote]

\* An APIServiceBinding refers to a Secret with the kubeconfig of a namespace in which the
\* provider has granted a request, unless somebody deleted the Secret.
BindingIsGranted ==
    binding # None /\ secret[binding] # None =>
        \E s \in Sessions : request[s] = "succeeded" /\ cmd[s].remote = secret[binding]

\* A command that was started ends, unless it waits for a konnector that nobody deploys.
CommandEnds ==
    \A s \in Sessions : Running(s) ~> ~Running(s) \/ (At(s, "deployed") /\ ~konnector)
=============================================================================

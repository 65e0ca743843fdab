-------------------------- MODULE HandshakeProofs --------------------------
(***************************************************************************)
(* Proofs about Handshake, for any number of commands that run side by     *)
(* side and any number of interventions.                                   *)
(***************************************************************************)
EXTENDS Handshake, TLAPS

\* The tuples of variables that actions leave alone.
USE DEF consumer, provider, Names

-----------------------------------------------------------------------------
(* Types.                                                                  *)

\* What the steps of commands do to the commands: only the one command changes, a response
\* is only taken up, and the namespace of a command is that of the response it took up.
Progress(s) ==
    /\ cmd' \in [Sessions -> Command]
    /\ \A t \in Sessions \ {s} : cmd'[t] = cmd[t]
    /\ cmd'[s].mail \in {cmd[s].mail, None}
    /\ \/ cmd'[s].remote = cmd[s].remote
       \/ At(s, "waiting") /\ cmd[s].mail # None /\ cmd'[s].remote = cmd[s].mail.namespace

LEMMA ChangeOne ==
    ASSUME TypeOK, NEW s \in Sessions, NEW c \in Command
    PROVE  cmd' = [cmd EXCEPT ![s] = c] =>
               /\ cmd' \in [Sessions -> Command]
               /\ cmd'[s] = c
               /\ \A t \in Sessions \ {s} : cmd'[t] = cmd[t]
    BY DEF TypeOK

LEMMA EndProgress ==
    ASSUME TypeOK, NEW s \in Sessions, NEW outcome \in {"done", "failed"}, End(s, outcome)
    PROVE  /\ Progress(s)
           /\ cmd'[s].step = outcome /\ cmd'[s].remote = cmd[s].remote
           /\ cmd'[s].found = None /\ cmd'[s].mail = None
  <1> DEFINE c == [cmd[s] EXCEPT !.step = outcome, !.mail = None, !.found = None]
  <1>1. cmd' = [cmd EXCEPT ![s] = c] /\ cmd[s] \in Command
    BY DEF End, TypeOK
  <1>2. c \in Command
    BY <1>1 DEF Command, Steps
  <1>3. c.step = outcome /\ c.remote = cmd[s].remote /\ c.mail = None /\ c.found = None
    BY <1>1 DEF Command
  <1> HIDE DEF c
  <1> QED
    BY <1>1, <1>2, <1>3 DEF Progress, TypeOK

LEMMA GotoProgress ==
    ASSUME TypeOK, NEW s \in Sessions, NEW step \in Steps, Goto(s, step)
    PROVE  /\ Progress(s)
           /\ cmd'[s].step = step /\ cmd'[s].remote = cmd[s].remote
           /\ cmd'[s].found = cmd[s].found /\ cmd'[s].mail = cmd[s].mail
    BY DEF TypeOK, Goto, Progress, Command

LEMMA FindProgress ==
    ASSUME TypeOK, NEW s \in Sessions, NEW step \in Steps, NEW x \in Names \cup {None},
           cmd' = [cmd EXCEPT ![s].step = step, ![s].found = x]
    PROVE  /\ Progress(s)
           /\ cmd'[s].step = step /\ cmd'[s].remote = cmd[s].remote
           /\ cmd'[s].found = x /\ cmd'[s].mail = cmd[s].mail
  <1> DEFINE c == [cmd[s] EXCEPT !.step = step, !.found = x]
  <1>1. cmd[s] \in Command
    BY DEF TypeOK
  <1>2. c \in Command
    BY <1>1 DEF Command
  <1>3. c.step = step /\ c.remote = cmd[s].remote /\ c.mail = cmd[s].mail /\ c.found = x
    BY <1>1 DEF Command
  <1>4. cmd' = [cmd EXCEPT ![s] = c]
    BY <1>1 DEF TypeOK, Command
  <1> HIDE DEF c
  <1>5. cmd' \in [Sessions -> Command] /\ cmd'[s] = c /\ \A t \in Sessions \ {s} : cmd'[t] = cmd[t]
    BY <1>2, <1>4, ChangeOne
  <1> QED
    BY <1>3, <1>5, Zenon DEF Progress

LEMMA StartProgress ==
    ASSUME TypeOK, NEW s \in Sessions, NEW step \in Steps, NEW p \in Names,
           cmd' = [cmd EXCEPT ![s].step = step, ![s].port = p]
    PROVE  /\ Progress(s)
           /\ cmd'[s].step = step /\ cmd'[s].remote = cmd[s].remote
           /\ cmd'[s].found = cmd[s].found /\ cmd'[s].mail = cmd[s].mail
  <1> DEFINE c == [cmd[s] EXCEPT !.step = step, !.port = p]
  <1>1. cmd[s] \in Command
    BY DEF TypeOK
  <1>2. c \in Command
    BY <1>1 DEF Command
  <1>3. c.step = step /\ c.remote = cmd[s].remote /\ c.mail = cmd[s].mail /\ c.found = cmd[s].found
    BY <1>1 DEF Command
  <1>4. cmd' = [cmd EXCEPT ![s] = c]
    BY <1>1 DEF TypeOK, Command
  <1> HIDE DEF c
  <1>5. cmd' \in [Sessions -> Command] /\ cmd'[s] = c /\ \A t \in Sessions \ {s} : cmd'[t] = cmd[t]
    BY <1>2, <1>4, ChangeOne
  <1> QED
    BY <1>3, <1>5, Zenon DEF Progress

LEMMA AcceptProgress ==
    ASSUME TypeOK, NEW s \in Sessions, At(s, "waiting"), Accept(s)
    PROVE  /\ Progress(s)
           /\ \/ cmd'[s].step = "accepted" /\ cmd'[s].remote = cmd[s].mail.namespace
              \/ cmd'[s].step = "failed" /\ cmd'[s].remote = cmd[s].remote
           /\ cmd'[s].mail = None /\ cmd'[s].found \in {None, cmd[s].found}
  <1>1. CASE cmd[s].mail.session = s
    <2> DEFINE c == [cmd[s] EXCEPT !.step = "accepted", !.mail = None, !.remote = cmd[s].mail.namespace]
    <2>1. cmd' = [cmd EXCEPT ![s] = c]
        BY <1>1 DEF Accept
    <2>2. cmd[s] \in Command /\ cmd[s].mail \in Response
        BY DEF TypeOK, Command, Accept
    <2>3. cmd[s].mail.namespace \in Names
        BY <2>2 DEF Response
    <2>4. c \in Command
        BY <2>2, <2>3 DEF Command, Steps
    <2>5. cmd' \in [Sessions -> Command] /\ cmd'[s] = c /\ \A t \in Sessions \ {s} : cmd'[t] = cmd[t]
        BY <2>1, <2>4 DEF TypeOK
    <2>6. /\ c.step = "accepted" /\ c.mail = None /\ c.remote = cmd[s].mail.namespace
          /\ c.found = cmd[s].found
        BY <2>2 DEF Command
    <2>7. cmd[s].mail # None
        BY DEF Accept
    <2> HIDE DEF c
    <2> QED
        BY <2>5, <2>6, <2>7 DEF Progress
  <1>2. CASE cmd[s].mail.session # s
    BY <1>2, EndProgress DEF Accept
  <1> QED
    BY <1>1, <1>2

\* A step of a command, with what it leaves alone besides.
LEMMA CommandProgress ==
    ASSUME TypeOK, NEW s \in Sessions, getProvider(s) \/ Continue(s) \/ CommandFails(s)
    PROVE  Progress(s) /\ UNCHANGED provider
  <1>1. CASE getProvider(s)
    <2>1. CASE End(s, "failed")
        BY <1>1, <2>1, EndProgress DEF getProvider
    <2>2. CASE \E p \in FreePorts(s) :
                 cmd' = [cmd EXCEPT ![s].step = IF kb THEN "waiting" ELSE "started", ![s].port = p]
        <3>1. PICK p \in FreePorts(s) :
                 cmd' = [cmd EXCEPT ![s].step = IF kb THEN "waiting" ELSE "started", ![s].port = p]
            BY <2>2
        <3>2. p \in Names
            BY DEF FreePorts, TypeOK, Command
        <3>3. (IF kb THEN "waiting" ELSE "started") \in Steps
            BY DEF Steps
        <3> QED
            BY <1>1, <3>1, <3>2, <3>3, StartProgress DEF getProvider
    <2> QED
        BY <1>1, <2>1, <2>2 DEF getProvider
  <1>2. CASE createNamespace(s)
    BY <1>2, EndProgress, GotoProgress DEF createNamespace, Steps
  <1>3. CASE WaitForResponse(s)
    BY <1>3, EndProgress, AcceptProgress DEF WaitForResponse
  <1>4. CASE Find(s)
    BY <1>4, FindProgress DEF Find, FindRemoteKubeconfig, Steps
  <1>5. CASE EnsureKubeconfigSecret(s)
    <2> DEFINE name == IF cmd[s].found = None THEN s ELSE cmd[s].found
    <2>1. name \in Names \cup {None} /\ "stored" \in Steps
        BY DEF TypeOK, Command, Steps
    <2>2. \/ cmd' = [cmd EXCEPT ![s].step = "stored", ![s].found = name]
          \/ End(s, "done") \/ End(s, "failed")
        BY <1>5 DEF EnsureKubeconfigSecret
    <2>3. UNCHANGED provider
        BY <1>5 DEF EnsureKubeconfigSecret
    <2> HIDE DEF name
    <2> QED
        BY <2>1, <2>2, <2>3, EndProgress, FindProgress
  <1>6. CASE getRemoteKubeconfig(s)
    BY <1>6, EndProgress, GotoProgress DEF getRemoteKubeconfig, Steps
  <1>7. CASE createServiceExportRequest(s)
    BY <1>7, EndProgress, GotoProgress DEF createServiceExportRequest, Steps
  <1>8. CASE WaitForRequest(s)
    BY <1>8, EndProgress, GotoProgress DEF WaitForRequest, Steps
  <1>9. CASE deployKonnector(s)
    BY <1>9, EndProgress, GotoProgress DEF deployKonnector, Steps
  <1>10. CASE WaitForKonnector(s)
    BY <1>10, GotoProgress, FindProgress DEF WaitForKonnector, FindRemoteKubeconfig, Steps
  <1>11. CASE createKubeconfigSecret(s)
    BY <1>11, FindProgress DEF createKubeconfigSecret, Steps
  <1>12. CASE findAPIServiceBinding(s)
    BY <1>12, EndProgress, GotoProgress DEF findAPIServiceBinding, Steps
  <1>13. CASE createAPIServiceBinding(s)
    BY <1>13, EndProgress DEF createAPIServiceBinding
  <1>14. CASE CommandFails(s)
    BY <1>14, EndProgress DEF CommandFails
  <1> QED
    BY <1>1, <1>2, <1>3, <1>4, <1>5, <1>6, <1>7, <1>8, <1>9, <1>10, <1>11, <1>12, <1>13, <1>14 DEF Continue

\* The pages by name.
LEMMA PageNames ==
    /\ Ensured = {"ClusterBinding", "ServiceAccount"}
    /\ Get["ClusterBinding"] = "get ClusterBinding" /\ Get["ServiceAccount"] = "get ServiceAccount"
    /\ Create["ClusterBinding"] = "create ClusterBinding"
    /\ Create["ServiceAccount"] = "create ServiceAccount"
    /\ Pages = {"none", "page", "namespace", "token", "kubeconfig", "redirect", "over",
                "get ClusterBinding", "get ServiceAccount",
                "create ClusterBinding", "create ServiceAccount"}
  <1>1. /\ Ensured = {"ClusterBinding", "ServiceAccount"}
        /\ Get["ClusterBinding"] = "get ClusterBinding" /\ Get["ServiceAccount"] = "get ServiceAccount"
        /\ Create["ClusterBinding"] = "create ClusterBinding"
        /\ Create["ServiceAccount"] = "create ServiceAccount"
    BY DEF Ensured, Get, Create
  <1> QED
    BY <1>1 DEF Pages

\* A response that the callback server of a command takes.
LEMMA CallbackResponse ==
    ASSUME TypeOK, NEW s \in Sessions, callback(s)
    PROVE  /\ target[s] \in Names
           /\ cmd' \in [Sessions -> Command]
           /\ \A t \in Sessions :
                 /\ cmd'[t].step = cmd[t].step /\ cmd'[t].remote = cmd[t].remote
                 /\ cmd'[t].found = cmd[t].found
                 /\ \/ cmd'[t].mail = cmd[t].mail
                    \/ cmd'[t].mail = [session |-> s, namespace |-> target[s]]
  <1> DEFINE response == [session |-> s, namespace |-> target[s]]
             listening(t) == At(t, "waiting") /\ cmd[t].port = cmd[s].port /\ cmd[t].mail = None
             c(t) == [cmd[t] EXCEPT !.mail = response]
  <1>1. target[s] \in Names
    BY DEF callback, TypeOK
  <1>2. response \in Response
    BY <1>1 DEF Response
  <1> HIDE DEF response
  <1>3. \A t \in Sessions : /\ c(t) \in Command /\ c(t).step = cmd[t].step /\ c(t).port = cmd[t].port
                            /\ c(t).remote = cmd[t].remote /\ c(t).found = cmd[t].found
                            /\ c(t).mail = response
    BY <1>2 DEF TypeOK, Command
  <1>4. cmd' = [t \in Sessions |-> IF listening(t) THEN c(t) ELSE cmd[t]]
    BY DEF callback, response
  <1> HIDE DEF c, listening
  <1>5. cmd' \in [Sessions -> Command]
    BY <1>3, <1>4 DEF TypeOK
  <1>6. ASSUME NEW t \in Sessions
        PROVE  /\ cmd'[t].step = cmd[t].step /\ cmd'[t].remote = cmd[t].remote
               /\ cmd'[t].found = cmd[t].found
               /\ cmd'[t].mail = cmd[t].mail \/ cmd'[t].mail = response
    BY <1>3, <1>4
  <1> QED
    BY <1>1, <1>5, <1>6 DEF response

Knows(s) == target[s] = None <=> web[s] \in {"none", "page", "namespace", "over"}

\* What the browser of a session does: it changes nothing of the other sessions.
Browses(s) ==
    /\ web' \in [Sessions -> Pages]
    /\ target' \in [Sessions -> Names \cup {None}]
    /\ made' \in [Names -> SUBSET Objects]
    /\ \A t \in Sessions \ {s} : web'[t] = web[t] /\ target'[t] = target[t]
    /\ Knows(s)'
    /\ UNCHANGED <<consumer, index, request>>
    /\ ops' \in 0..MaxOps

LEMMA InterveneType ==
    ASSUME TypeOK, Intervene
    PROVE  ops' \in 0..MaxOps
    BY HandshakeAssumption DEF TypeOK, Intervene

LEMMA MakeAdds ==
    ASSUME TypeOK, NEW n \in Names, NEW object \in Objects, Make(n, object)
    PROVE  /\ made' \in [Names -> SUBSET Objects]
           /\ \A x \in Names : made[x] \subseteq made'[x]
           /\ object \in made'[n]
    BY DEF TypeOK, Make

LEMMA Moves ==
    ASSUME TypeOK, NEW s \in Sessions, NEW page \in Pages, NEW n \in Names \cup {None},
           n = None <=> page \in {"none", "page", "namespace", "over"},
           Show(s, page), target' = [target EXCEPT ![s] = n]
    PROVE  /\ web' \in [Sessions -> Pages] /\ target' \in [Sessions -> Names \cup {None}]
           /\ \A t \in Sessions \ {s} : web'[t] = web[t] /\ target'[t] = target[t]
           /\ web'[s] = page /\ target'[s] = n
           /\ Knows(s)'
    BY DEF TypeOK, Show, Knows

LEMMA BrowserType ==
    ASSUME TypeOK, NEW s \in Sessions, Browser(s)
    PROVE  Browses(s)
  <1> USE PageNames, HandshakeAssumption DEF TypeOK, Show, Leave, Knows, Browses
  <1>1. CASE OpenPage(s)
    BY <1>1 DEF OpenPage
  <1>2. CASE HandleResources(s)
    <2>1. CASE index = {} /\ Show(s, "namespace") /\ UNCHANGED target
        BY <1>2, <2>1 DEF HandleResources
    <2>2. ASSUME NEW n \in index, target' = [target EXCEPT ![s] = n], Show(s, Get.ClusterBinding)
          PROVE  Browses(s)
        <3>1. n \in Names /\ n # None /\ Get.ClusterBinding = "get ClusterBinding"
            BY DEF Get
        <3>2. UNCHANGED <<cmd, consumer, made, index, request, ops>>
            BY <1>2 DEF HandleResources
        <3> QED
            BY <2>2, <3>1, <3>2, Moves
    <2> QED
        BY <1>2, <2>1, <2>2 DEF HandleResources
  <1>3. CASE CreateNamespace(s)
    <2>1. PICK n \in Names : Make(n, "namespace") /\ target' = [target EXCEPT ![s] = n]
        BY <1>3 DEF CreateNamespace
    <2>2. n # None /\ Get.ClusterBinding = "get ClusterBinding" /\ "namespace" \in Objects
        BY DEF Get, Objects
    <2>3. Show(s, Get.ClusterBinding) /\ UNCHANGED <<cmd, consumer, index, request, ops>>
        BY <1>3 DEF CreateNamespace
    <2> QED
        BY <2>1, <2>2, <2>3, Moves, MakeAdds
  <1>4. ASSUME NEW object \in Ensured, GetObject(s, object) PROVE Browses(s)
    BY <1>4 DEF GetObject, After
  <1>5. ASSUME NEW object \in Ensured, CreateObject(s, object) PROVE Browses(s)
    <2>1. /\ target[s] \in Names /\ object \in Objects /\ Make(target[s], object)
          /\ UNCHANGED <<cmd, consumer, index, request, ops>>
        BY <1>5 DEF CreateObject, Objects
    <2>2. made' \in [Names -> SUBSET Objects]
        BY <2>1, MakeAdds
    <2>3. CASE Leave(s)
        BY <2>1, <2>2, <2>3
    <2>4. CASE Show(s, After(object)) /\ UNCHANGED target
        <3>1. After(object) \in {"get ServiceAccount", "token"}
            BY DEF After
        <3> HIDE DEF After
        <3> QED
            BY <2>1, <2>2, <2>4, <3>1
    <2> QED
        BY <1>5, <2>3, <2>4 DEF CreateObject
  <1>6. CASE WaitForToken(s)
    BY <1>6 DEF WaitForToken
  <1>7. CASE GenerateKubeconfig(s)
    BY <1>7 DEF GenerateKubeconfig, Make, Objects
  <1>8. CASE callback(s)
    BY <1>8 DEF callback
  <1>9. CASE ReturnToPage(s)
    <2>1. ops' \in 0..MaxOps
        BY <1>9, InterveneType DEF ReturnToPage
    <2>2. /\ Show(s, "page") /\ target' = [target EXCEPT ![s] = None]
          /\ UNCHANGED <<cmd, consumer, made, index, request>>
        BY <1>9 DEF ReturnToPage
    <2> QED
        BY <2>1, <2>2, Moves
  <1> QED
    BY <1>1, <1>2, <1>3, <1>4, <1>5, <1>6, <1>7, <1>8, <1>9 DEF Browser

LEMMA InitType == Init => TypeOK
  <1> SUFFICES ASSUME Init PROVE TypeOK
    OBVIOUS
  <1>1. cmd \in [Sessions -> Command]
    BY DEF Init, Command, Steps
  <1>2. ops \in 0..MaxOps
    BY HandshakeAssumption DEF Init
  <1>3. kb \in BOOLEAN /\ konnector \in BOOLEAN
    BY DEF Init
  <1>4. /\ secret \in [Names -> Names \cup {None}] /\ binding \in Names \cup {None}
        /\ web \in [Sessions -> Pages] /\ target \in [Sessions -> Names \cup {None}]
        /\ \A s \in Sessions : target[s] = None <=> web[s] \in {"none", "page", "namespace", "over"}
        /\ made \in [Names -> SUBSET Objects] /\ index \subseteq Names
        /\ request \in [Sessions -> {"none", "pending", "succeeded", "failed"}]
    BY PageNames DEF Init
  <1> QED
    BY <1>1, <1>2, <1>3, <1>4, Zenon DEF TypeOK

\* What a step of a command does to the consumer cluster and to its request.
LEMMA CommandType ==
    ASSUME TypeOK, NEW s \in Sessions, getProvider(s) \/ Continue(s) \/ CommandFails(s)
    PROVE  /\ kb' \in BOOLEAN /\ konnector' \in BOOLEAN
           /\ secret' \in [Names -> Names \cup {None}]
           /\ binding' \in Names \cup {None}
           /\ request' \in [Sessions -> {"none", "pending", "succeeded", "failed"}]
           /\ ops' \in 0..MaxOps
  <1>0. /\ cmd[s].remote \in Names \cup {None} /\ cmd[s].found \in Names \cup {None}
        /\ kb \in BOOLEAN /\ konnector \in BOOLEAN
        /\ secret \in [Names -> Names \cup {None}] /\ binding \in Names \cup {None}
        /\ request \in [Sessions -> {"none", "pending", "succeeded", "failed"}]
        /\ ops \in 0..MaxOps
    BY DEF TypeOK, Command
  <1>1. CASE getProvider(s)
    BY <1>0, <1>1 DEF getProvider
  <1>2. CASE createNamespace(s)
    <2>1. kb' \in BOOLEAN /\ UNCHANGED <<secret, konnector, binding, request, ops>>
        BY <1>2 DEF createNamespace
    <2> QED
        BY <1>0, <2>1
  <1>3. CASE WaitForResponse(s)
    BY <1>0, <1>3 DEF WaitForResponse
  <1>4. CASE Find(s)
    BY <1>0, <1>4 DEF Find
  <1>5. CASE EnsureKubeconfigSecret(s)
    <2>1. /\ secret' = [secret EXCEPT ![s] = cmd[s].remote] \/ secret' = secret
          /\ UNCHANGED <<kb, konnector, binding, provider, request, ops>>
        BY <1>5 DEF EnsureKubeconfigSecret
    <2> QED
        BY <1>0, <2>1
  <1>6. CASE getRemoteKubeconfig(s)
    BY <1>0, <1>6 DEF getRemoteKubeconfig
  <1>7. CASE createServiceExportRequest(s)
    <2>1. /\ request' = [request EXCEPT ![s] = "pending"] \/ request' = request
          /\ UNCHANGED <<consumer, provider, ops>>
        BY <1>7 DEF createServiceExportRequest
    <2> QED
        BY <1>0, <2>1
  <1>8. CASE WaitForRequest(s)
    BY <1>0, <1>8 DEF WaitForRequest
  <1>9. CASE deployKonnector(s)
    <2>1. konnector' \in BOOLEAN /\ UNCHANGED <<kb, secret, binding, request, ops>>
        BY <1>0, <1>9 DEF deployKonnector
    <2> QED
        BY <1>0, <2>1
  <1>10. CASE WaitForKonnector(s)
    <2>1. UNCHANGED <<consumer, request, ops>>
        BY <1>10 DEF WaitForKonnector
    <2> QED
        BY <1>0, <2>1
  <1>11. CASE createKubeconfigSecret(s)
    <2>1. /\ secret' = [secret EXCEPT ![s] = cmd[s].remote]
          /\ UNCHANGED <<kb, konnector, binding, request, ops>>
        BY <1>11 DEF createKubeconfigSecret
    <2> QED
        BY <1>0, <2>1
  <1>12. CASE findAPIServiceBinding(s)
    BY <1>0, <1>12 DEF findAPIServiceBinding
  <1>13. CASE createAPIServiceBinding(s)
    <2>1. binding' \in {cmd[s].found, binding} /\ UNCHANGED <<kb, secret, konnector, request, ops>>
        BY <1>13 DEF createAPIServiceBinding
    <2> QED
        BY <1>0, <2>1
  <1>14. CASE CommandFails(s)
    BY <1>0, <1>14, InterveneType DEF CommandFails
  <1> QED
    BY <1>1, <1>2, <1>3, <1>4, <1>5, <1>6, <1>7, <1>8, <1>9, <1>10, <1>11, <1>12, <1>13, <1>14 DEF Continue

\* What the provider's controllers do.
LEMMA ProviderStep ==
    ASSUME TypeOK, NEW n \in Names, Provider(n)
    PROVE  /\ made' \in [Names -> SUBSET Objects]
           /\ \A x \in Names : made[x] \subseteq made'[x]
           /\ index' \subseteq Names
           /\ \A x \in index' : x \in index \/ "namespace" \in made[x]
           /\ UNCHANGED <<cmd, consumer, web, target, request, ops>>
  <1>1. CASE FillToken(n)
    <2>1. Make(n, "token") /\ "token" \in Objects /\ UNCHANGED <<cmd, consumer, web, target, index, request, ops>>
        BY <1>1 DEF FillToken, Objects
    <2> QED
        BY <2>1, MakeAdds DEF TypeOK
  <1>2. CASE DeliverNamespace(n)
    BY <1>2 DEF DeliverNamespace, TypeOK
  <1>3. CASE ensureRBACRoleBinding(n)
    <2>1. /\ Make(n, "RoleBinding") /\ "RoleBinding" \in Objects
          /\ UNCHANGED <<cmd, consumer, web, target, index, request, ops>>
        BY <1>3 DEF ensureRBACRoleBinding, Objects
    <2> QED
        BY <2>1, MakeAdds DEF TypeOK
  <1> QED
    BY <1>1, <1>2, <1>3 DEF Provider

LEMMA TypeStep ==
    ASSUME TypeOK, [Next]_vars
    PROVE  TypeOK'
  <1>1. ASSUME NEW s \in Sessions, getProvider(s) \/ Continue(s) \/ CommandFails(s)
        PROVE  TypeOK'
    <2>1. cmd' \in [Sessions -> Command] /\ UNCHANGED provider
        BY <1>1, CommandProgress DEF Progress
    <2> QED
        BY <1>1, <2>1, CommandType DEF TypeOK
  <1>2. ASSUME NEW s \in Sessions, Browser(s)
        PROVE  TypeOK'
    <2>1. Browses(s)
        BY <1>2, BrowserType
    <2>2. cmd' \in [Sessions -> Command]
        <3>1. CASE callback(s)
            BY <3>1, CallbackResponse
        <3>2. CASE ~callback(s)
            <4>1. cmd' = cmd
                BY <1>2, <3>2 DEF Browser, OpenPage, HandleResources, CreateNamespace, GetObject,
                                  CreateObject, WaitForToken, GenerateKubeconfig, ReturnToPage
            <4> QED
                BY <4>1 DEF TypeOK
        <3> QED
            BY <3>1, <3>2
    <2>3. \A t \in Sessions : Knows(t)'
        BY <2>1 DEF Browses, Knows, TypeOK
    <2>4. UNCHANGED <<kb, konnector, secret, binding, index, request>>
        BY <2>1 DEF Browses
    <2>5. /\ web' \in [Sessions -> Pages] /\ target' \in [Sessions -> Names \cup {None}]
          /\ made' \in [Names -> SUBSET Objects] /\ ops' \in 0..MaxOps
        BY <2>1 DEF Browses
    <2> QED
        BY <2>2, <2>3, <2>4, <2>5 DEF TypeOK, Knows
  <1>3. ASSUME NEW s \in Sessions, AnswerRequest(s)
        PROVE  TypeOK'
    <2>1. /\ UNCHANGED <<cmd, consumer, provider, ops>>
          /\ \E answer \in {"succeeded", "failed"} : request' = [request EXCEPT ![s] = answer]
        BY <1>3 DEF AnswerRequest
    <2> QED
        BY <2>1 DEF TypeOK
  <1>4. ASSUME NEW n \in Names, Provider(n)
        PROVE  TypeOK'
    BY <1>4, ProviderStep DEF TypeOK
  <1>5. ASSUME NEW x \in Names, UserDeletesSecret(x)
        PROVE  TypeOK'
    <2>1. secret' = [secret EXCEPT ![x] = None] /\ UNCHANGED <<cmd, kb, konnector, binding, provider, request>>
        BY <1>5 DEF UserDeletesSecret
    <2>2. ops' \in 0..MaxOps
        BY <1>5, InterveneType DEF UserDeletesSecret
    <2> QED
        BY <2>1, <2>2 DEF TypeOK
  <1>6. CASE UNCHANGED vars
    BY <1>6 DEF vars, TypeOK
  <1> QED
    BY <1>1, <1>2, <1>3, <1>4, <1>5, <1>6 DEF Next

\* Commands, pages, objects and Secrets are of their types, and a request to the backend's
\* last page knows the namespace it makes objects in (http/handler.go, handleBind).
THEOREM TypeCorrect == Spec => []TypeOK
  <1>1. Init => TypeOK
    BY InitType
  <1>2. TypeOK /\ [Next]_vars => TypeOK'
    BY TypeStep
  <1> QED
    BY <1>1, <1>2, PTL DEF Spec

-----------------------------------------------------------------------------
(* A kubeconfig leads to a complete namespace.                             *)

\* What there is in the namespace of a request that has got to a page or a step.
Passed(page) ==
    CASE page \in {"get ClusterBinding", "create ClusterBinding"} -> {"namespace"}
      [] page \in {"get ServiceAccount", "create ServiceAccount"} -> {"namespace", "ClusterBinding"}
      [] page = "token" -> {"namespace", "ClusterBinding", "ServiceAccount"}
      [] page = "kubeconfig" -> {"namespace", "ClusterBinding", "ServiceAccount", "token"}
      [] page = "redirect" -> Complete
      [] OTHER -> {}

IndexedExist == \A n \in index : "namespace" \in made[n]
RequestsPassed == \A s \in Sessions : target[s] # None => Passed(web[s]) \subseteq made[target[s]]
ResponsesAreComplete ==
    \A s \in Sessions : cmd[s].mail # None => Complete \subseteq made[cmd[s].mail.namespace]

\* The invariant: what was handed out is complete because a response is, a response because
\* the request that sends it has passed every step, and nothing is ever taken away.
CompleteInv == TypeOK /\ IndexedExist /\ RequestsPassed /\ ResponsesAreComplete /\ HandedOutIsComplete

LEMMA PassedPages ==
    /\ Passed("get ClusterBinding") = {"namespace"} /\ Passed("create ClusterBinding") = {"namespace"}
    /\ Passed("get ServiceAccount") = {"namespace", "ClusterBinding"}
    /\ Passed("create ServiceAccount") = {"namespace", "ClusterBinding"}
    /\ Passed("token") = {"namespace", "ClusterBinding", "ServiceAccount"}
    /\ Passed("kubeconfig") = {"namespace", "ClusterBinding", "ServiceAccount", "token"}
    /\ Passed("redirect") = {"namespace", "ClusterBinding", "ServiceAccount", "token", "kubeconfig"}
    /\ Complete = {"namespace", "ClusterBinding", "ServiceAccount", "token", "kubeconfig"}
    BY DEF Passed, Complete, Objects

\* The request that makes the objects finds or makes what the next step needs.
Advances(s) ==
    /\ \A x \in Names : made[x] \subseteq made'[x]
    /\ target'[s] # None => Passed(web'[s]) \subseteq made'[target'[s]]

LEMMA TargetKnown ==
    ASSUME TypeOK, NEW s \in Sessions, web[s] \notin {"none", "page", "namespace", "over"}
    PROVE  target[s] \in Names /\ target[s] # None
    BY DEF TypeOK

LEMMA RequestAdvances ==
    ASSUME CompleteInv, NEW s \in Sessions, Browser(s)
    PROVE  Advances(s)
  <1> USE PageNames, PassedPages DEF Advances
  <1>0. Browses(s) /\ TypeOK
    BY BrowserType DEF CompleteInv
  <1>1. CASE OpenPage(s)
    BY <1>0, <1>1 DEF OpenPage, Show, Browses, Knows, TypeOK
  <1>2. CASE HandleResources(s)
    <2>1. CASE index = {} /\ Show(s, "namespace") /\ UNCHANGED target
        BY <1>0, <1>2, <2>1 DEF HandleResources, Show, Browses, Knows, TypeOK
    <2>2. ASSUME NEW n \in index, target' = [target EXCEPT ![s] = n], Show(s, Get.ClusterBinding)
          PROVE  Advances(s)
        <3>1. target'[s] = n /\ web'[s] = "get ClusterBinding" /\ made' = made
            BY <1>0, <1>2, <2>2 DEF TypeOK, Show, Get, HandleResources
        <3>2. "namespace" \in made[n]
            BY DEF CompleteInv, IndexedExist
        <3> QED
            BY <3>1, <3>2
    <2> QED
        BY <1>2, <2>1, <2>2 DEF HandleResources
  <1>3. CASE CreateNamespace(s)
    <2>1. PICK n \in Names : Make(n, "namespace") /\ target' = [target EXCEPT ![s] = n]
        BY <1>3 DEF CreateNamespace
    <2>2. target'[s] = n /\ web'[s] = "get ClusterBinding" /\ "namespace" \in Objects
        BY <1>0, <1>3, <2>1 DEF TypeOK, Show, Get, CreateNamespace, Objects
    <2> QED
        BY <1>0, <2>1, <2>2, MakeAdds
  <1>4. ASSUME NEW object \in Ensured, GetObject(s, object)
        PROVE  Advances(s)
    <2>1. /\ target' = target /\ made' = made
          /\ web'[s] = IF object \in made[target[s]] THEN After(object) ELSE Create[object]
          /\ target[s] # None
        BY <1>0, <1>4 DEF TypeOK, Show, GetObject
    <2>2. Passed(web[s]) \subseteq made[target[s]] /\ web[s] = Get[object]
        BY <1>4, <2>1 DEF CompleteInv, RequestsPassed, GetObject
    <2> QED
        BY <2>1, <2>2 DEF After, Get
  <1>5. ASSUME NEW object \in Ensured, CreateObject(s, object)
        PROVE  Advances(s)
    <2>0. Make(target[s], object) /\ web[s] = Create[object] /\ object \in Objects
        BY <1>5 DEF CreateObject, Objects
    <2>1. /\ target[s] \in Names /\ object \in Objects /\ Make(target[s], object)
          /\ web[s] = Create[object]
        BY <1>0, <2>0, TargetKnown
    <2>2. object \in made'[target[s]] /\ \A x \in Names : made[x] \subseteq made'[x]
        BY <1>0, <2>1, MakeAdds
    <2>3. CASE Leave(s)
        BY <1>0, <2>2, <2>3 DEF Leave, TypeOK
    <2>4. CASE Show(s, After(object)) /\ UNCHANGED target
        <3>1. web'[s] = After(object) /\ target'[s] = target[s] /\ target[s] # None
            BY <1>0, <2>1, <2>4, HandshakeAssumption DEF Show, TypeOK
        <3>2. Passed(web[s]) \subseteq made[target[s]]
            BY <3>1 DEF CompleteInv, RequestsPassed
        <3> QED
            BY <2>1, <2>2, <3>1, <3>2 DEF After, Get, Create
    <2> QED
        BY <1>5, <2>3, <2>4 DEF CreateObject
  <1>6. CASE WaitForToken(s)
    <2>1. made' = made
        BY <1>6 DEF WaitForToken
    <2>2. CASE Leave(s)
        <3>1. target'[s] = None
            BY <1>0, <2>2 DEF Leave, TypeOK
        <3> QED
            BY <2>1, <3>1
    <2>3. CASE "token" \in made[target[s]] /\ Show(s, "kubeconfig") /\ UNCHANGED target
        <3>1. web'[s] = "kubeconfig" /\ web[s] = "token" /\ target[s] # None
            BY <1>0, <1>6, <2>3 DEF Show, TypeOK, WaitForToken
        <3>2. Passed("token") \subseteq made[target[s]]
            BY <3>1 DEF CompleteInv, RequestsPassed
        <3> QED
            BY <2>1, <2>3, <3>1, <3>2
    <2> QED
        BY <1>6, <2>2, <2>3 DEF WaitForToken
  <1>7. CASE GenerateKubeconfig(s)
    <2>0. /\ Make(target[s], "kubeconfig") /\ "kubeconfig" \in Objects /\ target' = target
          /\ Show(s, "redirect") /\ web[s] = "kubeconfig"
        BY <1>7 DEF GenerateKubeconfig, Objects
    <2>1. /\ Make(target[s], "kubeconfig") /\ "kubeconfig" \in Objects /\ target' = target
          /\ web'[s] = "redirect" /\ web[s] = "kubeconfig" /\ target[s] \in Names /\ target[s] # None
        <3>1. target[s] \in Names /\ target[s] # None
            BY <1>0, <2>0, TargetKnown
        <3> QED
            BY <1>0, <2>0, <3>1 DEF Show, TypeOK
    <2>2. Passed("kubeconfig") \subseteq made[target[s]]
        BY <2>1 DEF CompleteInv, RequestsPassed
    <2>3. "kubeconfig" \in made'[target[s]] /\ \A x \in Names : made[x] \subseteq made'[x]
        BY <1>0, <2>1, MakeAdds
    <2> QED
        BY <2>1, <2>2, <2>3
  <1>8. CASE callback(s)
    <2>1. target'[s] = None /\ made' = made
        BY <1>0, <1>8 DEF callback, Leave, TypeOK
    <2> QED
        BY <2>1
  <1>9. CASE ReturnToPage(s)
    <2>1. target'[s] = None /\ made' = made
        BY <1>0, <1>9 DEF ReturnToPage, TypeOK
    <2> QED
        BY <2>1
  <1> QED
    BY <1>1, <1>2, <1>3, <1>4, <1>5, <1>6, <1>7, <1>8, <1>9 DEF Browser

LEMMA InitComplete == Init => CompleteInv
    BY InitType DEF CompleteInv, Init, IndexedExist, RequestsPassed, ResponsesAreComplete, HandedOutIsComplete

LEMMA CompleteStep ==
    ASSUME CompleteInv, [Next]_vars
    PROVE  CompleteInv'
  <1> USE DEF CompleteInv
  <1>0. TypeOK'
    BY TypeStep
  <1>1. ASSUME NEW s \in Sessions, getProvider(s) \/ Continue(s) \/ CommandFails(s)
        PROVE  CompleteInv'
    <2>1. Progress(s) /\ UNCHANGED provider
        BY <1>1, CommandProgress
    <2>2. IndexedExist' /\ RequestsPassed'
        BY <2>1 DEF IndexedExist, RequestsPassed
    <2>3. ResponsesAreComplete' /\ HandedOutIsComplete'
        BY <2>1 DEF Progress, ResponsesAreComplete, HandedOutIsComplete
    <2> QED
        BY <1>0, <2>2, <2>3
  <1>2. ASSUME NEW s \in Sessions, Browser(s)
        PROVE  CompleteInv'
    <2>1. Browses(s)
        BY <1>2, BrowserType
    <2>2. /\ \A x \in Names : made[x] \subseteq made'[x]
          /\ target'[s] # None => Passed(web'[s]) \subseteq made'[target'[s]]
        BY <1>2, RequestAdvances DEF Advances
    <2>3. IndexedExist'
        BY <2>1, <2>2 DEF IndexedExist, Browses, TypeOK
    <2>4. RequestsPassed'
        BY <2>1, <2>2 DEF RequestsPassed, Browses, TypeOK
    <2>5. CASE callback(s)
        <3>0. web[s] = "redirect" /\ made' = made
            BY <2>5 DEF callback
        <3>1. target[s] \in Names /\ Complete \subseteq made[target[s]]
            BY <3>0, TargetKnown, PassedPages DEF RequestsPassed
        <3>2. ASSUME NEW t \in Sessions, cmd'[t].mail # None
              PROVE  Complete \subseteq made[cmd'[t].mail.namespace]
            <4>1. cmd'[t].mail = cmd[t].mail \/ cmd'[t].mail = [session |-> s, namespace |-> target[s]]
                BY <2>5, CallbackResponse
            <4> QED
                BY <3>1, <3>2, <4>1 DEF ResponsesAreComplete
        <3>3. \A t \in Sessions : cmd'[t].remote = cmd[t].remote
            BY <2>5, CallbackResponse
        <3>4. ResponsesAreComplete' /\ HandedOutIsComplete'
            BY <3>0, <3>2, <3>3 DEF ResponsesAreComplete, HandedOutIsComplete
        <3> QED
            BY <1>0, <2>3, <2>4, <3>4
    <2>6. CASE ~callback(s)
        <3>1. cmd' = cmd
            BY <1>2, <2>6 DEF Browser, OpenPage, HandleResources, CreateNamespace, GetObject,
                              CreateObject, WaitForToken, GenerateKubeconfig, ReturnToPage
        <3>2. \A t \in Sessions : /\ cmd[t].mail # None => cmd[t].mail.namespace \in Names
                                  /\ cmd[t].remote # None => cmd[t].remote \in Names
            BY DEF TypeOK, Command, Response
        <3>3. ResponsesAreComplete' /\ HandedOutIsComplete'
            BY <2>2, <3>1, <3>2 DEF ResponsesAreComplete, HandedOutIsComplete
        <3> QED
            BY <1>0, <2>3, <2>4, <3>3
    <2> QED
        BY <2>5, <2>6
  <1>3. ASSUME NEW s \in Sessions, AnswerRequest(s)
        PROVE  CompleteInv'
    <2>1. UNCHANGED <<cmd, web, target, made, index>>
        BY <1>3 DEF AnswerRequest
    <2> QED
        BY <1>0, <2>1 DEF IndexedExist, RequestsPassed, ResponsesAreComplete, HandedOutIsComplete
  <1>4. ASSUME NEW n \in Names, Provider(n)
        PROVE  CompleteInv'
    <2>1. /\ \A x \in Names : made[x] \subseteq made'[x]
          /\ index' \subseteq Names /\ \A x \in index' : x \in index \/ "namespace" \in made[x]
          /\ UNCHANGED <<cmd, web, target>>
        BY <1>4, ProviderStep
    <2>2. IndexedExist' /\ RequestsPassed'
        BY <2>1 DEF IndexedExist, RequestsPassed, TypeOK
    <2>3. \A t \in Sessions : /\ cmd[t].mail # None => cmd[t].mail.namespace \in Names
                              /\ cmd[t].remote # None => cmd[t].remote \in Names
        BY DEF TypeOK, Command, Response
    <2>4. ResponsesAreComplete' /\ HandedOutIsComplete'
        BY <2>1, <2>3 DEF ResponsesAreComplete, HandedOutIsComplete
    <2> QED
        BY <1>0, <2>2, <2>4
  <1>5. ASSUME NEW x \in Names, UserDeletesSecret(x)
        PROVE  CompleteInv'
    <2>1. UNCHANGED <<cmd, web, target, made, index>>
        BY <1>5 DEF UserDeletesSecret
    <2> QED
        BY <1>0, <2>1 DEF IndexedExist, RequestsPassed, ResponsesAreComplete, HandedOutIsComplete
  <1>6. CASE UNCHANGED vars
    BY <1>0, <1>6 DEF vars, IndexedExist, RequestsPassed, ResponsesAreComplete, HandedOutIsComplete
  <1> QED
    BY <1>1, <1>2, <1>3, <1>4, <1>5, <1>6 DEF Next

\* A kubeconfig that a command works with leads to a namespace that has its ClusterBinding, a
\* ServiceAccount and its token, however many requests of handleBind ran side by side, lost
\* a race for an object or were given up half-way (kubernetes/manager.go, HandleResources).
THEOREM KubeconfigsAreComplete == Spec => []HandedOutIsComplete
  <1>1. Init => CompleteInv
    BY InitComplete
  <1>2. CompleteInv /\ [Next]_vars => CompleteInv'
    BY CompleteStep
  <1>3. CompleteInv => HandedOutIsComplete
    BY DEF CompleteInv
  <1> QED
    BY <1>1, <1>2, <1>3, PTL DEF Spec

-----------------------------------------------------------------------------
(* An APIServiceBinding is for a request that was granted.                 *)

\* A command that has not taken up a response has no namespace, and one that has done so and
\* is not over has one.
RemoteIsOfResponse(s) ==
    /\ cmd[s].step \in {"idle", "started", "waiting"} => cmd[s].remote = None
    /\ cmd[s].step \notin {"idle", "started", "waiting", "failed", "done"} => cmd[s].remote # None

\* A request is of a command that has got so far, and a command that goes on has a granted one.
RequestIsOfStep(s) ==
    /\ request[s] # "none" =>
          cmd[s].step \in {"requested", "deploy", "deployed", "missing", "lookup", "create", "done", "failed"}
    /\ cmd[s].step \in {"deploy", "deployed", "missing", "lookup", "create"} => request[s] = "succeeded"

\* The Secret that a command refers to was made for the namespace of the command.
FoundIsOwn(s) ==
    cmd[s].step \in {"lookup", "create"} =>
        cmd[s].found # None /\ cmd[cmd[s].found].remote = cmd[s].remote

\* A Secret has the kubeconfig of the command it is named after.
SecretIsOfItsCommand(x) == secret[x] # None => secret[x] = cmd[x].remote

\* The binding's Secret was made for a namespace with a granted request, and the command that
\* made it keeps the namespace when the Secret is gone.
BoundIsGranted ==
    binding # None =>
        \E s \in Sessions : /\ request[s] = "succeeded"
                            /\ cmd[s].remote # None /\ cmd[s].remote = cmd[binding].remote

GrantInv ==
    /\ TypeOK
    /\ \A s \in Sessions : RemoteIsOfResponse(s) /\ RequestIsOfStep(s) /\ FoundIsOwn(s)
    /\ \A x \in Names : SecretIsOfItsCommand(x)
    /\ BoundIsGranted

LEMMA InitGrant == Init => GrantInv
    BY InitType DEF GrantInv, Init, RemoteIsOfResponse, RequestIsOfStep, FoundIsOwn,
                    SecretIsOfItsCommand, BoundIsGranted

\* A namespace is kept once a command has one.
LEMMA RemoteKept ==
    ASSUME GrantInv, NEW s \in Sessions, Progress(s), NEW t \in Sessions, cmd[t].remote # None
    PROVE  cmd'[t].remote = cmd[t].remote
    BY DEF GrantInv, RemoteIsOfResponse, Progress, At

\* A step of a command preserves the invariant if it does so for the command itself and its
\* Secret, never takes a grant back, and only binds to what the command has found.
LEMMA OneCommand ==
    ASSUME GrantInv, TypeOK', NEW s \in Sessions, Progress(s),
           \A t \in Sessions \ {s} : request'[t] = request[t],
           request[s] = "succeeded" => request'[s] = "succeeded",
           RemoteIsOfResponse(s)', RequestIsOfStep(s)', FoundIsOwn(s)',
           \A x \in Names : secret'[x] \in {secret[x], None} \/ (x = s /\ secret'[x] = cmd'[x].remote),
           binding' = binding \/ (binding' = cmd[s].found /\ cmd[s].step = "create")
    PROVE  GrantInv'
  <1>1. ASSUME NEW t \in Sessions
        PROVE  RemoteIsOfResponse(t)' /\ RequestIsOfStep(t)'
    BY DEF Progress, GrantInv, RemoteIsOfResponse, RequestIsOfStep
  <1>2. ASSUME NEW t \in Sessions
        PROVE  FoundIsOwn(t)'
    <2>1. CASE t = s
        BY <2>1
    <2>2. CASE t # s
        <3>1. cmd'[t] = cmd[t]
            BY <2>2 DEF Progress
        <3>2. SUFFICES ASSUME cmd[t].step \in {"lookup", "create"}
                       PROVE  cmd[t].found # None /\ cmd'[cmd[t].found].remote = cmd[t].remote
            BY <3>1 DEF FoundIsOwn
        <3>3. /\ cmd[t].found # None /\ cmd[t].found \in Names
              /\ cmd[cmd[t].found].remote = cmd[t].remote /\ cmd[t].remote # None
            <4>1. cmd[t].found \in Names \cup {None}
                BY DEF GrantInv, TypeOK, Command
            <4>2. FoundIsOwn(t) /\ RemoteIsOfResponse(t)
                BY DEF GrantInv
            <4> QED
                BY <3>2, <4>1, <4>2 DEF FoundIsOwn, RemoteIsOfResponse
        <3> QED
            BY <3>3, RemoteKept
    <2> QED
        BY <2>1, <2>2
  <1>3. ASSUME NEW x \in Names
        PROVE  SecretIsOfItsCommand(x)'
    <2>1. secret[x] # None => cmd'[x].remote = secret[x]
        BY RemoteKept DEF GrantInv, SecretIsOfItsCommand
    <2> QED
        BY <2>1 DEF SecretIsOfItsCommand
  <1>4. BoundIsGranted'
    <2> SUFFICES ASSUME binding' # None PROVE BoundIsGranted'
        BY DEF BoundIsGranted
    <2>1. CASE binding' = binding
        <3>1. PICK t \in Sessions : /\ request[t] = "succeeded" /\ cmd[t].remote # None
                                    /\ cmd[t].remote = cmd[binding].remote
            BY <2>1 DEF GrantInv, BoundIsGranted
        <3>2. binding \in Sessions
            BY <2>1 DEF GrantInv, TypeOK
        <3>3. cmd'[t].remote = cmd[t].remote /\ cmd'[binding].remote = cmd[binding].remote
            BY <3>1, <3>2, RemoteKept
        <3>4. request'[t] = "succeeded"
            BY <3>1
        <3> QED
            BY <2>1, <3>1, <3>3, <3>4 DEF BoundIsGranted
    <2>2. CASE binding' = cmd[s].found /\ cmd[s].step = "create"
        <3>1. /\ request[s] = "succeeded" /\ cmd[s].remote # None /\ cmd[s].found \in Sessions
              /\ cmd[cmd[s].found].remote = cmd[s].remote
            BY <2>2 DEF GrantInv, RequestIsOfStep, RemoteIsOfResponse, FoundIsOwn, TypeOK, Command
        <3>2. cmd'[s].remote = cmd[s].remote /\ cmd'[cmd[s].found].remote = cmd[s].remote
            BY <3>1, RemoteKept
        <3> QED
            BY <2>2, <3>1, <3>2 DEF BoundIsGranted
    <2> QED
        BY <2>1, <2>2
  <1> QED
    BY <1>1, <1>2, <1>3, <1>4 DEF GrantInv

\* The end of a command disturbs nothing.
LEMMA EndKeepsGrant ==
    ASSUME GrantInv, TypeOK', NEW s \in Sessions, NEW outcome \in {"done", "failed"},
           End(s, outcome), request' = request,
           \A x \in Names : secret'[x] \in {secret[x], None} \/ (x = s /\ secret'[x] = cmd'[x].remote),
           binding' = binding \/ (binding' = cmd[s].found /\ cmd[s].step = "create")
    PROVE  GrantInv'
  <1>1. TypeOK
    BY DEF GrantInv
  <1>2. Progress(s) /\ cmd'[s].step \in {"done", "failed"}
    BY <1>1, EndProgress
  <1>3. RemoteIsOfResponse(s)' /\ RequestIsOfStep(s)' /\ FoundIsOwn(s)'
    BY <1>2 DEF RemoteIsOfResponse, RequestIsOfStep, FoundIsOwn
  <1> QED
    BY <1>2, <1>3, OneCommand

LEMMA CommandKeepsGrant ==
    ASSUME GrantInv, TypeOK', NEW s \in Sessions, getProvider(s) \/ Continue(s) \/ CommandFails(s)
    PROVE  GrantInv'
  <1>0. /\ TypeOK /\ Progress(s)
        /\ RemoteIsOfResponse(s) /\ RequestIsOfStep(s) /\ FoundIsOwn(s)
        /\ \A x \in Names : SecretIsOfItsCommand(x)
    BY CommandProgress DEF GrantInv
  <1> USE DEF At
  <1>g. ASSUME NEW step \in Steps, Goto(s, step)
        PROVE  /\ cmd'[s].step = step /\ cmd'[s].remote = cmd[s].remote
               /\ cmd'[s].found = cmd[s].found
    BY <1>0, <1>g, GotoProgress
  <1>f. ASSUME NEW step \in Steps, NEW x \in Names \cup {None},
               cmd' = [cmd EXCEPT ![s].step = step, ![s].found = x]
        PROVE  cmd'[s].step = step /\ cmd'[s].remote = cmd[s].remote /\ cmd'[s].found = x
    BY <1>0, <1>f, FindProgress
  <1>h. {"started", "waiting", "accepted", "found", "stored", "request", "requested", "deploy",
         "deployed", "missing", "lookup", "create"} \subseteq Steps
    BY DEF Steps
  \* What is left to show of a step that writes neither Secrets nor the binding.
  <1>l. ASSUME RemoteIsOfResponse(s)', RequestIsOfStep(s)', FoundIsOwn(s)',
               UNCHANGED <<secret, binding, request>>
        PROVE  GrantInv'
    BY <1>0, <1>l, OneCommand
  <1>1. CASE getProvider(s)
    <2>1. At(s, "idle") /\ UNCHANGED <<secret, binding, request>>
        BY <1>1 DEF getProvider
    <2>2. CASE End(s, "failed")
        BY <2>1, <2>2, EndKeepsGrant
    <2>3. ASSUME NEW p \in FreePorts(s),
                 cmd' = [cmd EXCEPT ![s].step = IF kb THEN "waiting" ELSE "started", ![s].port = p]
          PROVE  GrantInv'
        <3>1. p \in Names /\ (IF kb THEN "waiting" ELSE "started") \in {"waiting", "started"}
            BY <1>0 DEF FreePorts, TypeOK, Command
        <3>2. cmd'[s].step \in {"waiting", "started"} /\ cmd'[s].remote = cmd[s].remote
            BY <1>0, <1>h, <2>3, <3>1, StartProgress
        <3>3. RemoteIsOfResponse(s)' /\ RequestIsOfStep(s)' /\ FoundIsOwn(s)'
            BY <1>0, <2>1, <3>2 DEF RemoteIsOfResponse, RequestIsOfStep, FoundIsOwn
        <3> QED
            BY <1>l, <2>1, <3>3
    <2> QED
        BY <1>1, <2>2, <2>3 DEF getProvider
  <1>2. CASE createNamespace(s)
    <2>1. At(s, "started") /\ UNCHANGED <<secret, binding, request>>
        BY <1>2 DEF createNamespace
    <2>2. CASE End(s, "failed")
        BY <2>1, <2>2, EndKeepsGrant
    <2>3. CASE Goto(s, "waiting")
        <3>1. RemoteIsOfResponse(s)' /\ RequestIsOfStep(s)' /\ FoundIsOwn(s)'
            BY <1>0, <1>g, <1>h, <2>1, <2>3 DEF RemoteIsOfResponse, RequestIsOfStep, FoundIsOwn
        <3> QED
            BY <1>l, <2>1, <3>1
    <2> QED
        BY <1>2, <2>2, <2>3 DEF createNamespace
  <1>3. CASE WaitForResponse(s)
    <2>1. At(s, "waiting") /\ UNCHANGED <<secret, binding, request>>
        BY <1>3 DEF WaitForResponse
    <2>2. CASE End(s, "failed")
        BY <2>1, <2>2, EndKeepsGrant
    <2>3. CASE Accept(s)
        <3>1. cmd[s].mail.namespace # None
            BY <1>0, <2>3, HandshakeAssumption DEF Accept, TypeOK, Command, Response
        <3>2. \/ cmd'[s].step = "accepted" /\ cmd'[s].remote # None
              \/ cmd'[s].step = "failed"
            BY <1>0, <2>1, <2>3, <3>1, AcceptProgress
        <3>3. RemoteIsOfResponse(s)' /\ RequestIsOfStep(s)' /\ FoundIsOwn(s)'
            BY <1>0, <2>1, <3>2 DEF RemoteIsOfResponse, RequestIsOfStep, FoundIsOwn
        <3> QED
            BY <1>l, <2>1, <3>3
    <2> QED
        BY <1>3, <2>2, <2>3 DEF WaitForResponse
  <1>4. CASE Find(s)
    <2>1. At(s, "accepted") /\ UNCHANGED <<secret, binding, request>>
        BY <1>4 DEF Find
    <2>2. PICK x \in Names \cup {None} : cmd' = [cmd EXCEPT ![s].step = "found", ![s].found = x]
        BY <1>4 DEF Find, FindRemoteKubeconfig
    <2>3. RemoteIsOfResponse(s)' /\ RequestIsOfStep(s)' /\ FoundIsOwn(s)'
        BY <1>0, <1>f, <1>h, <2>1, <2>2 DEF RemoteIsOfResponse, RequestIsOfStep, FoundIsOwn
    <2> QED
        BY <1>l, <2>1, <2>3
  <1>5. CASE EnsureKubeconfigSecret(s)
    <2> DEFINE name == IF cmd[s].found = None THEN s ELSE cmd[s].found
    <2>1. /\ At(s, "found") /\ UNCHANGED <<binding, request>>
          /\ secret' = secret \/ secret' = [secret EXCEPT ![s] = cmd[s].remote]
          /\ \/ cmd' = [cmd EXCEPT ![s].step = "stored", ![s].found = name]
             \/ End(s, "done") \/ End(s, "failed")
        BY <1>5 DEF EnsureKubeconfigSecret
    <2>2. name \in Names \cup {None}
        BY <1>0 DEF TypeOK, Command
    <2> HIDE DEF name
    <2>3. cmd'[s].remote = cmd[s].remote /\ cmd'[s].step \in {"stored", "done", "failed"}
        BY <1>0, <1>f, <1>h, <2>1, <2>2, EndProgress
    <2>4. \A x \in Names : secret'[x] \in {secret[x], None} \/ (x = s /\ secret'[x] = cmd'[x].remote)
        BY <1>0, <2>1, <2>3 DEF TypeOK
    <2>5. RemoteIsOfResponse(s)' /\ RequestIsOfStep(s)' /\ FoundIsOwn(s)'
        BY <1>0, <2>1, <2>3 DEF RemoteIsOfResponse, RequestIsOfStep, FoundIsOwn
    <2> QED
        BY <1>0, <2>1, <2>4, <2>5, OneCommand
  <1>6. CASE getRemoteKubeconfig(s)
    <2>1. At(s, "stored") /\ UNCHANGED <<secret, binding, request>>
        BY <1>6 DEF getRemoteKubeconfig
    <2>2. CASE End(s, "failed")
        BY <2>1, <2>2, EndKeepsGrant
    <2>3. CASE Goto(s, "request")
        <3>1. RemoteIsOfResponse(s)' /\ RequestIsOfStep(s)' /\ FoundIsOwn(s)'
            BY <1>0, <1>g, <1>h, <2>1, <2>3 DEF RemoteIsOfResponse, RequestIsOfStep, FoundIsOwn
        <3> QED
            BY <1>l, <2>1, <3>1
    <2> QED
        BY <1>6, <2>2, <2>3 DEF getRemoteKubeconfig
  <1>7. CASE createServiceExportRequest(s)
    <2>1. At(s, "request") /\ UNCHANGED <<secret, binding>>
        BY <1>7 DEF createServiceExportRequest
    <2>2. CASE UNCHANGED request /\ End(s, "failed")
        BY <2>1, <2>2, EndKeepsGrant
    <2>3. CASE request' = [request EXCEPT ![s] = "pending"] /\ Goto(s, "requested")
        <3>1. request[s] # "succeeded" /\ \A t \in Sessions \ {s} : request'[t] = request[t]
            BY <1>0, <2>1, <2>3 DEF RequestIsOfStep, TypeOK
        <3>2. RemoteIsOfResponse(s)' /\ RequestIsOfStep(s)' /\ FoundIsOwn(s)'
            BY <1>0, <1>g, <1>h, <2>1, <2>3 DEF RemoteIsOfResponse, RequestIsOfStep, FoundIsOwn
        <3> QED
            BY <1>0, <2>1, <3>1, <3>2, OneCommand
    <2> QED
        BY <1>7, <2>2, <2>3 DEF createServiceExportRequest
  <1>8. CASE WaitForRequest(s)
    <2>1. At(s, "requested") /\ UNCHANGED <<secret, binding, request>>
        BY <1>8 DEF WaitForRequest
    <2>2. CASE End(s, "failed")
        BY <2>1, <2>2, EndKeepsGrant
    <2>3. CASE request[s] = "succeeded" /\ Goto(s, "deploy")
        <3>1. RemoteIsOfResponse(s)' /\ RequestIsOfStep(s)' /\ FoundIsOwn(s)'
            BY <1>0, <1>g, <1>h, <2>1, <2>3 DEF RemoteIsOfResponse, RequestIsOfStep, FoundIsOwn
        <3> QED
            BY <1>l, <2>1, <3>1
    <2> QED
        BY <1>8, <2>2, <2>3 DEF WaitForRequest
  <1>9. CASE deployKonnector(s)
    <2>1. At(s, "deploy") /\ Goto(s, "deployed") /\ UNCHANGED <<secret, binding, request>>
        BY <1>9 DEF deployKonnector
    <2>2. RemoteIsOfResponse(s)' /\ RequestIsOfStep(s)' /\ FoundIsOwn(s)'
        BY <1>0, <1>g, <1>h, <2>1 DEF RemoteIsOfResponse, RequestIsOfStep, FoundIsOwn
    <2> QED
        BY <1>l, <2>1, <2>2
  <1>10. CASE WaitForKonnector(s)
    <2>1. At(s, "deployed") /\ UNCHANGED <<secret, binding, request>>
        BY <1>10 DEF WaitForKonnector
    <2>2. CASE Goto(s, "missing")
        <3>1. RemoteIsOfResponse(s)' /\ RequestIsOfStep(s)' /\ FoundIsOwn(s)'
            BY <1>0, <1>g, <1>h, <2>1, <2>2 DEF RemoteIsOfResponse, RequestIsOfStep, FoundIsOwn
        <3> QED
            BY <1>l, <2>1, <3>1
    <2>3. ASSUME NEW x \in Names, secret[x] = cmd[s].remote,
                 cmd' = [cmd EXCEPT ![s].step = "lookup", ![s].found = x]
          PROVE  GrantInv'
        <3>1. cmd[s].remote # None /\ cmd[x].remote = cmd[s].remote /\ x # None
            BY <1>0, <2>1, <2>3, HandshakeAssumption DEF RemoteIsOfResponse, SecretIsOfItsCommand
        <3>2. cmd'[s].step = "lookup" /\ cmd'[s].found = x /\ cmd'[s].remote = cmd[s].remote
            BY <1>f, <1>h, <2>3
        <3>3. cmd'[x].remote = cmd[x].remote
            BY <1>0, <3>1, RemoteKept
        <3>4. RemoteIsOfResponse(s)' /\ RequestIsOfStep(s)' /\ FoundIsOwn(s)'
            BY <1>0, <2>1, <3>1, <3>2, <3>3 DEF RemoteIsOfResponse, RequestIsOfStep, FoundIsOwn
        <3> QED
            BY <1>l, <2>1, <3>4
    <2> QED
        BY <1>10, <2>2, <2>3 DEF WaitForKonnector, FindRemoteKubeconfig
  <1>11. CASE createKubeconfigSecret(s)
    <2>1. /\ At(s, "missing") /\ UNCHANGED <<binding, request>>
          /\ secret' = [secret EXCEPT ![s] = cmd[s].remote]
          /\ cmd' = [cmd EXCEPT ![s].step = "lookup", ![s].found = s]
        BY <1>11 DEF createKubeconfigSecret
    <2>2. cmd'[s].step = "lookup" /\ cmd'[s].found = s /\ cmd'[s].remote = cmd[s].remote
        BY <1>f, <1>h, <2>1
    <2>3. \A x \in Names : secret'[x] \in {secret[x], None} \/ (x = s /\ secret'[x] = cmd'[x].remote)
        BY <1>0, <2>1, <2>2 DEF TypeOK
    <2>4. RemoteIsOfResponse(s)' /\ RequestIsOfStep(s)' /\ FoundIsOwn(s)'
        BY <1>0, <2>1, <2>2, HandshakeAssumption DEF RemoteIsOfResponse, RequestIsOfStep, FoundIsOwn
    <2> QED
        BY <1>0, <2>1, <2>3, <2>4, OneCommand
  <1>12. CASE findAPIServiceBinding(s)
    <2>1. At(s, "lookup") /\ UNCHANGED <<secret, binding, request>>
        BY <1>12 DEF findAPIServiceBinding
    <2>2. CASE End(s, "failed") \/ End(s, "done")
        BY <2>1, <2>2, EndKeepsGrant
    <2>3. CASE Goto(s, "create")
        <3>1. cmd'[s].step = "create" /\ cmd'[s].found = cmd[s].found /\ cmd'[s].remote = cmd[s].remote
            BY <1>g, <1>h, <2>3
        <3>2. cmd[s].remote # None /\ cmd[s].found \in Names /\ cmd[cmd[s].found].remote = cmd[s].remote
            BY <1>0, <2>1 DEF RemoteIsOfResponse, FoundIsOwn, TypeOK, Command
        <3>3. cmd'[cmd[s].found].remote = cmd[s].remote
            BY <1>0, <3>2, RemoteKept
        <3>4. RemoteIsOfResponse(s)' /\ RequestIsOfStep(s)' /\ FoundIsOwn(s)'
            BY <1>0, <2>1, <3>1, <3>2, <3>3 DEF RemoteIsOfResponse, RequestIsOfStep, FoundIsOwn
        <3> QED
            BY <1>l, <2>1, <3>4
    <2> QED
        BY <1>12, <2>2, <2>3 DEF findAPIServiceBinding
  <1>13. CASE createAPIServiceBinding(s)
    <2>1. /\ At(s, "create") /\ UNCHANGED <<secret, request>>
          /\ End(s, "done") \/ End(s, "failed")
          /\ binding' = binding \/ binding' = cmd[s].found
        BY <1>13 DEF createAPIServiceBinding
    <2> QED
        BY <2>1, EndKeepsGrant
  <1>14. CASE CommandFails(s)
    BY <1>14, EndKeepsGrant DEF CommandFails
  <1> QED
    BY <1>1, <1>2, <1>3, <1>4, <1>5, <1>6, <1>7, <1>8, <1>9, <1>10, <1>11, <1>12, <1>13, <1>14 DEF Continue

\* A step that leaves the commands' steps, namespaces and finds, the Secrets (or deletes some)
\* and the binding alone and takes no grant back.
LEMMA AsideKeepsGrant ==
    ASSUME GrantInv, TypeOK', binding' = binding,
           \A t \in Sessions : /\ cmd'[t].step = cmd[t].step /\ cmd'[t].remote = cmd[t].remote
                               /\ cmd'[t].found = cmd[t].found
                               /\ \/ request'[t] = request[t]
                                  \/ request[t] = "pending" /\ request'[t] \in {"succeeded", "failed"},
           \A x \in Names : secret'[x] \in {secret[x], None}
    PROVE  GrantInv'
  <1>1. ASSUME NEW t \in Sessions
        PROVE  RemoteIsOfResponse(t)' /\ RequestIsOfStep(t)'
    BY DEF GrantInv, RemoteIsOfResponse, RequestIsOfStep
  <1>2. ASSUME NEW t \in Sessions
        PROVE  FoundIsOwn(t)'
    <2>1. cmd[t].found \in Names \cup {None} /\ FoundIsOwn(t)
        BY DEF GrantInv, TypeOK, Command
    <2> QED
        BY <2>1 DEF FoundIsOwn
  <1>3. \A x \in Names : SecretIsOfItsCommand(x)'
    BY DEF GrantInv, SecretIsOfItsCommand
  <1>4. BoundIsGranted'
    BY DEF GrantInv, BoundIsGranted, TypeOK
  <1> QED
    BY <1>1, <1>2, <1>3, <1>4 DEF GrantInv

LEMMA GrantStep ==
    ASSUME GrantInv, [Next]_vars
    PROVE  GrantInv'
  <1>0. TypeOK /\ TypeOK'
    BY TypeStep DEF GrantInv
  <1>1. ASSUME NEW s \in Sessions, getProvider(s) \/ Continue(s) \/ CommandFails(s)
        PROVE  GrantInv'
    BY <1>0, <1>1, CommandKeepsGrant
  <1>2. ASSUME NEW s \in Sessions, Browser(s)
        PROVE  GrantInv'
    <2>1. UNCHANGED <<secret, binding, request>>
        BY <1>0, <1>2, BrowserType DEF Browses
    <2>2. \A t \in Sessions : /\ cmd'[t].step = cmd[t].step /\ cmd'[t].remote = cmd[t].remote
                              /\ cmd'[t].found = cmd[t].found
        <3>1. CASE callback(s)
            BY <1>0, <3>1, CallbackResponse
        <3>2. CASE ~callback(s)
            BY <1>2, <3>2 DEF Browser, OpenPage, HandleResources, CreateNamespace, GetObject,
                              CreateObject, WaitForToken, GenerateKubeconfig, ReturnToPage
        <3> QED
            BY <3>1, <3>2
    <2> QED
        BY <1>0, <2>1, <2>2, AsideKeepsGrant
  <1>3. ASSUME NEW s \in Sessions, AnswerRequest(s)
        PROVE  GrantInv'
    <2>1. UNCHANGED <<cmd, secret, binding>>
        BY <1>3 DEF AnswerRequest
    <2>2. \A t \in Sessions : \/ request'[t] = request[t]
                              \/ request[t] = "pending" /\ request'[t] \in {"succeeded", "failed"}
        BY <1>0, <1>3 DEF AnswerRequest, TypeOK
    <2> QED
        BY <1>0, <2>1, <2>2, AsideKeepsGrant
  <1>4. ASSUME NEW n \in Names, Provider(n)
        PROVE  GrantInv'
    <2>1. UNCHANGED <<cmd, secret, binding, request>>
        BY <1>0, <1>4, ProviderStep
    <2> QED
        BY <1>0, <2>1, AsideKeepsGrant
  <1>5. ASSUME NEW n \in Names, UserDeletesSecret(n)
        PROVE  GrantInv'
    <2>1. UNCHANGED <<cmd, binding, request>> /\ \A x \in Names : secret'[x] \in {secret[x], None}
        BY <1>0, <1>5 DEF UserDeletesSecret, TypeOK
    <2> QED
        BY <1>0, <2>1, AsideKeepsGrant
  <1>6. CASE UNCHANGED vars
    <2>1. UNCHANGED <<cmd, secret, binding, request>>
        BY <1>6 DEF vars
    <2> QED
        BY <1>0, <2>1, AsideKeepsGrant
  <1> QED
    BY <1>1, <1>2, <1>3, <1>4, <1>5, <1>6 DEF Next

\* An APIServiceBinding refers to a Secret with the kubeconfig of a namespace in which the
\* provider has granted a request, unless the Secret was deleted: a command binds only after
\* its request succeeded, to a Secret it has found by its own kubeconfig, whichever command
\* made it (bindapiservice/serviceexportrequest.go, kubeconfig.go and apiservicebinding.go).
THEOREM BindingsAreGranted == Spec => []BindingIsGranted
  <1>1. Init => GrantInv
    BY InitGrant
  <1>2. GrantInv /\ [Next]_vars => GrantInv'
    BY GrantStep
  <1>3. GrantInv => BindingIsGranted
    BY DEF GrantInv, SecretIsOfItsCommand, BoundIsGranted, BindingIsGranted, TypeOK
  <1> QED
    BY <1>1, <1>2, <1>3, PTL DEF Spec
=============================================================================

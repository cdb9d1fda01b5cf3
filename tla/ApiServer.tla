----------------------------- MODULE ApiServer ------------------------------
(***************************************************************************)
(* The hub and, in front of it, api-server-rest: an HTTP server for the    *)
(* containers of the pod.  Its router is behind one mutex, which a request *)
(* holds until the hub or the agent has answered or 50 seconds are over.   *)
(*                                                                         *)
(* A REST request of a client is [local, method, path, query], its path a  *)
(* list of segments.  The agent's answers are external.                    *)
(***************************************************************************)
EXTENDS DataHub

VARIABLES
    server,   \* "down", "up" or "ended"
    router,   \* who holds the router
    rest      \* for each client its HTTP exchange: [pc, status]

restVars == <<server, router, rest>>
apiVars == <<tokenVars, hubVars, restVars>>

ApiInit ==
    /\ HubInit
    /\ server = "down" /\ router = None
    /\ rest = [p \in Clients |-> [pc |-> "waiting", status |-> 0]]

Uses(p) == Ask(p).kind = "rest"

\* main: the features choose the routes, and each route's service must be
\* there to connect to: the hub, and the agent, which is external.
Routes(s) == CASE s.features = "resource" -> {"cdh"}
               [] s.features = "attestation" -> {"aa"}
               [] s.features = "all" -> {"cdh", "aa"}
               [] OTHER -> {}
ServerStart ==
    /\ server = "down"
    /\ \/ server' = "ended" /\ ("cdh" \in Routes(scene) => hub # "serving" \/ "aa" \in Routes(scene))
       \/ server' = "up" /\ Routes(scene) # {} /\ ("cdh" \in Routes(scene) => hub = "serving")
    /\ UNCHANGED <<tokenVars, hubVars, router, rest>>

\* split_nth_slash(path, 2): what is before and after the second slash.
Split(path) == IF Len(path) < 2 THEN None ELSE [root |-> path[1], url |-> Tail(path)]

\* What a handler says without a call: 0 where it calls.
CdhStatus(url) ==
    IF Split(url) = None THEN 404 ELSE IF Split(url).root = "resource" THEN 0 ELSE 404
AaStatus(url, query) ==
    IF Cardinality(query) # 1 THEN 405
    ELSE CASE url = <<"token">> -> (IF query = {"token_type"} THEN 0 ELSE 400)
           [] url = <<"evidence">> -> (IF query = {"runtime_data"} THEN 0 ELSE 400)
           [] OTHER -> 404
Status(s, r) ==
    LET at == Split(r.path)
    IN IF at = None THEN 404
       ELSE IF at.root \notin Routes(s) THEN 404
       ELSE IF ~r.local THEN 403
       ELSE IF r.method # "GET" THEN 405
       ELSE IF at.root = "cdh" THEN CdhStatus(at.url) ELSE AaStatus(at.url, r.query)

\* The router is locked.  A resource's path is prefixed with kbs://, so that
\* its leading slash leaves the host empty.
Forward(r) == [kind |-> "url", scheme |-> "kbs", host |-> "", path |-> Tail(Split(r.path).url)]
Route(p) ==
    LET r == Ask(p).http
    IN /\ Uses(p) /\ server = "up" /\ rest[p].pc = "waiting" /\ router = None
       /\ IF Status(scene, r) # 0
          THEN /\ rest' = [rest EXCEPT ![p] = [pc |-> "done", status |-> Status(scene, r)]]
               /\ UNCHANGED <<router, req>>
          ELSE /\ rest' = [rest EXCEPT ![p].pc = "called"]
               /\ router' = p
               /\ req' = IF Split(r.path).root = "cdh"
                         THEN [req EXCEPT ![p].pc = "resolve", ![p].todo = <<Forward(r)>>]
                         ELSE req
       /\ UNCHANGED <<tokenVars, scene, hub, params, files, client, owner, mounts, keyfiles, server>>

Reply(p, status) ==
    /\ rest' = [rest EXCEPT ![p] = [pc |-> "done", status |-> status]]
    /\ router' = None

\* get_resource's or the agent's answer, or its error.
Called(p) == rest[p].pc = "called"
ToAgent(p) == Split(Ask(p).http.path).root = "aa"
HubReplies(p) ==
    /\ Called(p) /\ ~ToAgent(p) /\ req[p].pc = "done"
    /\ Reply(p, IF req[p].out.ok THEN 200 ELSE 500)
    /\ UNCHANGED <<tokenVars, hubVars, server>>
AgentReplies(p) ==
    /\ Called(p) /\ ToAgent(p)
    /\ \E status \in {200, 500} : Reply(p, status)
    /\ UNCHANGED <<tokenVars, hubVars, server>>

\* TTRPC_TIMEOUT: the hub may be left with a request nobody waits for.
ReplyTimeout(p) ==
    /\ Called(p)
    /\ Reply(p, 500)
    /\ req' = IF ToAgent(p) \/ Ended(p) THEN req ELSE [req EXCEPT ![p].late = TRUE]
    /\ UNCHANGED <<tokenVars, scene, hub, params, files, client, owner, mounts, keyfiles, server>>

-----------------------------------------------------------------------------
\* The steps of a request in the hub.
Service(p) ==
    \/ Receive(p) \/ ReceiveOtherVolume(p) \/ Resolve(p)
    \/ NewGetter(p) \/ NewGetterFails(p) \/ IllegalUri(p) \/ GetSecret(p) \/ ClientReturns(p)
    \/ GetOffline(p) \/ GetSev(p) \/ KmsAnswers(p) \/ KmsFails(p)
    \/ Answer(p) \/ SecretCli(p)
    \/ ReceivePull(p) \/ InitializeImageClient(p) \/ ImageClientReady(p) \/ LockImageClient(p)
    \/ PullReturns(p) \/ PullFails(p)
    \/ WriteOssfsPasswd(p) \/ MountOssfs(p) \/ WriteGocryptfsPasswd(p) \/ MountGocryptfs(p)
    \/ WriteStorageKey(p) \/ MountLuks(p) \/ CommandFails(p)
Startup == StartFails \/ Start \/ Serve
Http(p) == Route(p) \/ HubReplies(p) \/ AgentReplies(p) \/ ReplyTimeout(p)
Kbs == Update \/ Request \/ Orphan

ApiNext ==
    \/ (Startup \/ (\E p \in Procs : Service(p) \/ CallerTimesOut(p) \/ DropHandler(p))
            \/ ((Kbs \/ TokenExpires) /\ UNCHANGED hubVars)) /\ UNCHANGED restVars
    \/ ServerStart
    \/ \E p \in Clients : Http(p)

\* Calls of other parties and commands end, tokio's mutexes are fair, and the
\* server is started, before the hub or after it.
ApiFairness ==
    /\ WF_apiVars(Startup /\ UNCHANGED restVars)
    /\ \A p \in Procs : WF_apiVars(Service(p) /\ UNCHANGED restVars)
    /\ WF_apiVars(Update /\ UNCHANGED <<hubVars, restVars>>)
    /\ WF_apiVars(Request /\ UNCHANGED <<hubVars, restVars>>)
    /\ WF_apiVars(Orphan /\ UNCHANGED <<hubVars, restVars>>)
    /\ WF_apiVars(ServerStart)
    /\ \A p \in Clients : WF_apiVars(Http(p))

ApiSpec == ApiInit /\ [][ApiNext]_apiVars /\ ApiFairness

-----------------------------------------------------------------------------
(* What a scene expects: a request's want and, of a mount, its plain secrets *)
(* are what its references stand for, whatever else runs.                   *)

\* The hub's client of the KBS, and the credential files it serves with.
ClientOf(s) == IF CdhConfigNew(s) = Err THEN Err ELSE RealClientNew(s, SetConfigurationEnvs(s))
CredentialFiles(s) == [f \in DOMAIN s.config.credentials |-> s.published[f]]

\* What the KBS or the files in its place have under a URL.  A hub with the
\* client for SEV answers no request.
KbsHas(s, url) ==
    LET uri == ResourceUriTryFrom(url)
    IN /\ uri # Err
       /\ \/ ClientOf(s) = "cc" /\ ResourcePath(uri) \notin Absent \cup Denied
          \/ ClientOf(s) = "offline" /\ OfflineFsGet(s, ResourcePath(uri)) # Err
KbsValue(s, url) ==
    LET path == ResourcePath(ResourceUriTryFrom(url))
    IN IF ClientOf(s) = "cc" THEN Content[path] ELSE OfflineFsGet(s, path)

\* A reference has a value, and which one.
Meant(s, kind, stage, ref) == PlanOf(kind, stage, ref, CredentialFiles(s), s.vault)
Denotes(s, plan) ==
    \/ plan.ask = "value"
    \/ plan.ask = "kbs" /\ KbsHas(s, plan.url)
    \/ plan.ask = "kms" /\ plan.answer # Err
Denoted(s, plan) == IF plan.ask = "kbs" THEN KbsValue(s, plan.url) ELSE plan.answer

\* The references of a request in a stage, in order.
References(a, config, stage) ==
    CASE a.kind = "rest" -> <<Forward(a.http)>>
      [] a.kind = "oss" /\ a.encrypted -> Append(a.refs, a.encPasswd)
      [] a.kind = "pull" /\ stage = "init" -> config
      [] OTHER -> a.refs
HasValue(s, a, stage, ref) ==
    LET plan == Meant(s, a.kind, stage, ref)
    IN Denotes(s, plan) /\ (a.kind = "oss" => IsText(Denoted(s, plan)))
ValueOf(s, a, stage, ref) == Denoted(s, Meant(s, a.kind, stage, ref))
AllHave(s, a, stage) ==
    LET refs == References(a, s.imageConfig, stage)
    IN \A i \in 1..Len(refs) : HasValue(s, a, stage, refs[i])

\* What the answer is when every reference has its value.
Outcome(s, a) ==
    LET refs == References(a, s.imageConfig, "none")
        first == ValueOf(s, a, "none", refs[1])
    IN CASE a.kind \in {"resource", "rest", "unseal"} -> first
         [] a.kind = "unwrap" ->
              (IF refs[1].provider = "kbs" THEN Packets!UnwrapPacket(refs[1], first) ELSE first)
         [] a.kind = "pull" ->
              (IF \A i \in 1..Len(refs) :
                     Packets!UnwrapPacket(refs[i], ValueOf(s, a, "none", refs[i])) # Err
               THEN a.image ELSE Err)
         [] OTHER -> a.target
Wanted(s, a) ==
    IF AllHave(s, a, "none") /\ (a.kind = "pull" => AllHave(s, a, "init")) THEN Outcome(s, a) ELSE Err

\* The requests there are.  One that the server does not forward, or of a hub
\* that has no client, may want anything: the hub never sees it.
IsList(seq) == seq \in Seq({seq[i] : i \in DOMAIN seq})
Forwarded(s, a) == Status(s, a.http) = 0 /\ Split(a.http.path).root = "cdh"
WellAsked(s, p, a) ==
    CASE a.kind \in {"resource", "unseal", "unwrap"} -> IsList(a.refs) /\ Len(a.refs) = 1
      [] a.kind = "luks" ->
           /\ IsList(a.refs) /\ Len(a.refs) = 1
           /\ HasValue(s, a, "none", a.refs[1]) => a.plain = <<ValueOf(s, a, "none", a.refs[1])>>
      [] a.kind = "oss" ->
           LET V(i) == ValueOf(s, a, "none", References(a, << >>, "none")[i])
               Has3(i) == HasValue(s, a, "none", References(a, << >>, "none")[i])
           IN /\ IsList(a.refs) /\ Len(a.refs) = 2 /\ a.target # [tmp |-> p]
              /\ Has3(1) /\ Has3(2) => SubSeq(a.plain, 1, 2) = <<V(1), V(2)>>
              /\ a.encrypted /\ Has3(3) => SubSeq(a.plain, 3, 3) = <<V(3)>>
      [] OTHER -> IsList(a.refs)
WantsRight(s, p) ==
    LET a == s.ask[p]
    IN CASE a.kind = "cli" -> a.want = CliResult(CliUnseal(a.refs[1], a.keyPath, s.vault, a.exists))
         [] a.kind = "otherVolume" -> a.want = Err
         [] a.kind = "rest" -> Forwarded(s, a) /\ ClientOf(s) # Err => a.want = Wanted(s, a)
         [] a.kind \in {"resource", "unseal", "unwrap", "oss", "luks", "pull"} ->
              /\ WellAsked(s, p, a)
              /\ ClientOf(s) # Err => a.want = Wanted(s, a)
         [] OTHER -> FALSE

ASSUME ApiServerAssumption ==
    \A s \in Scenes : IsList(s.imageConfig) /\ \A p \in Clients : WantsRight(s, p)

-----------------------------------------------------------------------------
(* Properties.                                                              *)

\* Whatever requests run beside it, a request is answered with the value that
\* was published under its reference (the resource, the sealed secret, the
\* layer's options, the mount point), and with an error only if there is none
\* or another party failed: the shared client's answers go to who asked, what
\* secret_cli seals the hub unseals, and a failure does not outlive its
\* request.  A REST client's 200 is such an answer too.
RequestsAnsweredRight ==
    \A p \in Clients :
        /\ req[p].pc = "done" =>
               IF req[p].out.ok THEN req[p].out.value = Ask(p).want
               ELSE Ask(p).want = Err \/ req[p].blame
        /\ (rest[p].status = 200 /\ ~ToAgent(p)) => Ask(p).want # Err /\ req[p].out.ok

\* secure_mount shows plaintext only through what was asked for: gocryptfs lies
\* over the ossfs mount of the same request, which is never at the mount point
\* itself, and every mount is made with the request's own secrets, also when
\* the handler was dropped while the command ran.
MountsBacked ==
    \A m \in mounts :
        /\ m.fs = "gocryptfs" => \E o \in mounts : o.fs = "ossfs" /\ o.at = m.over /\ o.by = m.by
        /\ m.at = Ask(m.by).target =>
               m.fs = IF Ask(m.by).kind = "luks" THEN "luks"
                      ELSE IF Ask(m.by).encrypted THEN "gocryptfs" ELSE "ossfs"
        /\ m.with = (CASE m.fs = "gocryptfs" -> SubSeq(Ask(m.by).plain, 3, 3)
                       [] m.fs = "ossfs" -> SubSeq(Ask(m.by).plain, 1, 2)
                       [] OTHER -> Ask(m.by).plain)

\* The plaintext key of a LUKS device is in /tmp no longer than until the device
\* is mounted or its request answered, also when the handler was dropped while
\* luks-encrypt-storage ran.  Only a request that fails may leave it there.
KeyFileRemoved ==
    \A p \in DOMAIN keyfiles :
        /\ \A m \in mounts : m.by # p
        /\ req[p].pc = "done" => ~req[p].out.ok

\* The hub serves requests only when every configured credential is in its
\* file, as the KBS has it; a start that cannot fetch one ends.
ServesWithCredentials ==
    hub = "serving" =>
        \A path \in DOMAIN scene.config.credentials :
            /\ path \in DOMAIN files
            /\ files[path] = scene.published[path]

\* Every request that reaches the hub, and every HTTP exchange of a started
\* server, ends: nobody waits for ever on the client's mutex, the router's or
\* the image client's, whoever fails, times out or is dropped while holding
\* it, and although a pull asks the hub that serves it.
HubRequestsEnd ==
    /\ \A p \in Clients : (req[p].pc # "new") ~> Ended(p)
    /\ \A p \in Clients : (server = "up" /\ Uses(p)) ~> (rest[p].pc = "done")
=============================================================================

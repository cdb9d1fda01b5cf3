------------------------------ MODULE DataHub -------------------------------
(***************************************************************************)
(* The Confidential Data Hub: its start with the credentials it fetches    *)
(* first, and its services (get_resource, unseal_secret, un_wrap_key,      *)
(* secure_mount, the image pulls), which run side by side and share one    *)
(* client of the KBS behind a mutex.  Of a pull this module has the image  *)
(* client, made once and behind a mutex too, and the requests it makes of  *)
(* the hub's own socket; ImagePull and RuntimeShare have the rest.         *)
(*                                                                         *)
(* A request is a list of references to resolve (todo), the values got so  *)
(* far, and what its handler does with them.  The start is such a request  *)
(* too, Boot, for the credentials.  A scene fixes what a run starts from:  *)
(* the configuration, the stores, and what each client asks for.           *)
(***************************************************************************)
EXTENDS TokenClient, Secrets

CONSTANTS
    Clients,    \* one request each
    Boot,       \* the start of the hub
    Content,    \* what the KBS keeps under each of its resources
    Scenes

VARIABLES
    scene,      \* the scene that is played
    hub,        \* the process: "down", "init", "serving" or "ended"
    params,     \* its AA_KBC_PARAMS
    files,      \* the in-guest credential files
    client,     \* KBS_CLIENT: the kind of client, or None
    owner,      \* who holds its mutex during a call
    req,        \* the requests
    mounts,     \* what is mounted
    keyfiles    \* key files for LUKS, which no handler removes

hubVars == <<scene, hub, params, files, client, owner, req, mounts, keyfiles>>
tokenVars == <<token, key, call, job, keys, calls>>

-----------------------------------------------------------------------------
(* What the scenes are assumed to be.                                       *)

\* A file of resources that is missing is skipped; of two values for a name the
\* later file's counts.
OfflineFiles(s) == <<s.keysFile, s.resourcesFile>>
OfflineFsGet(s, path) ==
    LET has == {i \in 1..2 : OfflineFiles(s)[i] # None /\ path \in DOMAIN OfflineFiles(s)[i]}
    IN CASE 2 \in has -> OfflineFiles(s)[2][path]
         [] has = {1} -> OfflineFiles(s)[1][path]
         [] OTHER -> Err

\* A scene's published credentials are what the KBS, or the files in its place,
\* have under the configured names.
PublishedRight(s) ==
    \A f \in DOMAIN s.config.credentials :
        LET uri == ResourceUriTryFrom(s.config.credentials[f])
            path == ResourcePath(uri)
        IN uri # Err =>
               /\ path \notin Absent \cup Denied => s.published[f] = Content[path]
               /\ OfflineFsGet(s, path) # Err => s.published[f] = OfflineFsGet(s, path)

ASSUME DataHubAssumption ==
    /\ Boot \notin Clients /\ None \notin Clients \cup {Boot, "cc", "offline", "sev"}
    /\ \A s \in Scenes :
          /\ IsFiniteSet(DOMAIN s.config.credentials)
          /\ s.config.file = "none" => s.config.credentials = << >>
          /\ PublishedRight(s)

-----------------------------------------------------------------------------
Procs == Clients \cup {Boot}
Packets == INSTANCE KeyWrap WITH File <- << >>, Empty <- Err

Fresh == [pc |-> "new", stage |-> "none", todo |-> << >>, got |-> << >>, arg |-> None, out |-> None,
          tmp |-> FALSE, late |-> FALSE, blame |-> FALSE]

HubInit ==
    /\ Init
    /\ scene \in Scenes
    /\ hub = "down" /\ params = None /\ files = << >>
    /\ client = None /\ owner = None
    /\ req = [p \in Procs |-> Fresh]
    /\ mounts = {} /\ keyfiles = << >>

Ask(p) == scene.ask[p]
Ended(p) == req[p].pc \in {"done", "panicked"}

-----------------------------------------------------------------------------
(* Configuration.  The value of AA_KBC_PARAMS is a list of segments.        *)

AaKbcParamsTryFrom(value) == IF Len(value) = 2 THEN value ELSE Err
\* get_value: the environment, then the kernel's command line.
GetValue(s) == IF s.env # None THEN s.env ELSE s.cmdline
AaKbcParamsNew(s) ==
    IF GetValue(s) = None THEN <<"offline_fs_kbc", "">> ELSE AaKbcParamsTryFrom(GetValue(s))

\* A file that is named must be there and be valid; without one there are no
\* credentials to fetch.
CdhConfigNew(s) ==
    CASE s.config.file = "none" ->
             (IF AaKbcParamsNew(s) = Err THEN Err
              ELSE [kbc |-> AaKbcParamsNew(s), credentials |-> << >>])
      [] s.config.file = "valid" -> s.config
      [] OTHER -> Err

\* A variable that is set wins over the configuration.
SetConfigurationEnvs(s) == IF s.env # None THEN s.env ELSE CdhConfigNew(s).kbc

\* The path is under the storage directory, without dots.
IsPathValid(path) == path[1] \notin {"elsewhere", ".."}

-----------------------------------------------------------------------------
(* The start.                                                               *)

\* HashMap: the credentials are fetched in any order.
Orders(S) == {s \in [1..Cardinality(S) -> S] : \A x \in S : \E i \in DOMAIN s : s[i] = x}

StartFails ==
    /\ hub = "down"
    /\ \/ CdhConfigNew(scene) = Err
       \/ /\ CdhConfigNew(scene) # Err
          /\ \E path \in DOMAIN CdhConfigNew(scene).credentials : ~IsPathValid(path)
    /\ hub' = "ended"
    /\ UNCHANGED <<tokenVars, scene, params, files, client, owner, req, mounts, keyfiles>>

Start ==
    /\ hub = "down" /\ CdhConfigNew(scene) # Err
    /\ \A path \in DOMAIN CdhConfigNew(scene).credentials : IsPathValid(path)
    /\ hub' = "init"
    /\ params' = SetConfigurationEnvs(scene)
    /\ \E paths \in Orders(DOMAIN CdhConfigNew(scene).credentials) :
           req' = [req EXCEPT ![Boot].pc = "getter", ![Boot].todo = paths]
    /\ UNCHANGED <<tokenVars, scene, files, client, owner, mounts, keyfiles>>

\* Every credential is in place: the socket is bound.
Serve ==
    /\ hub = "init" /\ req[Boot].pc = "resolve" /\ req[Boot].todo = << >>
    /\ hub' = "serving"
    /\ req' = [req EXCEPT ![Boot].pc = "done"]
    /\ UNCHANGED <<tokenVars, scene, params, files, client, owner, mounts, keyfiles>>

-----------------------------------------------------------------------------
(* The end of a request.  A directory of passwords goes with its handler.   *)

EndedWith(r, out) == [r EXCEPT !.pc = "done", !.out = out, !.tmp = FALSE, !.arg = None]
Answered(r, value) == EndedWith(r, [ok |-> TRUE, value |-> value])
Failed(r, cause) == [EndedWith(r, [ok |-> FALSE]) EXCEPT !.blame = @ \/ cause]

\* The hub does not survive a failure of its own start.
FailsLogged(p, cause) ==
    /\ req' = [req EXCEPT ![p] = IF p = Boot /\ @.todo # << >>
                                 THEN [@ EXCEPT !.pc = "resolve", !.todo = Tail(@), !.arg = None]
                                 ELSE Failed(@, cause)]
    /\ hub' = IF p = Boot /\ req[p].todo = << >> THEN "ended" ELSE hub
Fails(p, cause) ==
    /\ req' = [req EXCEPT ![p] = Failed(@, cause)]
    /\ hub' = IF p = Boot THEN "ended" ELSE hub

\* A value is there: for Boot it is written to its file, for OSS it must be
\* text.
Written(path, v) == [f \in DOMAIN files \cup {path} |-> IF f = path THEN v ELSE files[f]]
IsText(v) == v.kind = "blob" /\ v.utf8
Got(p, v) ==
    LET r == req[p]
        next == [r EXCEPT !.pc = "resolve", !.todo = Tail(@), !.got = Append(@, v), !.arg = None]
    IN IF p = Boot
       THEN /\ files' = Written(Head(r.todo), v)
            /\ req' = [req EXCEPT ![p] = next] /\ hub' = hub
       ELSE /\ files' = files
            /\ IF Ask(p).kind = "oss" /\ ~IsText(v) THEN Fails(p, FALSE)
               ELSE req' = [req EXCEPT ![p] = next] /\ hub' = hub

-----------------------------------------------------------------------------
(* The services' entries: what is to be resolved, in order.                 *)

\* secure_mount for LUKS makes the key file before it has the key.
KeyFile(p, k) == [q \in DOMAIN keyfiles \cup {p} |-> IF q = p THEN k ELSE keyfiles[q]]
Receive(p) ==
    /\ hub = "serving" /\ p \in Clients /\ req[p].pc = "new"
    /\ Ask(p).kind \notin {"rest", "cli", "otherVolume", "pull"}
    /\ req' = [req EXCEPT ![p].pc = "resolve", ![p].todo = Ask(p).refs]
    /\ keyfiles' = IF Ask(p).kind = "luks" THEN KeyFile(p, None) ELSE keyfiles
    /\ UNCHANGED <<tokenVars, scene, hub, params, files, client, owner, mounts>>
ReceiveOtherVolume(p) ==
    /\ hub = "serving" /\ p \in Clients /\ req[p].pc = "new"
    /\ Ask(p).kind = "otherVolume"
    /\ Fails(p, FALSE)
    /\ UNCHANGED <<tokenVars, scene, params, files, client, owner, mounts, keyfiles>>

-----------------------------------------------------------------------------
(* How a reference is resolved.                                             *)

Given(v) == [ask |-> "value", answer |-> v]

\* A packet from the KBS is checked before its key is fetched; another
\* provider's is decrypted by its KMS.  fs: the credential files.
UnwrapPacketPlan(packet, fs) ==
    LET c == NewDecryptor(packet.provider, packet.provider_settings, fs)
        uri == ResourceUriTryFrom(packet.kid)
    IN IF packet.provider = "kbs"
       THEN IF Packets!UnwrapPacket(packet, packet.kek) = Err \/ uri = Err THEN NothingToAsk
            ELSE AskKbs(WholeUri(uri))
       ELSE IF c = Err THEN NothingToAsk
       ELSE AskKms(Decrypt(c, packet.wrapped, packet.kid, packet.annotations))

\* get_plaintext_secret: what is not sealed is taken as it is.
GetPlaintextSecret(ref, fs, vault) ==
    IF ref.kind = "token" THEN Unseal(ref, fs, vault) ELSE Given(ref)
\* get_plaintext_key: sealed or a resource; without one the key is random.
GetPlaintextKey(ref, fs, vault) ==
    CASE ref.kind = "token" -> Unseal(ref, fs, vault)
      [] ref.kind = "url" -> AskKbs(ref)
      [] ref.kind = "random" -> Given(ref)
      [] OTHER -> NothingToAsk

\* The image client asks the hub it is part of, as any client would: when it
\* is built for its resources, in a pull for the keys of encrypted layers.
PullPlan(stage, ref, fs) == IF stage = "init" THEN AskKbs(ref) ELSE UnwrapPacketPlan(ref, fs)

\* What is asked for a reference of a request of this kind.
PlanOf(kind, stage, ref, fs, vault) ==
    CASE kind \in {"resource", "rest"} -> AskKbs(ref)
      [] kind = "unseal" -> Unseal(ref, fs, vault)
      [] kind = "unwrap" -> UnwrapPacketPlan(ref, fs)
      [] kind = "oss" -> GetPlaintextSecret(ref, fs, vault)
      [] kind = "pull" -> PullPlan(stage, ref, fs)
      [] OTHER -> GetPlaintextKey(ref, fs, vault)
Plan(p, ref) ==
    IF p = Boot THEN AskKbs(CdhConfigNew(scene).credentials[ref])
    ELSE PlanOf(Ask(p).kind, req[p].stage, ref, files, scene.vault)

\* The part of a handler up to its next call of another party.
Resolve(p) ==
    /\ req[p].pc = "resolve" /\ req[p].todo # << >>
    /\ LET plan == Plan(p, Head(req[p].todo))
       IN CASE plan.ask = "value" -> Got(p, plan.answer)
            [] plan.ask = "kbs" -> /\ req' = [req EXCEPT ![p].pc = IF p = Boot THEN "secret" ELSE "getter",
                                                         ![p].arg = plan.url]
                                   /\ UNCHANGED <<hub, files>>
            [] plan.ask = "kms" -> /\ req' = [req EXCEPT ![p].pc = "kms", ![p].arg = plan.answer]
                                   /\ UNCHANGED <<hub, files>>
            [] OTHER -> Fails(p, FALSE) /\ files' = files
    /\ UNCHANGED <<tokenVars, scene, params, client, owner, mounts, keyfiles>>

-----------------------------------------------------------------------------
(* KbcClient: the client of the KBS, made once.                             *)

\* init_with_file: the files are read with the client.
OfflineFsNew(s) ==
    IF \E i \in 1..2 : OfflineFiles(s)[i] = Err THEN Err ELSE "offline"

\* OnlineSevKbc::new looks for a client before it makes one, and so never does.
RealClientNew(s, value) ==
    LET p == AaKbcParamsTryFrom(value)
    IN IF p = Err THEN Err
       ELSE CASE p[1] = "cc_kbc" -> "cc"
              [] p[1] = "offline_fs_kbc" -> OfflineFsNew(s)
              [] p[1] = "online_sev_kbc" -> "sev"
              [] OTHER -> Err

\* KbcClient::new, for a service or for the start.
NewGetter(p) ==
    /\ req[p].pc = "getter" /\ owner = None
    /\ LET c == IF client = None THEN RealClientNew(scene, params) ELSE client
       IN IF c = Err THEN Fails(p, FALSE) /\ client' = client
          ELSE /\ client' = c /\ hub' = hub
               /\ req' = [req EXCEPT ![p].pc = IF p = Boot THEN "resolve" ELSE "secret"]
    /\ UNCHANGED <<tokenVars, scene, params, files, owner, mounts, keyfiles>>

\* The agent's socket cannot be reached: the next request tries again.
NewGetterFails(p) ==
    /\ req[p].pc = "getter" /\ owner = None /\ client = None
    /\ RealClientNew(scene, params) = "cc"
    /\ Fails(p, TRUE)
    /\ UNCHANGED <<tokenVars, scene, params, files, client, owner, mounts, keyfiles>>

\* KbcClient::get_secret.
IllegalUri(p) ==
    /\ req[p].pc = "secret" /\ ResourceUriTryFrom(req[p].arg) = Err
    /\ Fails(p, FALSE)
    /\ UNCHANGED <<tokenVars, scene, params, files, client, owner, mounts, keyfiles>>

LegalUri(p) == req[p].pc = "secret" /\ ResourceUriTryFrom(req[p].arg) # Err
PathOf(p) == ResourcePath(ResourceUriTryFrom(req[p].arg))

\* The mutex is held for the whole call.
GetSecretUnlocked(p) ==
    /\ LegalUri(p) /\ client = "cc"
    /\ GetResource(PathOf(p))
    /\ owner' = None
    /\ req' = [req EXCEPT ![p].pc = "held"]
    /\ UNCHANGED <<scene, hub, params, files, client, mounts, keyfiles>>
GetSecret(p) ==
    /\ LegalUri(p) /\ client = "cc" /\ owner = None
    /\ GetResource(PathOf(p))
    /\ owner' = p
    /\ req' = [req EXCEPT ![p].pc = "held"]
    /\ UNCHANGED <<scene, hub, params, files, client, mounts, keyfiles>>

\* The call is over, and the mutex is released, whatever its result.
CallReturns(p) ==
    LET excused == \/ call.out \in {"getTokenFailed", "httpError"}
                   \/ call.out = "unauthorized" /\ call.losses >= GetAttempts - 1
    IN IF call.out = "resource" THEN Got(p, Content[call.res])
       ELSE Fails(p, excused) /\ files' = files
ClientReturnsHolding(p) ==
    /\ req[p].pc = "held" /\ At("idle")
    /\ CallReturns(p)
    /\ owner' = IF call.out = "resource" THEN None ELSE owner
    /\ UNCHANGED <<tokenVars, scene, params, client, mounts, keyfiles>>
ClientReturns(p) ==
    /\ req[p].pc = "held" /\ At("idle")
    /\ CallReturns(p)
    /\ owner' = None
    /\ UNCHANGED <<tokenVars, scene, params, client, mounts, keyfiles>>

GetOffline(p) ==
    /\ LegalUri(p) /\ client = "offline" /\ owner = None
    /\ LET v == OfflineFsGet(scene, PathOf(p))
       IN IF v = Err THEN Fails(p, FALSE) /\ files' = files ELSE Got(p, v)
    /\ UNCHANGED <<tokenVars, scene, params, client, owner, mounts, keyfiles>>

\* expect("Must be initialized"): the handler's task panics, which drops the
\* lock and sends no answer.
GetSev(p) ==
    /\ LegalUri(p) /\ client = "sev" /\ owner = None
    /\ req' = [req EXCEPT ![p] = [EndedWith(@, None) EXCEPT !.pc = "panicked"]]
    /\ hub' = IF p = Boot THEN "ended" ELSE hub
    /\ UNCHANGED <<tokenVars, scene, params, files, client, owner, mounts, keyfiles>>

\* A call of a KMS.
KmsAnswers(p) ==
    /\ req[p].pc = "kms"
    /\ IF req[p].arg = Err THEN Fails(p, FALSE) /\ files' = files ELSE Got(p, req[p].arg)
    /\ UNCHANGED <<tokenVars, scene, params, client, owner, mounts, keyfiles>>
KmsFails(p) ==
    /\ req[p].pc = "kms"
    /\ Fails(p, TRUE)
    /\ UNCHANGED <<tokenVars, scene, params, files, client, owner, mounts, keyfiles>>

-----------------------------------------------------------------------------
(* With everything resolved.                                                *)

Resolved(p) == p \in Clients /\ req[p].pc = "resolve" /\ req[p].todo = << >>

\* A layer's key packet is opened with the key from the KBS.
Opened(p) ==
    LET packet == Ask(p).refs[1]
    IN IF packet.provider = "kbs" THEN Packets!UnwrapPacket(packet, req[p].got[1])
       ELSE req[p].got[1]

Answer(p) ==
    /\ Resolved(p) /\ Ask(p).kind \in {"resource", "rest", "unseal", "unwrap"}
    /\ LET v == IF Ask(p).kind = "unwrap" THEN Opened(p) ELSE req[p].got[1]
       IN req' = [req EXCEPT ![p] = IF v = Err THEN Failed(@, FALSE) ELSE Answered(@, v)]
    /\ UNCHANGED <<tokenVars, scene, hub, params, files, client, owner, mounts, keyfiles>>

\* pull_image, pull_content, guest_pull_image.  The OnceCell lets one request at
\* a time try to build the image client, and the mutex lets one use it; both
\* are given up when the request ends, however it ends.
InStage(stage) == \E q \in Clients : req[q].stage = stage /\ ~Ended(q)
ImageClientMade == \E q \in Clients : req[q].stage \in {"made", "pulling"}

ReceivePull(p) ==
    /\ hub = "serving" /\ p \in Clients /\ req[p].pc = "new" /\ Ask(p).kind = "pull"
    /\ req' = [req EXCEPT ![p].pc = "image"]
    /\ UNCHANGED <<tokenVars, scene, hub, params, files, client, owner, mounts, keyfiles>>
InitializeImageClient(p) ==
    /\ req[p].pc = "image" /\ ~ImageClientMade /\ ~InStage("init")
    /\ req' = [req EXCEPT ![p].pc = "resolve", ![p].stage = "init", ![p].todo = scene.imageConfig]
    /\ UNCHANGED <<tokenVars, scene, hub, params, files, client, owner, mounts, keyfiles>>
ImageClientReady(p) ==
    /\ Resolved(p) /\ req[p].stage = "init"
    /\ req' = [req EXCEPT ![p].pc = "image", ![p].stage = "made", ![p].got = << >>]
    /\ UNCHANGED <<tokenVars, scene, hub, params, files, client, owner, mounts, keyfiles>>
LockImageClient(p) ==
    /\ req[p].pc = "image" /\ ImageClientMade /\ ~InStage("pulling")
    /\ req' = [req EXCEPT ![p].pc = "resolve", ![p].stage = "pulling", ![p].todo = Ask(p).refs]
    /\ UNCHANGED <<tokenVars, scene, hub, params, files, client, owner, mounts, keyfiles>>

\* The layers' keys are there; the rest of the pull succeeds or does not.
PullReturns(p) ==
    /\ Resolved(p) /\ req[p].stage = "pulling"
    /\ LET open == \A i \in DOMAIN Ask(p).refs :
                      Packets!UnwrapPacket(Ask(p).refs[i], req[p].got[i]) # Err
       IN req' = [req EXCEPT ![p] = IF open THEN Answered(@, Ask(p).image) ELSE Failed(@, FALSE)]
    /\ UNCHANGED <<tokenVars, scene, hub, params, files, client, owner, mounts, keyfiles>>
PullFails(p) ==
    /\ p \in Clients /\ Ask(p).kind = "pull" /\ req[p].pc = "resolve"
    /\ Fails(p, TRUE)
    /\ UNCHANGED <<tokenVars, scene, params, files, client, owner, mounts, keyfiles>>

\* OSS.  The bucket's password file is written to a new directory; an encrypted
\* bucket is mounted on a directory of a random name.
Encrypted(p) == Ask(p).encrypted
OssfsDir(p) == IF Encrypted(p) THEN [tmp |-> p] ELSE Ask(p).target
OnGocryptfs(p) == Encrypted(p) /\ Len(req[p].got) = 3

WriteOssfsPasswd(p) ==
    /\ Resolved(p) /\ Ask(p).kind = "oss" /\ ~req[p].tmp
    /\ req' = [req EXCEPT ![p].pc = "command", ![p].tmp = TRUE]
    /\ UNCHANGED <<tokenVars, scene, hub, params, files, client, owner, mounts, keyfiles>>

OssfsMount(p) == [fs |-> "ossfs", at |-> OssfsDir(p), over |-> None, by |-> p,
                  with |-> SubSeq(req[p].got, 1, 2)]
GocryptfsMount(p) == [fs |-> "gocryptfs", at |-> Ask(p).target, over |-> OssfsDir(p), by |-> p,
                      with |-> SubSeq(req[p].got, 3, 3)]

\* The password for gocryptfs is resolved once the bucket is mounted.
MountOssfsInPlace(p) ==
    /\ req[p].pc = "command" /\ Ask(p).kind = "oss" /\ ~OnGocryptfs(p)
    /\ mounts' = mounts \cup {[OssfsMount(p) EXCEPT !.at = Ask(p).target]}
    /\ req' = [req EXCEPT ![p] =
           IF Encrypted(p) THEN [@ EXCEPT !.pc = "resolve", !.todo = <<Ask(p).encPasswd>>]
           ELSE Answered(@, Ask(p).target)]
    /\ UNCHANGED <<tokenVars, scene, hub, params, files, client, owner, keyfiles>>
MountOssfs(p) ==
    /\ req[p].pc = "command" /\ Ask(p).kind = "oss" /\ ~OnGocryptfs(p)
    /\ mounts' = mounts \cup {OssfsMount(p)}
    /\ req' = [req EXCEPT ![p] =
           IF Encrypted(p) THEN [@ EXCEPT !.pc = "resolve", !.todo = <<Ask(p).encPasswd>>]
           ELSE Answered(@, Ask(p).target)]
    /\ UNCHANGED <<tokenVars, scene, hub, params, files, client, owner, keyfiles>>

WriteGocryptfsPasswd(p) ==
    /\ Resolved(p) /\ Ask(p).kind = "oss" /\ req[p].tmp
    /\ req' = [req EXCEPT ![p].pc = "command"]
    /\ UNCHANGED <<tokenVars, scene, hub, params, files, client, owner, mounts, keyfiles>>

MountGocryptfs(p) ==
    /\ req[p].pc = "command" /\ Ask(p).kind = "oss" /\ OnGocryptfs(p)
    /\ mounts' = mounts \cup {GocryptfsMount(p)}
    /\ req' = [req EXCEPT ![p] = Answered(@, Ask(p).target)]
    /\ UNCHANGED <<tokenVars, scene, hub, params, files, client, owner, keyfiles>>

\* LUKS.  The key goes to the file; a key that was given means that the device
\* is formatted already.  luks-encrypt-storage removes the file when it has
\* opened the device, before it makes the file system and mounts it.
WriteStorageKey(p) ==
    /\ Resolved(p) /\ Ask(p).kind = "luks"
    /\ keyfiles' = KeyFile(p, req[p].got[1])
    /\ req' = [req EXCEPT ![p].pc = "command"]
    /\ UNCHANGED <<tokenVars, scene, hub, params, files, client, owner, mounts>>
LuksMount(p) == [fs |-> "luks", at |-> Ask(p).target, over |-> None, by |-> p,
                 with |-> <<keyfiles[p]>>]
Removed(p) == [q \in DOMAIN keyfiles \ {p} |-> keyfiles[q]]
MountLuksKeepsKey(p) ==
    /\ req[p].pc = "command" /\ Ask(p).kind = "luks"
    /\ mounts' = mounts \cup {LuksMount(p)}
    /\ req' = [req EXCEPT ![p] = Answered(@, Ask(p).target)]
    /\ UNCHANGED <<tokenVars, scene, hub, params, files, client, owner, keyfiles>>
MountLuks(p) ==
    /\ req[p].pc = "command" /\ Ask(p).kind = "luks"
    /\ mounts' = mounts \cup {LuksMount(p)}
    /\ keyfiles' = Removed(p)
    /\ req' = [req EXCEPT ![p] = Answered(@, Ask(p).target)]
    /\ UNCHANGED <<tokenVars, scene, hub, params, files, client, owner>>

\* A command cannot be started or exits with an error, for LUKS before the
\* file is removed or after it.
CommandFails(p) ==
    /\ req[p].pc = "command"
    /\ Fails(p, TRUE)
    /\ keyfiles' \in {keyfiles, Removed(p)}
    /\ UNCHANGED <<tokenVars, scene, params, files, client, owner, mounts>>

-----------------------------------------------------------------------------
(* secret_cli unseal: a process of its own, with a client of its own.       *)

CliResult(plan) ==
    CASE plan.ask = "kms" -> plan.answer
      [] plan.ask = "kbs" -> (IF plan.url.path \in DOMAIN Content THEN Content[plan.url.path] ELSE Err)
      [] OTHER -> Err
SecretCli(p) ==
    /\ p \in Clients /\ req[p].pc = "new" /\ Ask(p).kind = "cli"
    /\ LET v == CliResult(CliUnseal(Ask(p).refs[1], Ask(p).keyPath, scene.vault, Ask(p).exists))
       IN req' = [req EXCEPT ![p] = IF v = Err THEN Failed(@, FALSE) ELSE Answered(@, v)]
    /\ UNCHANGED <<tokenVars, scene, hub, params, files, client, owner, mounts, keyfiles>>

-----------------------------------------------------------------------------
(* Callers that give up.                                                    *)

CallerTimesOut(p) ==
    /\ p \in scene.impatient /\ ~Ended(p) /\ req[p].pc # "new" /\ ~req[p].late
    /\ req' = [req EXCEPT ![p].late = TRUE]
    /\ UNCHANGED <<tokenVars, scene, hub, params, files, client, owner, mounts, keyfiles>>

\* The service may then drop the handler wherever it waits: its locks and its
\* directory go with it, a command that it started does not, and mounts or
\* fails as if it were still waited for.
GoesOn(p) ==
    IF req[p].pc # "command" THEN {}
    ELSE CASE Ask(p).kind = "luks" -> {LuksMount(p)}
           [] Ask(p).kind = "oss" /\ OnGocryptfs(p) -> {GocryptfsMount(p)}
           [] OTHER -> {OssfsMount(p)}
DropHandler(p) ==
    /\ req[p].late /\ ~Ended(p)
    /\ req' = [req EXCEPT ![p] = Failed(@, TRUE)]
    /\ owner' = IF owner = p THEN None ELSE owner
    /\ call' = IF owner = p THEN NoCall ELSE call
    /\ \E more \in SUBSET GoesOn(p), removed \in BOOLEAN :
           /\ more # {} => removed
           /\ removed => req[p].pc = "command"
           /\ mounts' = mounts \cup more
           /\ keyfiles' = IF removed THEN Removed(p) ELSE keyfiles
    /\ UNCHANGED <<token, key, job, keys, calls, scene, hub, params, files, client>>
=============================================================================

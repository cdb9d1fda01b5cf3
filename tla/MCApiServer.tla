---------------------------- MODULE MCApiServer -----------------------------
(* The hub and the REST server for TLC: two requests in each scene.         *)
EXTENDS ApiServer

CONSTANTS c1, c2

\* Resources: a is a secret, x is absent, d denied; the others are keys and
\* credentials.
R(name) == <<"default", name, "1">>
Url(path) == [kind |-> "url", scheme |-> "kbs", host |-> "", path |-> path]
Names == {"a", "bin", "kek", "ck", "pw", "ca", "eh", "role", "sts", "stale"}
MCAbsent == {R("x")}
MCDenied == {R("d")}
MCResources == {R(n) : n \in Names} \cup MCAbsent \cup MCDenied

Kek == [kind |-> "kek", of |-> "k"]
ClientKey == [kind |-> "clientKey", key_id |-> "ck1", pswd |-> "p"]
Password == [kind |-> "password", pswd |-> "p"]
Ca == [kind |-> "ca", of |-> "i1"]
EhsmCredential == [kind |-> "ehsm", app |-> "app1", api |-> "k1"]
Role == [kind |-> "ecsRamRole", role |-> "role1", region |-> "r1"]
Sts == [kind |-> "sts", expired |-> FALSE]
Stale == [kind |-> "sts", expired |-> TRUE]
Binary == [kind |-> "blob", id |-> "bin", utf8 |-> FALSE]
MCContent ==
    R("a") :> Blob("a") @@ R("bin") :> Binary @@ R("kek") :> Kek @@ R("ck") :> ClientKey
    @@ R("pw") :> Password @@ R("ca") :> Ca @@ R("eh") :> EhsmCredential @@ R("role") :> Role
    @@ R("sts") :> Sts @@ R("stale") :> Stale

\* Credential files.
Aliyun == <<"clientKey", "ck1">> :> Url(R("ck")) @@ <<"password", "ck1">> :> Url(R("pw"))
          @@ <<"PrivateKmsCA", "i1">> :> Url(R("ca"))
Ehsm == <<"credential", "app1">> :> Url(R("eh"))
EcsRole == <<"ecsRamRole">> :> Url(R("role"))
StsToken(name) == <<"sts">> :> Url(R(name))

NoConfig == [file |-> "none", kbc |-> << >>, credentials |-> << >>]
Config(kbc, credentials) == [file |-> "valid", kbc |-> <<kbc, "addr">>, credentials |-> credentials]

\* What is sealed, and what a vault holds.
Random == [dek |-> "dek", iv |-> "iv", kmsIv |-> "kmsIv"]
AliArg == [driver |-> "ali", client_key |-> ClientKey, instance |-> "i1", password |-> Password,
           cert |-> Ca]
EhsmArg == [driver |-> "ehsm", credential |-> EhsmCredential, endpoint |-> "e1"]
AliSealed == SealEnvelope(AliArg, "id1", Blob("s1"), Random)
EhsmSealed == SealEnvelope(EhsmArg, "id1", Blob("s2"), Random)
Latest == "version_stage" :> "current" @@ "version_id" :> "1"
VaultOf(type, name) == SealVault(name, "Aliyun", "client_type" :> type, Latest)
KbsSealed(name) == SealVault(Url(R(name)), "kbs", << >>, << >>)
MCVault == <<"i1", "v", "current", "1">> :> Blob("v1") @@ <<"r1", "v", "current", "1">> :> Blob("v2")
CkSettings == AliyunExport(ClientKeyClientNew(ClientKey, "i1", Password, Ca))
StsSettings == "client_type" :> "sts_token" @@ "token_path" :> <<"sts">> @@ "region_id" :> "r1"

Packet == [version |-> "0.1.0", provider |-> "kbs", kid |-> Url(R("kek")), kek |-> Kek, iv |-> TRUE,
           wrapType |-> "A256GCM", opts |-> Blob("opts"), provider_settings |-> << >>]
\* A packet of a KMS: what its driver encrypted, with the exported settings.
KmsWrapped == EhsmEncrypt(EhsmNew("app1", "k1", "e1"), Blob("opts2"), "id1")
KmsPacket == [provider |-> "ehsm", kid |-> "id1", wrapped |-> KmsWrapped.blob,
              provider_settings |-> EhsmExport(EhsmNew("app1", "k1", "e1")), annotations |-> << >>]

Mnt == Blob("/mnt")
Get(path, want) == [kind |-> "resource", refs |-> <<Url(path)>>, want |-> want]
GetA == Get(R("a"), Blob("a"))
UnsealAs(sealed, want) == [kind |-> "unseal", refs |-> <<sealed>>, want |-> want]
Unwrap(packet, want) == [kind |-> "unwrap", refs |-> <<packet>>, want |-> want]
Oss(refs, passwd, plain, want) ==
    [kind |-> "oss", refs |-> refs, encPasswd |-> passwd, encrypted |-> passwd # None,
     target |-> Mnt, plain |-> plain, want |-> want]
Luks(ref, plain, want) ==
    [kind |-> "luks", refs |-> <<ref>>, target |-> Mnt, plain |-> <<plain>>, want |-> want]
Cli(sealed, keyPath, exists, want) ==
    [kind |-> "cli", refs |-> <<sealed>>, keyPath |-> keyPath, exists |-> exists, want |-> want]
Rest(local, method, path, query, want) ==
    [kind |-> "rest", refs |-> << >>, want |-> want,
     http |-> [local |-> local, method |-> method, path |-> path, query |-> query]]
Pull(image, packets, want) ==
    [kind |-> "pull", refs |-> packets, image |-> image, want |-> want]
Encrypted1 == Pull(Blob("img1"), <<Packet>>, Blob("img1"))
Plain2 == Pull(Blob("img2"), << >>, Blob("img2"))
WrongKey == Pull(Blob("img3"), <<[Packet EXCEPT !.kid = Url(R("a"))]>>, Err)
RestA == Rest(TRUE, "GET", <<"cdh", "resource">> \o R("a"), {}, Blob("a"))

Scene(config, one, two) ==
    [env |-> None, cmdline |-> None, config |-> config, keysFile |-> None, resourcesFile |-> None,
     vault |-> MCVault, published |-> << >>, ask |-> (c1 :> one @@ c2 :> two),
     features |-> "all", impatient |-> {}, imageConfig |-> << >>]
Cc(one, two) == Scene(Config("cc_kbc", << >>), one, two)

\* Offline: the resources come from two files, of which the second one wins.
Offline(credentials, one, two) ==
    [Scene(Config("offline_fs_kbc", credentials), one, two) EXCEPT
        !.keysFile = [p \in {R("ck"), R("pw"), R("kek"), R("a")} |->
                          IF p = R("a") THEN Blob("old") ELSE MCContent[p]],
        !.resourcesFile = [p \in {R(n) : n \in Names \ {"ck", "pw", "kek"}} |-> MCContent[p]],
        !.published = [f \in DOMAIN credentials |-> MCContent[credentials[f].path]]]
One(credentials, one) == Offline(credentials, one, GetA)

CcScenes ==
    {Cc(GetA, Get(R("d"), Err)),
     Cc(Get(R("x"), Err), UnsealAs(KbsSealed("a"), Blob("a"))),
     [Cc(GetA, RestA) EXCEPT !.impatient = {c1}],
     Cc(RestA, Unwrap(Packet, Blob("opts"))),
     [Scene(Config("cc_kbc", Ehsm), UnsealAs(EhsmSealed, Blob("s2")), GetA)
         EXCEPT !.published = <<"credential", "app1">> :> EhsmCredential],
     Cc(Oss(<<KbsSealed("a"), Blob("sk")>>, KbsSealed("a"), <<Blob("a"), Blob("sk"), Blob("a")>>, Mnt),
        Luks(Url(R("kek")), Kek, Mnt))}

SealedScenes ==
    {One(Aliyun, UnsealAs(AliSealed, Blob("s1"))),
     One(<< >>, UnsealAs(AliSealed, Err)),
     One(Ehsm, UnsealAs(EhsmSealed, Blob("s2"))),
     One(Ehsm, Unwrap(KmsPacket, Blob("opts2"))),
     One(Ehsm, UnsealAs([AliSealed EXCEPT !.body.provider = "vault"], Err)),
     One(<< >>, UnsealAs([AliSealed EXCEPT !.sections = 3], Err)),
     One(<< >>, UnsealAs([AliSealed EXCEPT !.body.version = "0.2.0"], Err)),
     One(<< >>, UnsealAs(Blob("text"), Err)),
     One(Aliyun, UnsealAs(SealVault("v", "aliyun", CkSettings, Latest), Blob("v1"))),
     One(Aliyun, UnsealAs(SealVault("v", "aliyun", CkSettings, << >>), Err)),
     One(EcsRole, UnsealAs(VaultOf("ecs_ram_role", "v"), Blob("v2"))),
     One(EcsRole, UnsealAs(VaultOf("sts_token", "v"), Err)),
     One(EcsRole, UnsealAs(VaultOf("other", "v"), Err)),
     One(StsToken("sts"), UnsealAs(SealVault("v", "aliyun", StsSettings, Latest), Blob("v2"))),
     One(StsToken("stale"), UnsealAs(SealVault("v", "aliyun", StsSettings, Latest), Err)),
     One(<< >>, Cli(AliSealed, [f \in DOMAIN Aliyun |-> MCContent[Aliyun[f].path]], FALSE, Blob("s1"))),
     One(<< >>, Cli(KbsSealed("a"), << >>, FALSE, Blob("a"))),
     One(<< >>, Cli(KbsSealed("a"), << >>, TRUE, Err))}

MountScenes ==
    {[Offline(Aliyun, Oss(<<AliSealed, KbsSealed("a")>>, AliSealed,
                          <<Blob("s1"), Blob("a"), Blob("s1")>>, Mnt),
              Oss(<<Blob("ak"), KbsSealed("bin")>>, None, << >>, Err)) EXCEPT !.impatient = {c1}],
     [Offline(<< >>, Oss(<<Url(R("a")), Blob("sk")>>, None, <<Url(R("a")), Blob("sk")>>, Err),
              Luks(KbsSealed("kek"), Kek, Mnt)) EXCEPT !.impatient = {c2}],
     Offline(<< >>, Oss(<<Blob("ak"), Blob("sk")>>, None, <<Blob("ak"), Blob("sk")>>, Mnt),
             Luks([kind |-> "random"], [kind |-> "random"], Mnt)),
     Offline(<< >>, Luks(Blob("key"), Err, Err), [kind |-> "otherVolume", want |-> Err])}

\* Starts that go wrong, and the precedence of the environment.
StartScenes ==
    {[Cc(GetA, GetA) EXCEPT !.config.file = "missing"],
     Offline(<<"elsewhere">> :> Url(R("a")), GetA, GetA),
     [One(<< >>, GetA) EXCEPT !.resourcesFile = Err],
     [One(<< >>, Get(R("a"), Blob("old"))) EXCEPT !.resourcesFile = None,
                                                 !.ask[c2] = Get(R("ck"), ClientKey)],
     [One(<< >>, GetA) EXCEPT !.env = <<"offline_fs_kbc", "">>, !.config = Config("cc_kbc", << >>)],
     [One(<< >>, GetA) EXCEPT !.config = NoConfig],
     [One(<< >>, GetA) EXCEPT !.config = NoConfig, !.cmdline = <<"cc_kbc">>],
     [One(<< >>, GetA) EXCEPT !.env = <<"cc_kbc", "a", "b">>],
     Scene(Config("online_sev_kbc", << >>), Get(R("a"), Err), [RestA EXCEPT !.want = Err]),
     Scene(Config("eaa_kbc", << >>), GetA, GetA),
     Offline(Ehsm @@ EcsRole, Get(<<"a">>, Err), Get(R("x"), Err))}

RestScenes ==
    {[Offline(<< >>, Rest(local, "GET", <<"cdh", api>> \o R("a"), {},
                           IF local /\ api = "resource" THEN Blob("a") ELSE Err), RestA)
         EXCEPT !.features = features] :
         local \in BOOLEAN, api \in {"resource", "other"},
         features \in {"resource", "attestation", "all", "none"}}
    \cup
    {Offline(<< >>, Rest(TRUE, method, path, query, Err), RestA) :
         method \in {"GET", "POST"},
         path \in {<<"aa", "token">>, <<"aa", "evidence">>, <<"aa", "x">>, <<"aa">>, <<"cdh", "resource">>},
         query \in {{}, {"token_type"}, {"runtime_data"}}}

\* Pulls: the image client's policy comes from the hub itself, there or not.
PullScenes ==
    {[Cc(Encrypted1, Plain2) EXCEPT !.imageConfig = <<Url(R("a"))>>, !.impatient = {c2}],
     Offline(<< >>, WrongKey, Encrypted1),
     [Offline(<< >>, [Plain2 EXCEPT !.want = Err], [Encrypted1 EXCEPT !.want = Err])
         EXCEPT !.imageConfig = <<Url(R("x"))>>]}

MCScenes == PullScenes \cup CcScenes \cup SealedScenes \cup MountScenes \cup StartScenes \cup RestScenes
=============================================================================

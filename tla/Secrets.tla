------------------------------ MODULE Secrets -------------------------------
(***************************************************************************)
(* Sealed secrets and what resolves them: resource URIs, the secret's two  *)
(* layouts, the KMS drivers of Aliyun and eHSM, and the command line tool  *)
(* that seals.                                                             *)
(*                                                                         *)
(* Contents are records with a kind.  A secret or key is a blob [kind, id, *)
(* utf8]; the files that drivers read have kinds of their own.  Provider   *)
(* settings and annotations are functions from field names, as the JSON    *)
(* objects they stand for.  What a KMS returns is right if the request     *)
(* names what the ciphertext was made with.                                *)
(***************************************************************************)
EXTENDS Integers, Sequences, FiniteSets, TLC

CONSTANT Err    \* the result of a call that fails

Has(object, fields) == fields \subseteq DOMAIN object
Blob(id) == [kind |-> "blob", id |-> id, utf8 |-> TRUE]

-----------------------------------------------------------------------------
(* resource_uri: kbs://<addr>/<repository>/<type>/<tag>.  A URL is split as *)
(* the url crate does: [kind, scheme, host, path].                          *)

ResourceUriTryFrom(url) ==
    IF url.scheme = "kbs" /\ Len(url.path) = 3
    THEN [kbs_addr |-> url.host, path |-> url.path] ELSE Err

\* whole_uri, as a URL again; the stores look up the path without the address.
WholeUri(uri) == [kind |-> "url", scheme |-> "kbs", host |-> uri.kbs_addr, path |-> uri.path]
ResourcePath(uri) == uri.path

-----------------------------------------------------------------------------
(* The Aliyun client.  It has three ways to identify itself.                *)

\* A client key is a PKCS#12 file that a password opens.
CredentialClientKey(clientKey, password) ==
    IF clientKey.kind # "clientKey" \/ password.kind # "password" THEN Err
    ELSE IF clientKey.pswd # password.pswd THEN Err
    ELSE clientKey.key_id

ClientKeyClientNew(clientKey, instance, password, cert) ==
    LET id == CredentialClientKey(clientKey, password)
    IN IF id = Err \/ cert.kind # "ca" THEN Err
       ELSE [type |-> "client_key", id |-> id, instance |-> instance, trusts |-> cert.of]

\* In the guest its three files are found by the names in the settings.
ClientKeyFromSettings(settings, files) ==
    LET cert == <<"PrivateKmsCA", settings.kms_instance_id>>
        pswd == <<"password", settings.client_key_id>>
        ck == <<"clientKey", settings.client_key_id>>
    IN IF ~Has(settings, {"client_key_id", "kms_instance_id"}) THEN Err
       ELSE IF ~Has(files, {cert, pswd, ck}) THEN Err
       ELSE ClientKeyClientNew(files[ck], settings.kms_instance_id, files[pswd], files[cert])

\* The role is in a file; the settings are not looked at.
EcsRamRoleNew(role, region) == [type |-> "ecs_ram_role", role |-> role, region |-> region]
EcsRamRoleFromSettings(files) ==
    LET path == <<"ecsRamRole">>
    IN IF ~Has(files, {path}) THEN Err
       ELSE IF files[path].kind # "ecsRamRole" THEN Err
       ELSE EcsRamRoleNew(files[path].role, files[path].region)

\* The token is in the file the settings name, in three sections.
StsTokenFromSettings(settings, files) ==
    IF ~Has(settings, {"token_path", "region_id"}) THEN Err
    ELSE IF ~Has(files, {settings.token_path}) THEN Err
    ELSE IF files[settings.token_path].kind # "sts" THEN Err
    ELSE [type |-> "sts_token", token |-> files[settings.token_path], region |-> settings.region_id]

AliyunFromSettings(settings, files) ==
    IF ~Has(settings, {"client_type"}) THEN Err
    ELSE CASE settings.client_type = "client_key" -> ClientKeyFromSettings(settings, files)
           [] settings.client_type = "ecs_ram_role" -> EcsRamRoleFromSettings(files)
           [] settings.client_type = "sts_token" -> StsTokenFromSettings(settings, files)
           [] OTHER -> Err

ClientKeyExport(client) ==
    "client_key_id" :> client.id @@ "kms_instance_id" :> client.instance
\* The two others export no field of their own.
OtherExport == << >>
AliyunExport(client) ==
    "client_type" :> client.type
        @@ (IF client.type = "client_key" THEN ClientKeyExport(client) ELSE OtherExport)

\* build_headers, do_request: signed with the client key, to the instance's own
\* endpoint, over TLS that trusts the given CA.
DoRequest(client, answer) == IF client.trusts = client.instance THEN answer ELSE Err

\* Only a client key encrypts and decrypts.  The KMS chooses an IV, which the
\* annotations carry.
AliyunEncrypt(client, data, keyId, iv) ==
    IF client.type # "client_key" THEN Err
    ELSE [blob |-> DoRequest(client, [data |-> data, key |-> keyId, at |-> client.instance, iv |-> iv]),
          annotations |-> "iv" :> iv]
AliyunDecrypt(client, ciphertext, keyId, annotations) ==
    IF client.type # "client_key" \/ ~Has(annotations, {"iv"}) THEN Err
    ELSE DoRequest(client,
             IF [ciphertext EXCEPT !.data = Err]
                    = [data |-> Err, key |-> keyId, at |-> client.instance, iv |-> annotations.iv]
             THEN ciphertext.data ELSE Err)

\* A stored secret, by name, stage and version.  vault: what the KMS has, for
\* each way in: an instance, or a region.
VaultAt(vault, place, name, annotations) ==
    LET id == <<place, name, annotations.version_stage, annotations.version_id>>
    IN IF id \in DOMAIN vault THEN vault[id] ELSE Err
ClientKeyGetSecret(client, vault, name, annotations) ==
    DoRequest(client, VaultAt(vault, client.instance, name, annotations))
\* Signed with the token's key, in the query; a token that has expired is
\* refused.
StsDoRequest(client, answer) == IF client.token.expired THEN Err ELSE answer
StsTokenGetSecret(client, vault, name, annotations) ==
    StsDoRequest(client, VaultAt(vault, client.region, name, annotations))
\* The metadata service lends a token to the role, each time anew.
SessionCredential(client) ==
    [type |-> "sts_token", token |-> [kind |-> "sts", expired |-> FALSE], region |-> client.region]
EcsRamRoleGetSecret(client, vault, name, annotations) ==
    StsTokenGetSecret(SessionCredential(client), vault, name, annotations)
AliyunGetSecret(client, vault, name, annotations) ==
    IF ~Has(annotations, {"version_stage", "version_id"}) THEN Err
    ELSE CASE client.type = "client_key" -> ClientKeyGetSecret(client, vault, name, annotations)
           [] client.type = "ecs_ram_role" -> EcsRamRoleGetSecret(client, vault, name, annotations)
           [] OTHER -> StsTokenGetSecret(client, vault, name, annotations)

-----------------------------------------------------------------------------
(* The eHSM client.                                                         *)

EhsmNew(app, apiKey, endpoint) == [type |-> "ehsm", app |-> app, api |-> apiKey, endpoint |-> endpoint]
EhsmFromSettings(settings, files) ==
    LET path == <<"credential", settings.app_id>>
    IN IF ~Has(settings, {"app_id", "endpoint"}) THEN Err
       ELSE IF ~Has(files, {path}) THEN Err
       ELSE IF files[path].kind # "ehsm" THEN Err
       ELSE EhsmNew(settings.app_id, files[path].api, settings.endpoint)
EhsmExport(client) == "app_id" :> client.app @@ "endpoint" :> client.endpoint

\* The service opens what the same application's key of that id closed.
EhsmEncrypt(client, data, keyId) ==
    [blob |-> [data |-> data, key |-> keyId, at |-> <<client.endpoint, client.app, client.api>>],
     annotations |-> << >>]
EhsmDecrypt(client, ciphertext, keyId) ==
    IF ciphertext.key = keyId /\ ciphertext.at = <<client.endpoint, client.app, client.api>>
    THEN ciphertext.data ELSE Err

-----------------------------------------------------------------------------
(* kms::new_decryptor, new_getter: by the provider's name, in any case.     *)

Lower == [Aliyun |-> "aliyun", aliyun |-> "aliyun", ehsm |-> "ehsm", kbs |-> "kbs", KBS |-> "kbs"]
Provider(name, known) == IF Has(Lower, {name}) /\ Lower[name] \in known THEN Lower[name] ELSE Err

NewDecryptor(name, settings, files) ==
    LET provider == Provider(name, {"aliyun", "ehsm"})
    IN CASE provider = "aliyun" -> AliyunFromSettings(settings, files)
         [] provider = "ehsm" -> EhsmFromSettings(settings, files)
         [] OTHER -> Err

Decrypt(client, ciphertext, keyId, annotations) ==
    IF client.type = "ehsm" THEN EhsmDecrypt(client, ciphertext, keyId)
                            ELSE AliyunDecrypt(client, ciphertext, keyId, annotations)

-----------------------------------------------------------------------------
(* Secret: sealed.<header>.<base64 of JSON>.<signature>.  A token is        *)
(* [sections, body]; the signature is not checked.                          *)

Version == "0.1.0"
ToSigned(secret) == [kind |-> "token", sections |-> 4, body |-> secret]
FromSigned(token) == IF token.kind # "token" \/ token.sections # 4 THEN Err ELSE token.body

\* An envelope opens with the data key that its KMS decrypts.  To open it is
\* one call of the KMS; Err where the driver cannot be built.
EnvelopeClient(secret, files) == NewDecryptor(secret.provider, secret.provider_settings, files)
EnvelopeOpen(secret, client) ==
    LET dek == Decrypt(client, secret.encrypted_key, secret.key_id, secret.annotations)
    IN IF dek = Err \/ secret.encrypted_data.by # <<dek, secret.iv>> THEN Err
       ELSE secret.encrypted_data.blob

\* What unsealing asks for, once everything that needs no other party is done:
\* a resource of the KBS, a call whose answer is known here, or an error.
NothingToAsk == [ask |-> "error"]
AskKbs(url) == [ask |-> "kbs", url |-> url]
AskKms(answer) == [ask |-> "kms", answer |-> answer]

EnvelopeUnseal(secret, files) ==
    LET client == EnvelopeClient(secret, files)
    IN IF client = Err THEN NothingToAsk ELSE AskKms(EnvelopeOpen(secret, client))

VaultUnseal(secret, files, vault) ==
    LET provider == Provider(secret.provider, {"kbs", "aliyun"})
        client == AliyunFromSettings(secret.provider_settings, files)
    IN CASE provider = "kbs" -> AskKbs(secret.name)
         [] provider = "aliyun" ->
              (IF client = Err THEN NothingToAsk
               ELSE AskKms(AliyunGetSecret(client, vault, secret.name, secret.annotations)))
         [] OTHER -> NothingToAsk

Unseal(token, files, vault) ==
    LET secret == FromSigned(token)
    IN IF secret = Err THEN NothingToAsk
       ELSE IF secret.version # Version THEN NothingToAsk
       ELSE IF secret.layout = "envelope" THEN EnvelopeUnseal(secret, files)
       ELSE VaultUnseal(secret, files, vault)

-----------------------------------------------------------------------------
(* secret_cli.  Its arguments: the driver's files or values, the key's id,  *)
(* the file to seal; its random bytes: a data key and two IVs.              *)

HandleEnvelopeProvider(arg) ==
    IF arg.driver = "ali"
    THEN LET client == ClientKeyClientNew(arg.client_key, arg.instance, arg.password, arg.cert)
         IN [client |-> client, settings |-> AliyunExport(client), provider |-> "aliyun"]
    ELSE LET client == EhsmNew(arg.credential.app, arg.credential.api, arg.endpoint)
         IN [client |-> client, settings |-> EhsmExport(client), provider |-> "ehsm"]

SealEnvelope(arg, keyId, blob, random) ==
    LET driver == HandleEnvelopeProvider(arg)
        wrapped == IF driver.client.type = "ehsm" THEN EhsmEncrypt(driver.client, random.dek, keyId)
                   ELSE AliyunEncrypt(driver.client, random.dek, keyId, random.kmsIv)
    IN IF driver.client = Err THEN Err ELSE IF wrapped.blob = Err THEN Err
       ELSE ToSigned([version |-> Version, layout |-> "envelope", key_id |-> keyId,
                 encrypted_key |-> wrapped.blob,
                 encrypted_data |-> [by |-> <<random.dek, random.iv>>, blob |-> blob],
                 iv |-> random.iv, provider |-> driver.provider,
                 provider_settings |-> driver.settings, annotations |-> wrapped.annotations])

SealVault(name, provider, settings, annotations) ==
    ToSigned([version |-> Version, layout |-> "vault", name |-> name, provider |-> provider,
              provider_settings |-> settings, annotations |-> annotations])

\* The tool's own unsealing.  Its drivers read the directory it is given, if it
\* is needed by the provider's name as written; it does not overwrite a file.
CliUnseal(token, keyPath, vault, outputExists) ==
    LET secret == FromSigned(token)
        plan == Unseal(token, keyPath, vault)
    IN IF secret = Err \/ outputExists THEN NothingToAsk
       ELSE IF secret.provider \in {"aliyun", "ehsm"} /\ keyPath = << >> THEN NothingToAsk
       ELSE plan
=============================================================================

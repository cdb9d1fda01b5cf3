------------------------------- MODULE KeyWrap -------------------------------
(***************************************************************************)
(* ocicrypt-rs: how the key of an encrypted layer is wrapped into the      *)
(* layer's annotations and unwrapped from them; the key provider of the    *)
(* publisher (coco_keyprovider) and the hub's unwrapping of its packets.   *)
(*                                                                         *)
(* Keys are identities: a key file holds the public or the private key of  *)
(* an owner, a wrapped key names who can unwrap it and what is inside.     *)
(* The layer's private options are [key, nonce]; Empty stands for options  *)
(* of no bytes.                                                            *)
(***************************************************************************)
EXTENDS Integers, Sequences, FiniteSets, SequencesExt

CONSTANTS
    Err,      \* the result of a call that fails
    None,     \* an absent option
    Empty,    \* an empty byte string
    File      \* the key files: name -> [kind, of]

-----------------------------------------------------------------------------
(* config.rs: parameters, a map from names to lists of values.              *)

\* update_param appends to what is there; callers skip empty lists.
Values(param, name) == IF name \in DOMAIN param THEN param[name] ELSE <<>>
UpdateParam(a, b) == [n \in DOMAIN a \cup DOMAIN b |-> Values(a, n) \o Values(b, n)]
NonEmpty(lists) == [n \in {m \in DOMAIN lists : lists[m] # <<>>} |-> lists[n]]

\* Key providers NAME:PARAMETERS; one without parameters is just enabled.
WithKeyProviders(param, providers) ==
    LET under(n) == SelectSeq(providers, LAMBDA p : p.name = n)
    IN UpdateParam(param,
           [n \in {p.name : p \in ToSet(providers)} |->
                [i \in DOMAIN under(n) |-> IF under(n)[i].value = None THEN "Enabled"
                                                                     ELSE under(n)[i].value]])

-----------------------------------------------------------------------------
(* helpers.rs: recipients and keys as the command line gives them.          *)

\* A recipient is PROTOCOL:VALUE; these protocols name a file.
FileProtocols == {"jwe", "pkcs7", "pkcs11"}
Protocols == FileProtocols \cup {"pgp", "provider"}
IllegalRecipient(r) == \/ r.protocol \notin Protocols
                       \/ r.protocol \in FileProtocols /\ r.value \notin DOMAIN File

\* The recipients sorted by protocol.
ProcessRecipientKeys(recipients) ==
    IF \E i \in DOMAIN recipients : IllegalRecipient(recipients[i]) THEN Err
    ELSE [p \in Protocols |->
            LET mine == SelectSeq(recipients, LAMBDA r : r.protocol = p)
            IN [i \in DOMAIN mine |-> IF p \in FileProtocols THEN File[mine[i].value]
                                                             ELSE mine[i].value]]

\* A key is FILE, FILE:PASSWORD (from a file or given) or provider:....  A file
\* without a password may hold a certificate, if it is there at all.
IsProvider(k) == k.protocol = "provider"
ProcessX509Certs(keys) ==
    LET certs == SelectSeq(keys, LAMBDA k : ~IsProvider(k) /\ k.pwd = None /\ k.value \in DOMAIN File)
    IN [i \in DOMAIN certs |-> File[certs[i].value]]

ProcessPwdString(pwd) ==
    IF pwd = None THEN Empty
    ELSE IF ~pwd.fromFile THEN pwd.value
    ELSE IF pwd.value \in DOMAIN File THEN File[pwd.value] ELSE Err

\* Every file goes to all of the lists, whatever it holds.
ProcessPrivateKeyfiles(keys) ==
    LET files == SelectSeq(keys, LAMBDA k : ~IsProvider(k))
        providers == SelectSeq(keys, IsProvider)
    IN IF \E i \in DOMAIN files : \/ files[i].value \notin DOMAIN File
                                  \/ ProcessPwdString(files[i].pwd) = Err
       THEN Err
       ELSE [contents |-> [i \in DOMAIN files |-> File[files[i].value]],
             passwords |-> [i \in DOMAIN files |-> ProcessPwdString(files[i].pwd)],
             providers |-> [i \in DOMAIN providers |-> providers[i].value]]

CreateDecryptConfig(keys, decRecipients) ==
    LET sorted == ProcessRecipientKeys(decRecipients)
        private == ProcessPrivateKeyfiles(keys)
    IN IF sorted = Err \/ private = Err THEN Err
       ELSE WithKeyProviders(
                NonEmpty([gpgPrivatekeys |-> private.contents,
                          gpgPrivatekeysPasswords |-> private.passwords,
                          x509s |-> sorted["pkcs7"] \o ProcessX509Certs(keys),
                          privkeys |-> private.contents,
                          privkeysPasswords |-> private.passwords,
                          pkcs11Yamls |-> private.contents]),
                private.providers)

\* The configuration also holds the one to decrypt with, if keys are given.
CreateEncryptConfig(recipients, keys) ==
    LET sorted == ProcessRecipientKeys(recipients)
        dc == IF keys = <<>> THEN None ELSE CreateDecryptConfig(keys, <<>>)
    IN IF sorted = Err \/ dc = Err THEN Err
       ELSE [param |-> WithKeyProviders(
                           NonEmpty([gpgRecipients |-> sorted["pgp"], x509s |-> sorted["pkcs7"],
                                     pubkeys |-> sorted["jwe"], pkcs11Pubkeys |-> sorted["pkcs11"],
                                     pkcs11Yamls |-> sorted["pkcs11"]]),
                           sorted["provider"]),
             dc |-> dc]

-----------------------------------------------------------------------------
(* lib.rs, keywrap/: the wrappers.  One for JWE, if the build has it, and   *)
(* one for each provider of the configuration file: [scheme, name, attrs].  *)
(* Their order is that of a hash map: any.                                  *)

JweWrapper == [scheme |-> "jwe", name |-> None, attrs |-> {}]
KeyProviderWrapper(name, attrs) == [scheme |-> "provider", name |-> name, attrs |-> attrs]

\* KEY_WRAPPERS: a configuration file that cannot be read ends the process.
KeyWrappers(jwe, config) ==
    IF config = Err THEN Err
    ELSE (IF jwe THEN {JweWrapper} ELSE {})
         \cup (IF config = None THEN {} ELSE {KeyProviderWrapper(n, config[n]) : n \in DOMAIN config})

AnnotationId(w) == <<w.scheme, w.name>>
PubOpts == <<"pubopts", None>>

\* The transport of a provider: the first of these that is configured.
Transport(w) ==
    LET order == <<"cmd", "grpc", "ttrpc", "native">>
        given == SelectSeq(order, LAMBDA t : t \in w.attrs)
    IN IF given = <<>> THEN None ELSE given[1]

\* Jwe: the private keys in order; one that is no private key ends the search.
JweWrap(ec, opts) ==
    LET pubkeys == Values(ec.param, "pubkeys")
    IN IF pubkeys = <<>> \/ \E i \in DOMAIN pubkeys : pubkeys[i].kind # "public" THEN Err
       ELSE [to |-> {pubkeys[i].of : i \in DOMAIN pubkeys}, opts |-> opts]
JweUnwrap(dc, packet) ==
    LET privkeys == Values(dc, "privkeys")
        hits == {i \in DOMAIN privkeys : privkeys[i].kind = "private" /\ privkeys[i].of \in packet.to}
        bad == {i \in DOMAIN privkeys : privkeys[i].kind # "private"}
    IN IF hits # {} /\ \A b \in bad : \E h \in hits : h < b THEN packet.opts ELSE Err

\* from_grpc, from_ttrpc, from_native: reply is what the service at the other
\* end answers, or an error of the transport; native needs a KBC to speak to.
FromService(w, reply) == IF Transport(w) \in {"grpc", "ttrpc"} THEN reply ELSE Err
FromNative(w, dc, reply) ==
    IF Transport(w) = "native" /\ Values(dc, "attestation-agent") # <<>> THEN reply ELSE Err

\* A provider wraps for the parameters under its name.  No runner is ever given
\* to the command transport, and the native one cannot wrap.
ProviderWrap(w, ec, reply) ==
    IF w.name \in DOMAIN ec.param THEN FromService(w, reply) ELSE Err
ProviderUnwrap(w, dc, reply) ==
    IF Transport(w) = "native" THEN FromNative(w, dc, reply) ELSE FromService(w, reply)

WrapKeys(w, ec, opts, reply) ==
    IF w.scheme = "jwe" THEN JweWrap(ec, opts) ELSE ProviderWrap(w, ec, reply)
\* reply[p]: what the provider's service answers for packet p.
UnwrapKeys(w, dc, packet, reply) ==
    IF w.scheme = "jwe" THEN JweUnwrap(dc, packet) ELSE ProviderUnwrap(w, dc, reply[packet])

Probe(w, dc) == w.scheme = "provider" \/ "privkeys" \in DOMAIN dc

-----------------------------------------------------------------------------
(* encryption.rs.                                                           *)

\* finalize_annotations: each wrapper adds a packet to its annotation, and one
\* that fails fails all.  Without a finalizer both options are empty.
FinalizeAnnotations(wrappers, ec, annotations, priv, pub, reply) ==
    LET packet == [w \in wrappers |-> WrapKeys(w, ec, priv, reply)]
        ids == {AnnotationId(w) : w \in wrappers}
        wrapper(id) == CHOOSE w \in wrappers : AnnotationId(w) = id
    IN IF wrappers = {} \/ \E w \in wrappers : packet[w] = Err THEN Err
       ELSE [id \in ids \cup {PubOpts} |->
                IF id = PubOpts THEN pub
                ELSE Append(Values(annotations, id), packet[wrapper(id)])]

\* pre_unwrap_key: the first packet that can be unwrapped.
PreUnwrapKey(w, dc, packets, reply) ==
    LET good == {i \in DOMAIN packets : UnwrapKeys(w, dc, packets[i], reply) # Err}
    IN IF good = {} THEN Err
       ELSE UnwrapKeys(w, dc, packets[CHOOSE i \in good : \A j \in good : i <= j], reply)

\* A provider takes the first annotation of any provider.
GetLayerKeyOpts(w, annotations) ==
    LET ids == {id \in DOMAIN annotations :
                    IF w.scheme = "provider" THEN id[1] = "provider" ELSE id = AnnotationId(w)}
    IN IF ids = {} THEN None ELSE annotations[CHOOSE id \in ids : TRUE]

\* The packets that a provider may be asked to unwrap.
ProviderPackets(annotations) ==
    UNION {ToSet(annotations[id]) : id \in {i \in DOMAIN annotations : i[1] = "provider"}}

\* The wrappers in the map's order: the first that finds an annotation and is
\* configured decides, unless the options it unwraps are empty.
DecryptLayerKeyOptsData(order, dc, annotations, reply) ==
    LET able == {i \in DOMAIN order : /\ GetLayerKeyOpts(order[i], annotations) # None
                                      /\ Probe(order[i], dc)}
        result == [i \in able |->
                      PreUnwrapKey(order[i], dc, GetLayerKeyOpts(order[i], annotations), reply)]
        stops == {i \in able : result[i] # Empty}
    IN IF stops = {} THEN Err ELSE result[CHOOSE i \in stops : \A j \in stops : i <= j]

GetLayerPubOpts(annotations) ==
    IF PubOpts \in DOMAIN annotations THEN annotations[PubOpts] ELSE [cipher |-> None, hmac |-> None, nonce |-> None]

\* encrypt_layer on a layer with annotations: its key must be unwrapped, and
\* nothing is encrypted again.
AlreadyEncrypted(wrappers, annotations) ==
    \E w \in wrappers : AnnotationId(w) \in DOMAIN annotations
MayRewrap(order, ec, annotations, reply) ==
    ec.dc # None /\ DecryptLayerKeyOptsData(order, ec.dc, annotations, reply) # Err

-----------------------------------------------------------------------------
(* coco_keyprovider: the service that wraps for the publisher.              *)

HardcodedKeyId == "kbs:///default/test-key/1"
HardcodedKey == [kind |-> "kek", of |-> HardcodedKeyId]
Algorithms == {"A256GCM", "A256CTR"}

\* parse_input_params takes the algorithm from the field of the key's path.
ParseInputParams(p) ==
    [p EXCEPT !.algorithm = IF p.keypath \in Algorithms THEN p.keypath ELSE "A256GCM"]

\* The key and its id: hard-coded, from a file, or random.
GenerateKeyParameters(p, random) ==
    IF p.sample THEN [key |-> HardcodedKey, kid |-> HardcodedKeyId]
    ELSE IF p.keypath # None /\ p.keypath \notin DOMAIN File THEN Err
    ELSE [key |-> IF p.keypath = None THEN random ELSE File[p.keypath],
          kid |-> IF p.keyid = None THEN random.of ELSE p.keyid]

\* normalize_path wants four parts; encrypt wants 32 bytes for AES-GCM, and
\* never gets the 16 bytes of IV it needs for AES-CTR.
IllFormed == "a/b"
NormalizePath(kid) == IF kid = IllFormed THEN Err ELSE kid
Encrypts(algorithm, key) == algorithm = "A256GCM" /\ key.kind = "kek"

\* enc_optsdata_gen_anno: the packet, and the key to register, if the service
\* knows a KBS and the key is not the sample's.
EncOptsdataGenAnno(opts, params, random, kbsGiven) ==
    LET p == ParseInputParams(params)
        k == GenerateKeyParameters(p, random)
    IN IF k = Err THEN Err
       ELSE IF NormalizePath(k.kid) = Err \/ ~Encrypts(p.algorithm, k.key) THEN Err
       ELSE [packet |-> [version |-> "0.1.0", provider |-> "kbs", kid |-> k.kid, kek |-> k.key,
                         iv |-> TRUE, wrapType |-> p.algorithm, opts |-> opts],
             register |-> IF kbsGiven /\ ~p.sample THEN k.key ELSE None]

\* wrap_key: the options must come in base64, as the Go library sends them;
\* ocicrypt-rs sends them as they are.
WrapKeyService(form, opts, ec, random, kbsGiven) ==
    IF form # "base64" \/ Values(ec.param, "attestation-agent") = <<>> THEN Err
    ELSE EncOptsdataGenAnno(opts, Values(ec.param, "attestation-agent")[1], random, kbsGiven)

-----------------------------------------------------------------------------
(* The hub: image/annotation_packet.  kek is what its KBS or KMS client     *)
(* got.                                                                     *)

\* v2 to v1: for the provider kbs, version, wrap type and IV must be there.
\* Then AES-GCM opens the packet with the right key only.
UnwrapV1(packet, kek) ==
    IF packet.wrapType \notin Algorithms \/ kek = Err THEN Err
    ELSE IF kek = packet.kek THEN packet.opts ELSE Err
UnwrapPacket(packet, kek) ==
    IF packet.provider = "kbs"
    THEN IF packet.version = "0.1.0" /\ packet.iv /\ packet.wrapType # None
         THEN UnwrapV1(packet, kek) ELSE Err
    ELSE IF packet.provider \in {"aliyun", "ehsm"} /\ kek # Err THEN packet.opts ELSE Err
=============================================================================

---------------------------- MODULE ClientConfig ----------------------------
(***************************************************************************)
(* image-rs: the configuration of an image client, where its resources are *)
(* read from, and the credential that its registry file has for an image.  *)
(*                                                                         *)
(* A configuration file is a function from the fields it gives.  A key of  *)
(* the registry file is a sequence of tokens, as a name is: a part of a    *)
(* name, or a URL that begins with "https://" or "http://".                *)
(***************************************************************************)
EXTENDS References, TLC

CONSTANTS
    Unreadable,    \* a content that does not parse
    BadCreds       \* the credentials decode_auth does not take

-----------------------------------------------------------------------------
(* ImageConfig.                                                             *)

\* Without the features "nydus" and "keywrap-native".
DefaultConfig ==
    [auth |-> None, sigstore |-> None, policy |-> None, nydus |-> None, badCert |-> FALSE]

\* NydusConfig::validate: a known type, with the configuration of that type.
NydusValid(n) == n.type \in {"fuse", "fscache"} /\ n.type \in n.has
ConfigValid(c) == c.nydus # None => NydusValid(c.nydus)

\* ImageConfig::try_from: the fields the file gives, defaults for the others.
ConfigFrom(file) ==
    IF file = Unreadable THEN None
    ELSE LET c == file @@ DefaultConfig IN IF ConfigValid(c) THEN c ELSE None

\* ResourceProvider::get_resource: no scheme is a file.
Scheme(uri) == IF uri = "none" THEN "file" ELSE uri

-----------------------------------------------------------------------------
(* Auth::credential_for_reference.                                          *)

Anonymous == "anonymous"

\* normalize_registry: Docker Hub has several names.
DockerIo == <<"docker", ".", "io">>
IndexDockerIo == <<"index", ".">> \o DockerIo
NormalizeRegistry(r) ==
    IF r \in {DockerIo, <<"registry-1", ".">> \o DockerIo} THEN IndexDockerIo ELSE r

\* normalize_key_to_registry: the host of a URL; another key as it is.
IsUrl(key) == Head(key) \in {"https://", "http://"}
UpToSlash(s) == IF Cuts(s, "/") = <<>> THEN s ELSE SubSeq(s, 1, Head(Cuts(s, "/")) - 1)
NormalizeKey(key) == NormalizeRegistry(IF IsUrl(key) THEN UpToSlash(Tail(key)) ELSE key)

\* Reference::resolve_registry, of oci_client.
ResolveRegistry(ref) ==
    LET registry == UpToSlash(ref.name)
    IN IF registry = DockerIo THEN IndexDockerIo ELSE registry

\* auth_keys_for_key: the name and its parents, best first.
AuthKeys(ref) == <<ref.name>> \o Parents(ref.name)

\* decode_auth.
Decoded(cred) == IF cred \in BadCreds THEN None ELSE cred

\* credential_from_auth_config: the first key that is there, or a key for the
\* registry, any one if there are several, or none.
Credentials(ref, auths) ==
    LET key == FirstIn(AuthKeys(ref), auths)
        hosts == {k \in DOMAIN auths : NormalizeKey(k) = NormalizeRegistry(ResolveRegistry(ref))}
    IN IF key # None THEN {Decoded(auths[key])}
       ELSE IF hosts # {} THEN {Decoded(auths[k]) : k \in hosts}
       ELSE {Anonymous}

\* pull_image: the caller's credential, the file's, or none.
AuthFor(ref, input, auths) ==
    CASE input # None -> {Decoded(input)}
      [] input = None /\ auths # None -> Credentials(ref, auths)
      [] input = None /\ auths = None -> {Anonymous}
=============================================================================

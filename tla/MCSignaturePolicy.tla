------------------------- MODULE MCSignaturePolicy --------------------------
(* SignaturePolicy for TLC.  The setups come in five groups: policies that   *)
(* differ in their scopes, in the requirements of a scope, in the files of   *)
(* the sigstore configuration, in the registry's own signatures, and clients *)
(* that differ in what their configuration file names.                       *)
EXTENDS SignaturePolicy

-----------------------------------------------------------------------------
(* Names and references.                                                    *)

RegIo == <<"r", ".", "io">>
RegCo == <<"r", ".", "co", ".", "uk", ":", "80">>
Apps == RegIo \o <<"/", "apps">>
AppsX == Apps \o <<"/", "x">>
AppsXY == Apps \o <<"x", "/", "y">>      \* "appsx" is not in "apps"
OnPort == RegCo \o <<"/", "x">>

Tagged(name, tag) == [name |-> name, tag |-> tag, digest |-> None]
By(name, digest) == [name |-> name, tag |-> None, digest |-> digest]
Bare(name) == [name |-> name, tag |-> None, digest |-> None]

Hub == DockerIo \o <<"/", "busybox">>
ImagesDef == {Tagged(Hub, "v1"), Tagged(AppsX, "v1"), By(AppsX, "d2"), Tagged(AppsXY, "v1"), Tagged(OnPort, "v1")}

-----------------------------------------------------------------------------
(* Signatures: of an image, of another tag of it, by another key, with a     *)
(* false issuer, of another digest, and for a cosign image one for another   *)
(* repository.                                                              *)

Sig(by, name, digest, ref) ==
    [by |-> by, issuer |-> by, at |-> <<Repository(name), digest>>, digest |-> digest, ref |-> ref]
SimpleSigsDef ==
    "file1" :> {Sig("k1", AppsX, "d1", Tagged(AppsX, "v1")), Sig("k2", AppsX, "d1", Tagged(AppsX, "v2")),
                Sig("k1", AppsX, "d2", Tagged(AppsX, "v2")),
                [Sig("k1", OnPort, "d1", Tagged(OnPort, "v1")) EXCEPT !.issuer = "k2"]} @@
    "file2" :> {[Sig("k1", AppsX, "d2", Tagged(AppsX, "v1")) EXCEPT !.digest = "d1"],
                Sig("k2", OnPort, "d1", Tagged(RegIo \o <<"/", "x">>, "v1"))}
CosignSig(by, digest, ref) == [by |-> by, at |-> digest, digest |-> digest, ref |-> ref]
CosignSigsDef ==
    {CosignSig("k1", "d1", Bare(AppsX)), CosignSig("k2", "d1", Bare(AppsX)),
     CosignSig("k1", "d2", Bare(AppsX)), CosignSig("k2", "d2", Bare(OnPort))}

-----------------------------------------------------------------------------
(* Setups.                                                                  *)

Accept == [type |-> "accept"]
Reject == [type |-> "reject"]
Simple(path, data, rule) ==
    [type |-> "simple", gpg |-> TRUE, path |-> path, data |-> data, rule |-> rule]
Cosigned(path, data, rule) == [type |-> "cosign", path |-> path, data |-> data, rule |-> rule]

Sigstore(default, docker) == [default |-> default, docker |-> docker]
Inline == Sigstore("file1", RegCo :> "file2")

\* One scope is rejected among accepted ones, or the other way round.
Scopes == {<<>>, RegIo, Apps, AppsX \o <<":", "v1">>, RegCo, <<"*", ".", "io">>,
           <<"*", ".", "uk">>, <<"*", ".", "co", ".", "uk">>}
Setup(policy, sigstore, files) ==
    [file |-> [policy |-> "file"] @@ (IF sigstore = None THEN <<>> ELSE [sigstore |-> "file"]),
     policy |-> policy, sigstore |-> sigstore, auths |-> <<>>, files |-> files, registry |-> None,
     inputs |-> {None}]
ScopeSetups ==
    {Setup([default |-> <<Reject>>,
            docker |-> [s \in two |-> IF s = one THEN <<Accept>> ELSE <<Reject>>]], None, {}) :
        two \in {t \in SUBSET Scopes : Cardinality(t) \in {0, 2}}, one \in Scopes}

Rules == {None, [type |-> "matchExact"], [type |-> "matchRepository"],
          [type |-> "exactReference", ref |-> Tagged(AppsX, "v2")],
          [type |-> "exactRepository", name |-> AppsX],
          [type |-> "remapIdentity", prefix |-> RegCo, signed |-> RegIo]}
Requirements ==
    {<<Simple("kbs", None, r)>> : r \in Rules} \cup
    {<<Cosigned("kbs", None, r)>> : r \in {q \in Rules : q = None \/ q.type \in
                                             {"matchExact", "matchRepository", "exactRepository"}}} \cup
    {<<Simple("file", None, None), Cosigned("kbs", None, None)>>, <<Simple("none", None, None)>>,
     <<Cosigned(None, "k2", None), Simple("kbs", None, [type |-> "matchRepository"])>>,
     <<Simple("kbs", "k1", None)>>, <<Cosigned(None, None, None)>>, <<Cosigned("http", None, None)>>,
     <<[Simple("kbs", None, None) EXCEPT !.gpg = FALSE]>>, <<Accept, Reject>>, <<>>}
RequirementSetups ==
    {Setup([default |-> reqs, docker |-> <<>>], Inline, {}) : reqs \in Requirements}

Files == {Sigstore(None, Apps :> "file1"), Sigstore(None, Apps :> "file2"), Sigstore("file1", <<>>),
          Sigstore("http", AppsX :> "file1"), Sigstore(None, RegCo :> "file2" @@ RegIo :> "http")}
ByK1 == [default |-> <<Simple(None, "k1", None)>>, docker |-> <<>>]
ConfigSetups ==
    {Setup(ByK1, own, files) :
        own \in {Sigstore(None, <<>>), Inline}, files \in {f \in SUBSET Files : Cardinality(f) \in 1..3}}

\* The registry's signatures: a good one, one by another key, one not in base64.
InRegistry(by, base64) == [base64 |-> base64] @@ Sig(by, AppsX, "d1", Tagged(AppsX, "v1"))
Auths == Apps :> "u1" @@ AppsX :> "u2" @@ <<"https://">> \o RegCo \o <<"/", "v1">> :> "u3"
         @@ <<"https://">> \o IndexDockerIo \o <<"/", "v1", "/">> :> "u4"
RegistrySetups ==
    {[Setup(ByK1, own, {}) EXCEPT !.registry = sigs, !.file = @ @@ file, !.auths = Auths] :
        own \in {Sigstore(None, <<>>), Sigstore("file2", <<>>), Inline},
        file \in {<<>>, [auth |-> "file"]},
        sigs \in {{}, {InRegistry("k1", TRUE)}, {InRegistry("k1", TRUE), InRegistry("k2", FALSE)}}}

\* Clients: without a policy, with resources of the KBS, bad ones, and with
\* credentials of several forms.
Uris == {<<>>, [auth |-> "kbs"], [auth |-> "kbs", policy |-> "kbs", sigstore |-> "kbs"],
         [auth |-> "none"], [auth |-> "http"], [policy |-> "none", badCert |-> TRUE],
         [policy |-> "file", nydus |-> [type |-> "fuse", has |-> {"fscache"}]],
         [policy |-> "file", nydus |-> [type |-> "fscache", has |-> {"fscache"}]], Unreadable}
Several == <<"http://">> \o RegIo \o <<"/", "a">> :> "u1" @@ <<"https://">> \o RegIo :> "u2"
           @@ RegCo :> "bad" @@ DockerIo \o <<"/", "x">> :> "u4"
ClientSetups ==
    {[Setup(ByK1, Inline, {}) EXCEPT !.file = file, !.auths = auths, !.inputs = {None, "u9", "bad"}] :
        file \in Uris, auths \in {Auths, Several, Unreadable}} \cup
    {[Setup(ByK1, Unreadable, {}) EXCEPT !.file = file] :
        file \in {[sigstore |-> "kbs"], [sigstore |-> "kbs", policy |-> "file"]}} \cup
    {[Setup(Unreadable, Inline, {}) EXCEPT !.file = [policy |-> "kbs"]]}

SetupsDef == ScopeSetups \cup RequirementSetups \cup ConfigSetups \cup RegistrySetups \cup ClientSetups
=============================================================================

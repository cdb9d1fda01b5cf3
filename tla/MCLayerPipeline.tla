--------------------------- MODULE MCLayerPipeline ---------------------------
(* LayerPipeline for TLC.  Archives of up to three entries, as layers that   *)
(* are not encrypted; one archive of two entries for every way to encrypt    *)
(* and to decrypt.                                                           *)
EXTENDS LayerPipeline

Files == ("alice.pub" :> [kind |-> "public", of |-> "alice"])
         @@ ("bob.pub" :> [kind |-> "public", of |-> "bob"])
         @@ ("alice.key" :> [kind |-> "private", of |-> "alice"])
         @@ ("bob.key" :> [kind |-> "private", of |-> "bob"])
         @@ ("kek" :> [kind |-> "kek", of |-> "kek"])

E(path, kind) == [path |-> path, kind |-> kind]
Entries == {E(<<"a">>, "file"), E(<<"a">>, "link"), E(<<"a">>, "fifo"), E(<<"d">>, "dir"), E(<<"d">>, "file"),
            E(<<"d", "a">>, "file"), E(<<"d", Opaque>>, "file"), E(<<".wh.d">>, "file"),
            E(<<"d", ".wh.a">>, "file"), E(<<Opaque>>, "file"), E(<<"d", "b", "a">>, "file")}
FileNames == {"a", "b", "d", ".wh.a", ".wh.d", Opaque, ".wh..opq"}
LowerPaths == {<<"a">>, <<"d">>, <<"d", "a">>, <<"d", "b">>, <<"d", "b", "a">>}
StrayEntries == {E(<<"a">>, "file"), E(<<"d">>, "dir")}

Base == [tar |-> <<>>, media |-> "tar", tool |-> None, digest |-> "sha256", frame |-> 2,
         xattrs |-> TRUE, pubWrappers |-> {}, recipients |-> <<>>, moreRecipients |-> <<>>,
         rewrapKeys |-> <<>>, kbsGiven |-> TRUE, guestOrder |-> <<>>, guestKeys |-> <<>>]

PlainLayers ==
    {[Base EXCEPT !.tar = t] : t \in UNION {[1..n -> Entries] : n \in 0..3}}
    \cup {[Base EXCEPT !.tar = t, !.xattrs = FALSE] : t \in [1..2 -> Entries]}
    \cup {[Base EXCEPT !.tar = t, !.media = m, !.digest = d] :
             t \in {<<E(<<"d">>, "dir"), E(<<"d", "a">>, "file")>>,
                    <<E(<<"d">>, "dir"), E(<<"d", ".wh.a">>, "file"), E(<<"a">>, "file")>>},
             m \in {"tar", "tar+gzip", "docker.tar.gzip", "tar+zstd", "tar+zstd+encrypted"},
             d \in {"sha256", "sha512", "md5"}}

Jwe(f) == [protocol |-> "jwe", value |-> f]
Provider(p) == [protocol |-> "provider", value |-> [name |-> "attestation-agent", value |-> p]]
Key(f) == [protocol |-> None, value |-> f, pwd |-> None]
KeyByProvider == [protocol |-> "provider", value |-> [name |-> "attestation-agent", value |-> "cc_kbc::null"]]
Kp(sample, keyid, keypath) ==
    [sample |-> sample, keyid |-> keyid, keypath |-> keypath, algorithm |-> "A256CTR"]
Kid == "kbs:///default/key/1"
KpParams == {Kp(TRUE, None, None), Kp(FALSE, Kid, "kek"), Kp(FALSE, None, "kek"), Kp(FALSE, Kid, None),
             Kp(FALSE, None, None), Kp(FALSE, IllFormed, "kek"), Kp(FALSE, Kid, "lost"),
             Kp(FALSE, Kid, "alice.pub")}

ProvidedBy(t) == [name \in {"attestation-agent"} |-> {t}]
Wrapper(attrs) == KeyProviderWrapper("attestation-agent", attrs)
GuestWrappers == {<<>>, <<JweWrapper>>, <<Wrapper({"ttrpc"})>>, <<Wrapper({"grpc", "cmd"})>>, <<Wrapper({"native"})>>,
                  <<JweWrapper, Wrapper({"ttrpc"})>>, <<Wrapper({"ttrpc"}), JweWrapper>>}
GuestKeys == {<<>>, <<Key("alice.key")>>, <<Key("bob.key")>>, <<Key("alice.pub")>>, <<Key("lost")>>, <<KeyByProvider>>}

Encryption == [Base EXCEPT !.tar = <<E(<<"d">>, "dir"), E(<<"a">>, "file")>>]
JweLayer == [Encryption EXCEPT !.tool = "rs", !.pubWrappers = KeyWrappers(TRUE, None),
                               !.recipients = <<Jwe("alice.pub")>>, !.guestOrder = <<JweWrapper>>,
                               !.moreRecipients = <<Jwe("bob.pub")>>, !.rewrapKeys = <<Key("alice.key")>>]
JweLayers ==
    {[JweLayer EXCEPT !.media = "tar+encrypted", !.guestOrder = o, !.guestKeys = k] :
        o \in GuestWrappers, k \in GuestKeys}
    \cup {[JweLayer EXCEPT !.media = "tar+gzip+encrypted", !.guestKeys = k, !.recipients = r, !.rewrapKeys = x] :
             k \in GuestKeys, r \in {<<Jwe("alice.pub"), Jwe("bob.pub")>>, <<Jwe("kek")>>, <<Jwe("lost")>>},
             x \in {<<>>, <<Key("bob.key")>>, <<Key("lost")>>}}
    \cup {[JweLayer EXCEPT !.media = "tar+encrypted", !.pubWrappers = KeyWrappers(TRUE, ProvidedBy(t)),
                           !.recipients = <<Jwe("alice.pub"), Provider(Kp(TRUE, None, None))>>] :
             t \in {"cmd", "grpc", "native"}}
ProviderLayers ==
    {[Encryption EXCEPT !.media = "tar+encrypted", !.tool = "go", !.recipients = <<Provider(p)>>,
                        !.guestOrder = o, !.guestKeys = k, !.kbsGiven = given] :
        p \in KpParams, given \in BOOLEAN, k \in {<<>>, <<KeyByProvider>>},
        o \in {<<Wrapper({"ttrpc"})>>, <<Wrapper({"native"})>>, <<JweWrapper, Wrapper({"ttrpc"})>>}}

AllScenarios == PlainLayers \cup JweLayers \cup ProviderLayers
=============================================================================

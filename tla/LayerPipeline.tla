---------------------------- MODULE LayerPipeline ----------------------------
(***************************************************************************)
(* The life of one layer: encrypted block by block by its publisher, its   *)
(* key wrapped into annotations, kept by a registry that may damage it,    *)
(* and handled in the guest (PullClient::async_handle_layer): the key      *)
(* unwrapped, the stream decrypted, decompressed, hashed and unpacked      *)
(* entry by entry, before any of it is verified.                           *)
(*                                                                         *)
(* A layer is the sequence of its archive's entries, one block each, and   *)
(* its diff_id is that sequence.  An encrypted block is [of, at, key,      *)
(* nonce]: it opens to its entry at its place, under its key and nonce.    *)
(***************************************************************************)
EXTENDS KeyWrap, Unpack

CONSTANTS
    Scenarios,   \* layers, who publishes them, who pulls them
    Names,       \* the names of files
    Lower,       \* the paths of the image below the layer
    Strays,      \* entries that damaged bytes may happen to be
    Damaged      \* bytes that are no entry

\* An entry has a path below the root and one of these types.
Kinds == {"dir", "file", "link", "fifo"}
IsEntry(e) == e.path \in Seq(Names) /\ e.path # <<>> /\ e.kind \in Kinds

\* A layer is encrypted if, and only if, its media type says so.
EncryptedMedia == {"tar+encrypted", "tar+gzip+encrypted"}

ASSUME LayerPipelineAssumption ==
    /\ \A name \in DOMAIN Stripped : Stripped[name] \in Names
    /\ \A s \in Scenarios :
          /\ s.tar \in Seq({s.tar[i] : i \in DOMAIN s.tar})
          /\ \A i \in DOMAIN s.tar : IsEntry(s.tar[i]) /\ s.tar[i] # Damaged
          /\ s.xattrs \in BOOLEAN /\ s.frame \in Nat
          /\ s.tool # None <=> s.media \in EncryptedMedia

VARIABLES
    sc,      \* the scenario
    pub,     \* the publisher
    kbs,     \* the keys registered with the KBS
    blob,    \* the layer in the registry
    g        \* the guest's handler

vars == <<sc, pub, kbs, blob, g>>

NoPublisher == [pc |-> "idle", ec |-> None, blocks |-> <<>>, hmac |-> None, rewrapped |-> FALSE]
NoHandler == [pc |-> "wait", media |-> None, dc |-> None, key |-> None, nonce |-> None, hmac |-> None,
              pos |-> 0, hashed |-> <<>>, dirs |-> {}, excused |-> FALSE, tree |-> None]
Encrypted == sc.tool # None

-----------------------------------------------------------------------------
(* The media types.                                                         *)

\* Decryptor::from_media_type: the type under the encryption.
PlainMedia(media) == IF media = "tar+encrypted" THEN "tar" ELSE "tar+gzip"
\* Compression::try_from, where Docker's name for gzip is OCI's.
Compression(media) ==
    CASE media = "tar" -> "uncompressed"
      [] media \in {"tar+gzip", "docker.tar.gzip"} -> "gzip"
      [] media = "tar+zstd" -> "zstd"
      [] OTHER -> Err

-----------------------------------------------------------------------------
(* The publisher: ocicrypt-rs, or another implementation of the protocol.   *)

Lek == "lek"
Block(i, e) == [of |-> e, at |-> i, key |-> Lek, nonce |-> "n1"]
PublicOptions(hmac) == [cipher |-> "AES_256_CTR_HMAC_SHA256", hmac |-> hmac, nonce |-> None]
PrivateOptions == [key |-> Lek, nonce |-> "n1"]
Hmac(key, blocks) == [key |-> key, blocks |-> blocks]

\* What is absent, empty or an error is told from what is there.
ASSUME PublisherAssumption ==
    /\ Err \notin {"uncompressed", "gzip", "zstd"} /\ Failed # <<>>
    /\ \A s \in Scenarios :
          LET hmac == Hmac(Lek, [i \in 1..Len(s.tar) |-> Block(i, s.tar[i])])
          IN /\ None # hmac /\ Empty # PublicOptions(hmac)
             /\ s.guestOrder \in Seq({s.guestOrder[i] : i \in DOMAIN s.guestOrder})
             /\ \A i \in DOMAIN s.guestOrder : s.guestOrder[i].scheme \in {"jwe", "provider"}

Init ==
    /\ sc \in Scenarios
    /\ pub = NoPublisher
    /\ kbs = {}
    /\ blob = IF sc.tool = None THEN [blocks |-> sc.tar, size |-> Len(sc.tar), annotations |-> <<>>, damaged |-> FALSE]
              ELSE None
    /\ g = NoHandler

PublisherFails == pub' = [pub EXCEPT !.pc = "failed"]

\* create_encrypt_config, and encrypt_layer for a layer without annotations: a
\* key is made and the cipher set up.
EncryptLayer ==
    /\ Encrypted /\ pub.pc = "idle"
    /\ LET ec == CreateEncryptConfig(sc.recipients, <<>>)
       IN IF ec = Err THEN PublisherFails
          ELSE pub' = [pub EXCEPT !.pc = "encrypt", !.ec = ec]
    /\ UNCHANGED <<sc, kbs, blob, g>>

\* read on the encrypting cipher: the next block is encrypted and goes into the
\* HMAC; at the end of the data the HMAC is final.
CipherRead ==
    /\ pub.pc = "encrypt"
    /\ LET i == Len(pub.blocks) + 1
       IN IF i <= Len(sc.tar)
          THEN pub' = [pub EXCEPT !.blocks = Append(@, Block(i, sc.tar[i]))]
          ELSE pub' = [pub EXCEPT !.pc = "read", !.hmac = Hmac(Lek, pub.blocks)]
    /\ UNCHANGED <<sc, kbs, blob, g>>

\* What the key provider's service answers.  It posts a new key to the KBS and
\* does not look at the KBS's status; only a lost request is an error.
Random == [kind |-> "kek", of |-> "kbs:///default/image-kek/uuid"]
Service(form, opts, ec, reached) ==
    LET answer == WrapKeyService(form, opts, ec, Random, sc.kbsGiven)
    IN IF answer = Err THEN Err
       ELSE IF answer.register # None /\ ~reached THEN Err ELSE answer
Registered(answer, accepted) ==
    IF answer = Err THEN kbs
    ELSE IF answer.register = None \/ ~accepted THEN kbs
    ELSE {k \in kbs : k.kid # answer.packet.kid} \cup {[kid |-> answer.packet.kid, kek |-> answer.register]}
PacketOf(answer) == IF answer = Err THEN Err ELSE answer.packet

Publish(annotations, rewrapped) ==
    /\ blob' = [blocks |-> pub.blocks, size |-> Len(pub.blocks), annotations |-> annotations, damaged |-> FALSE]
    /\ pub' = [pub EXCEPT !.pc = "published", !.rewrapped = rewrapped]

\* finalize_annotations: refused while the data are not read to their end.
FinalizeAnyTime(reached, accepted) ==
    /\ pub.pc \in {"encrypt", "read"} /\ sc.tool = "rs"
    /\ LET answer == Service("json", PrivateOptions, pub.ec, reached)
           new == FinalizeAnnotations(sc.pubWrappers, pub.ec, <<>>, PrivateOptions,
                                      PublicOptions(pub.hmac), PacketOf(answer))
       IN /\ kbs' = Registered(answer, accepted)
          /\ IF new = Err THEN PublisherFails /\ blob' = blob
             ELSE Publish(new, FALSE)
    /\ UNCHANGED <<sc, g>>
Finalize(reached, accepted) ==
    /\ pub.pc \in {"encrypt", "read"} /\ sc.tool = "rs"
    /\ LET answer == Service("json", PrivateOptions, pub.ec, reached)
           new == FinalizeAnnotations(sc.pubWrappers, pub.ec, <<>>, PrivateOptions,
                                      PublicOptions(pub.hmac), PacketOf(answer))
       IN /\ kbs' = IF pub.pc = "read" THEN Registered(answer, accepted) ELSE kbs
          /\ IF pub.pc # "read" \/ new = Err THEN PublisherFails /\ blob' = blob
             ELSE Publish(new, FALSE)
    /\ UNCHANGED <<sc, g>>

\* The Go library, with the same cipher and key provider.
FinalizeElsewhere(reached, accepted) ==
    /\ pub.pc = "read" /\ sc.tool = "go"
    /\ LET answer == Service("base64", PrivateOptions, pub.ec, reached)
       IN /\ kbs' = Registered(answer, accepted)
          /\ IF answer = Err THEN PublisherFails /\ blob' = blob
             ELSE Publish([id \in {<<"provider", "attestation-agent">>, PubOpts} |->
                              IF id = PubOpts THEN PublicOptions(pub.hmac) ELSE <<answer.packet>>], FALSE)
    /\ UNCHANGED <<sc, g>>

\* encrypt_layer and finalize_annotations on the layer as published, to add
\* recipients: there is no finalizer, and the options wrapped are empty.
NoReply == [p \in ProviderPackets(blob.annotations) |-> Err]
Rewrap ==
    /\ pub.pc = "published" /\ ~pub.rewrapped /\ sc.tool = "rs" /\ sc.moreRecipients # <<>>
    /\ g.pc = "wait" /\ ~blob.damaged
    /\ LET ec == CreateEncryptConfig(sc.moreRecipients, sc.rewrapKeys)
           order == SetToSeq(sc.pubWrappers)
           new == FinalizeAnnotations(sc.pubWrappers, ec, blob.annotations, Empty, Empty, Err)
       IN IF ec = Err THEN PublisherFails /\ blob' = blob
          ELSE IF /\ AlreadyEncrypted(sc.pubWrappers, blob.annotations)
                  /\ MayRewrap(order, ec, blob.annotations, NoReply) /\ new # Err
               THEN Publish(new, TRUE)
               ELSE PublisherFails /\ blob' = blob
    /\ UNCHANGED <<sc, kbs, g>>

-----------------------------------------------------------------------------
(* The registry may damage what it keeps.                                   *)

Alter(blocks) ==
    blob' = [blob EXCEPT !.blocks = blocks, !.damaged = TRUE]

Damage ==
    /\ blob # None /\ ~blob.damaged /\ g.pc = "wait"
    /\ LET bs == blob.blocks
           bad(b) == IF Encrypted THEN [b EXCEPT !.of = Damaged] ELSE Damaged
       IN \/ \E i \in DOMAIN bs : Alter([bs EXCEPT ![i] = bad(bs[i])])
          \/ bs # <<>> /\ Alter(SubSeq(bs, 1, Len(bs) - 1))
          \/ bs # <<>> /\ Alter(Append(bs, bs[1]))
          \/ /\ PubOpts \in DOMAIN blob.annotations /\ blob.annotations[PubOpts] # Empty
             /\ blob' = [blob EXCEPT !.annotations[PubOpts].nonce = "n2", !.damaged = TRUE]
          \/ /\ PubOpts \in DOMAIN blob.annotations
             /\ blob' = [blob EXCEPT !.damaged = TRUE,
                            !.annotations = [id \in DOMAIN @ \ {PubOpts} |-> @[id]]]
    /\ UNCHANGED <<sc, pub, kbs, g>>

-----------------------------------------------------------------------------
(* The guest: async_handle_layer.                                           *)

To(pc) == g' = [g EXCEPT !.pc = pc]
\* An error in the handler leads to cleanup_partial_layer.
Fail == To("cleanup")
FailExcused == g' = [g EXCEPT !.pc = "cleanup", !.excused = TRUE]

Open ==
    /\ blob # None /\ g.pc = "wait"
    /\ IF sc.media \in EncryptedMedia
       THEN g' = [g EXCEPT !.pc = "config", !.media = PlainMedia(sc.media)]
       ELSE g' = [g EXCEPT !.pc = "begin", !.media = sc.media]
    /\ UNCHANGED <<sc, pub, kbs, blob>>

\* get_decrypt_key: the configuration, then the key.  A provider's packets are unwrapped by the hub, which gets
\* the key from the KBS, if it can be reached.
Kek(kid) == LET ks == {k \in kbs : k.kid = kid}
            IN IF kid = HardcodedKeyId THEN HardcodedKey
               ELSE IF ks = {} THEN Err ELSE (CHOOSE k \in ks : TRUE).kek
GetDecryptConfig ==
    /\ g.pc = "config"
    /\ LET dc == CreateDecryptConfig(sc.guestKeys, <<>>)
       IN IF dc = Err THEN Fail ELSE g' = [g EXCEPT !.pc = "unwrap", !.dc = dc]
    /\ UNCHANGED <<sc, pub, kbs, blob>>
GetDecryptKey(reached) ==
    /\ g.pc = "unwrap"
    /\ LET reply == [p \in ProviderPackets(blob.annotations) |->
                        IF reached THEN UnwrapPacket(p, Kek(p.kid)) ELSE Err]
           opts == DecryptLayerKeyOptsData(sc.guestOrder, g.dc, blob.annotations, reply)
       IN IF opts = Err THEN IF reached THEN Fail ELSE FailExcused
          ELSE g' = [g EXCEPT !.pc = "cipher", !.key = opts.key, !.nonce = opts.nonce]
    /\ UNCHANGED <<sc, pub, kbs, blob>>

\* async_decrypt_layer: the public options must parse, name the cipher and hold
\* an HMAC; a nonce among them goes before the private one.
InitCipher ==
    /\ g.pc = "cipher"
    /\ LET opts == GetLayerPubOpts(blob.annotations)
       IN IF opts = Empty THEN Fail
          ELSE IF opts.cipher # "AES_256_CTR_HMAC_SHA256" \/ opts.hmac = None THEN Fail
          ELSE g' = [g EXCEPT !.pc = "begin", !.hmac = opts.hmac,
                              !.nonce = IF opts.nonce = None THEN @ ELSE opts.nonce]
    /\ UNCHANGED <<sc, pub, kbs, blob>>

\* async_decompress_unpack_layer, stream_processing and unpack's beginning: an
\* unknown media type or digest is refused, the destination is made anew.
BeginUnpack ==
    /\ g.pc = "begin"
    /\ IF Compression(g.media) = Err \/ sc.digest \notin {"sha256", "sha512"} THEN Fail
       ELSE g' = [g EXCEPT !.pc = "stream", !.tree = <<>>]
    /\ UNCHANGED <<sc, pub, kbs, blob>>

\* What the next block reads as, after decryption and decompression.
Opened(b) ==
    IF ~Encrypted THEN IF b = Damaged THEN {Damaged} \cup Strays ELSE {b}
    ELSE IF b.of # Damaged /\ b.key = g.key /\ b.nonce = g.nonce /\ b.at = g.pos + 1
         THEN {b.of} ELSE {Damaged} \cup Strays

\* A zstd decoder ends with the first frame, a gzip decoder with the last
\* member.
Frame == IF sc.frame < Len(sc.tar) THEN sc.frame ELSE Len(sc.tar)
StreamEnd == IF Compression(g.media) = "zstd" /\ Frame < Len(blob.blocks)
             THEN Frame ELSE Len(blob.blocks)

\* One entry: decrypted, hashed, unpacked.  An error removes the destination.
ReadEntry ==
    /\ g.pc = "stream" /\ g.pos < StreamEnd
    /\ \E e \in Opened(blob.blocks[g.pos + 1]) :
         IF e = Damaged THEN Fail
         ELSE LET t == UnpackEntry(g.tree, e, sc.xattrs)
                  converted == IsConverted(e, sc.xattrs)
              IN IF t = Failed THEN Fail
                 ELSE g' = [g EXCEPT !.pos = @ + 1, !.hashed = Append(@, e), !.tree = t,
                                     !.pc = IF OpenBlocks(e) /\ ~converted THEN "blocked" ELSE @,
                                     !.dirs = IF e.kind = "dir" /\ ~converted THEN @ \cup {e.path} ELSE @]
    /\ UNCHANGED <<sc, pub, kbs, blob>>

\* The end of the stream: the HMAC's verdict, the decoder's checksum, then the
\* times of the directories.
ChecksumOk ==
    CASE Compression(g.media) = "gzip" -> g.hashed = sc.tar
      [] Compression(g.media) = "zstd" -> g.hashed = SubSeq(sc.tar, 1, Frame)
      [] OTHER -> TRUE
HmacOk == ~Encrypted \/ g.hmac = Hmac(g.key, blob.blocks)
ReadEof ==
    /\ g.pc = "stream" /\ g.pos = StreamEnd
    /\ IF ~HmacOk \/ ~ChecksumOk THEN Fail
       ELSE g' = [g EXCEPT !.pc = "verify", !.tree = SetDirTimes(@, g.dirs)]
    /\ UNCHANGED <<sc, pub, kbs, blob>>

\* The connection breaks, or the 180 seconds are over.
StreamBreaks ==
    /\ g.pc = "stream"
    /\ FailExcused
    /\ UNCHANGED <<sc, pub, kbs, blob>>
TimeoutReading ==
    /\ g.pc = "stream"
    /\ FailExcused
    /\ UNCHANGED <<sc, pub, kbs, blob>>
UnpackTimeout ==
    /\ g.pc \in {"stream", "blocked"}
    /\ FailExcused
    /\ UNCHANGED <<sc, pub, kbs, blob>>

\* The number of bytes, for a layer that is not encrypted, and the diff_id.  A
\* decoder that ends early may have read some of the rest into its buffer.
Verify ==
    /\ g.pc = "verify"
    /\ \E ahead \in 0..(Len(blob.blocks) - g.pos) :
         IF \/ sc.media \notin EncryptedMedia /\ blob.size > 0 /\ g.pos + ahead # blob.size
            \/ g.hashed # sc.tar
         THEN Fail
         ELSE To("stored")
    /\ UNCHANGED <<sc, pub, kbs, blob>>

\* async_processing's roll-back and cleanup_partial_layer.
CleanupKeeps ==
    /\ g.pc = "cleanup"
    /\ To("failed")
    /\ UNCHANGED <<sc, pub, kbs, blob>>
Cleanup ==
    /\ g.pc = "cleanup"
    /\ g' = [g EXCEPT !.pc = "failed", !.tree = None]
    /\ UNCHANGED <<sc, pub, kbs, blob>>

-----------------------------------------------------------------------------
Publisher == \/ EncryptLayer \/ CipherRead \/ Rewrap
             \/ \E r, a \in BOOLEAN : Finalize(r, a) \/ FinalizeElsewhere(r, a)
Handler == \/ Open \/ GetDecryptConfig \/ InitCipher \/ BeginUnpack \/ ReadEntry \/ ReadEof \/ Verify \/ Cleanup
           \/ \E r \in BOOLEAN : GetDecryptKey(r)

Next == Publisher \/ Damage \/ Handler \/ StreamBreaks \/ UnpackTimeout

\* The handler runs, requests to the hub are answered or fail, and its timer
\* fires.
Fairness == WF_vars(Handler) /\ WF_vars(UnpackTimeout)

Spec == Init /\ [][Next]_vars /\ Fairness

-----------------------------------------------------------------------------
(* Properties.                                                              *)

\* The shape of the state.
TypeOK ==
    /\ pub.pc \in {"idle", "encrypt", "read", "published", "failed"}
    /\ g.pc \in {"wait", "config", "unwrap", "cipher", "begin", "stream", "blocked", "verify",
                 "cleanup", "stored", "failed"}
    /\ g.pc \in {"stream", "blocked", "verify", "stored"} => g.tree # None
    /\ g.pos <= Len(sc.tar) + 1 /\ Len(g.hashed) = g.pos

\* A layer that async_handle_layer keeps, stacked by overlayfs, gives the tree
\* the image specification asks for: the layer's archive as a changeset over
\* the image below, whatever the registry did to the bytes.  (An archive that
\* makes the root opaque asks for more than overlayfs does.)
MergedTreeIsChangeset ==
    g.pc = "stored" /\ sc.xattrs /\ ~MarksRoot(sc.tar) => Overlay(Lower, g.tree) = Changeset(Lower, sc.tar)

\* Every directory and file of the archive, but for the whiteouts that are
\* converted, keeps the header's mode and mtime,
\* though later entries and the change of owner touch them: unpack sets the
\* times of directories last.
AttributesRestored ==
    g.pc = "stored" =>
        \A i \in DOMAIN sc.tar :
            LET e == sc.tar[i]
            IN /\ e.kind \in {"dir", "file"} /\ ~IsConverted(e, sc.xattrs) /\ e.path \in DOMAIN g.tree
               /\ g.tree[e.path].kind = e.kind
               => g.tree[e.path].mtime /\ g.tree[e.path].perms

\* An archive that unpack accepts.
Unpacks(tar) ==
    /\ TreeAfter(tar, sc.xattrs)[Len(tar)] # Failed
    /\ \A i \in DOMAIN tar : OpenBlocks(tar[i]) => IsConverted(tar[i], sc.xattrs)

\* The guest holds the key of a recipient, or the KBS the key of the packet:
\* for every wrapper it has that finds an annotation.
Entitled(recipients) ==
    /\ sc.guestOrder # <<>>
    /\ \A i \in DOMAIN sc.guestOrder :
         LET w == sc.guestOrder[i]
         IN IF w.scheme = "jwe"
            THEN \E k \in ToSet(sc.guestKeys), r \in ToSet(recipients) :
                    /\ sc.tool = "rs" /\ k.protocol # "provider" /\ r.protocol = "jwe"
                    /\ k.value \in DOMAIN File
                    /\ File[k.value] = [kind |-> "private", of |-> File[r.value].of]
            ELSE /\ sc.tool = "go"
                 /\ Transport(w) \in {"ttrpc"} \cup (IF sc.guestKeys = <<>> THEN {} ELSE {"native"})
                 /\ \/ sc.recipients[1].value.value.sample
                    \/ \E k \in kbs : k.kek = blob.annotations[<<"provider", "attestation-agent">>][1].kek

\* A layer that is refused for what it is.
Refusable ==
    \/ sc.media \notin EncryptedMedia /\ Compression(sc.media) = Err
    \/ sc.media = "tar+zstd" /\ Frame < Len(sc.tar)
    \/ sc.digest \notin {"sha256", "sha512"}
    \/ ~Unpacks(sc.tar)

Intact == ~blob.damaged /\ ~pub.rewrapped /\ ~g.excused

\* An undamaged layer of a known type, for a guest entitled to its key, is
\* never refused, unless a request failed or timed out: publisher and guest
\* agree on the wrapped key, the nonce, the HMAC and the checksums.
IntactLayerIsStored ==
    g.pc = "failed" /\ Intact => Refusable \/ (Encrypted /\ ~Entitled(sc.recipients))

\* The same, whoever is entitled: once the guest has got a key, it is the right
\* one, and nothing that comes after it is refused.
OpenedLayerIsStored ==
    g.pc = "failed" /\ Intact => Refusable \/ (Encrypted /\ g.key = None)

\* Entries are unpacked before the HMAC, the checksum, the size or the digest
\* is known; when one of them is wrong nothing of the layer stays.
NothingUnverifiedStays == g.pc = "failed" => g.tree = None

\* The handler ends, even when the archive makes unpack wait for ever.
LayerEnds == (g.pc # "wait") ~> (g.pc \in {"stored", "failed"})

\* "Allow for adding wrapped keys to an encrypted layer" (EncryptConfig's
\* decrypt_config): after recipients were added to a layer, the guests of the
\* old ones and of the new ones can decrypt it.
RewrappedLayerDecrypts ==
    g.pc = "failed" /\ pub.rewrapped /\ ~blob.damaged /\ ~g.excused =>
        ~Entitled(sc.recipients \o sc.moreRecipients)
=============================================================================

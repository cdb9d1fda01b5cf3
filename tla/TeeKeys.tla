------------------------------ MODULE TeeKeys ------------------------------
(***************************************************************************)
(* The TEE key pair of kbs_protocol and the crypto crate under it: the     *)
(* hash over the runtime data that a quote carries, and the JWE in which a *)
(* KBS returns a resource.                                                 *)
(*                                                                         *)
(* Cryptography is symbolic: a digest is a record of what was hashed, a    *)
(* wrapped key names the public key it is for, a ciphertext the key it     *)
(* needs.  Lengths are kept where the code checks them, or panics on them. *)
(***************************************************************************)
EXTENDS Integers

CONSTANTS Err,     \* an Err of the code
          Panic    \* a panic of the task

\* The lengths, in bytes, of what RSA encrypts, coordinates, content keys, IVs
\* and GCM tags.
RsaLen == 256
CoordinateLen == 32
CekLen == 32
IvLen == 12
TagLen == 16

-----------------------------------------------------------------------------
(* Hash algorithms.                                                         *)

\* HashAlgorithm::list_all, what the Request tells the KBS.
ListAll == {"sha256", "sha384", "sha512"}
Default == "sha384"

\* FromStr: dashes and case do not count.
Spelt == [sha256 |-> {"sha256", "SHA256", "sha-256", "SHA-256"},
          sha384 |-> {"sha384", "SHA384", "sha-384", "SHA-384"},
          sha512 |-> {"sha512", "SHA512", "sha-512", "SHA-512"}]
FromStr(name) ==
    IF \E a \in ListAll : name \in Spelt[a]
      THEN CHOOSE a \in ListAll : name \in Spelt[a] ELSE Err

\* HashAlgorithm::digest.
Digest(alg, material) == [alg |-> alg, of |-> material]

\* get_hash_algorithm on the challenge's extra parameters: the KBS need not
\* have selected one; what it selected must be a string and known.
GetHashAlgorithm(selected) ==
    CASE selected = "absent" -> Default
      [] selected = "number" -> Err
      [] OTHER -> FromStr(selected)

-----------------------------------------------------------------------------
(* Key pairs.                                                               *)

\* TeeKeyPair::new: an EC key on P-256.  Key pairs differ in their number.
NewKeyPair(n) == [kind |-> "ec", n |-> n, crv |-> "P-256"]
RsaKeyPair(n) == [kind |-> "rsa", n |-> n, crv |-> "none"]

\* RSAKeyPair::from_pkcs1_pem and EcKeyPair::from_pkcs8_pem.
FromPkcs1(pem) == IF pem.form = "pkcs1" /\ pem.kind = "rsa" THEN RsaKeyPair(pem.n) ELSE Err
FromPkcs8(pem) == IF pem.form = "pkcs8" /\ pem.kind = "ec" THEN NewKeyPair(pem.n) ELSE Err

\* TeeKeyPair::from_pem: the one, else the other; an RSA key in PKCS#8 is
\* refused.
FromPem(pem) == IF FromPkcs1(pem) # Err THEN FromPkcs1(pem) ELSE FromPkcs8(pem)

\* to_pem, which the agent sends along with a token.
ToPem(key) == [form |-> IF key.kind = "rsa" THEN "pkcs1" ELSE "pkcs8",
               kind |-> key.kind, n |-> key.n]

\* export_pubkey: the algorithm asked for is fixed by the kind of key.
ExportPubkey(key) ==
    [kind |-> key.kind, n |-> key.n, crv |-> key.crv,
     alg |-> IF key.kind = "rsa" THEN "RSA-OAEP-256" ELSE "ECDH-ES+A256KW"]

\* The runtime data a quote covers: on IBM SE the nonce, elsewhere a digest
\* over the key and the nonce.
HashRuntimeData(tee, pub, nonce, alg) ==
    IF tee = "se" THEN [alg |-> "none", of |-> nonce]
    ELSE Digest(alg, [pub |-> pub, nonce |-> nonce])

-----------------------------------------------------------------------------
(* The response: [alg, epk, wrapped, body], with the protected header's     *)
(* algorithm and ephemeral key, the wrapped content key, the ciphertext.    *)

\* RSAKeyPair::decrypt in either padding mode.
RsaDecrypt(key, mode, wrapped) ==
    IF wrapped.to = key.n /\ wrapped.alg = mode /\ wrapped.len = RsaLen
      THEN wrapped.cek ELSE Err

\* EcKeyPair::unwrap_key: ECDH, the KDF, and AES key wrap, whose plain text is
\* eight bytes shorter: a shorter input underflows.
EcUnwrapKey(key, wrapped, epk) ==
    IF epk.len # CoordinateLen \/ ~epk.onCurve THEN Err
    ELSE IF wrapped.len < 8 THEN Panic
    ELSE IF wrapped.to = key.n /\ wrapped.alg = "ECDH-ES+A256KW" /\ wrapped.epk = epk.n
      THEN wrapped.cek ELSE Err

\* TeeKeyPair::unwrap_cek, by the header's algorithm.
UnwrapCek(key, header, wrapped) ==
    CASE header.alg \in {"RSA1_5", "RSA-OAEP-256"} ->
           IF key.kind = "rsa" THEN RsaDecrypt(key, header.alg, wrapped) ELSE Err
      [] header.alg = "ECDH-ES+A256KW" ->
           IF /\ header.epk.present
              /\ key.kind = "ec"
              /\ header.epk.crv = key.crv
             THEN EcUnwrapKey(key, wrapped, header.epk) ELSE Err
      [] OTHER -> Err

\* AES-256-GCM with a detached tag, which covers the protected header; the
\* lengths of key, IV and tag are taken to be right (from_slice).
DecryptWithAad(cek, body, aad) ==
    IF cek.len # CekLen \/ body.ivLen # IvLen \/ body.tagLen # TagLen THEN Panic
    ELSE IF body.cek = cek.n /\ body.aad = aad /\ body.intact THEN body.plaintext ELSE Err

\* decrypt_aead: counter mode is no AEAD algorithm.
DecryptAead(cek, body, aad, wrapType) ==
    IF wrapType = "A256GCM" THEN DecryptWithAad(cek, body, aad) ELSE Err

\* TeeKeyPair::decrypt_response.
DecryptResponse(key, response) ==
    LET cek == UnwrapCek(key, response.header, response.wrapped)
    IN IF cek \in {Err, Panic} THEN cek
       ELSE DecryptAead(cek, response.body, response.header, "A256GCM")

-----------------------------------------------------------------------------
(* The KBS (external): it wraps a fresh content key for the key that was    *)
(* attested, by the algorithm that key's record names.                      *)

Respond(pub, resource) ==
    LET epk == [present |-> pub.kind = "ec", n |-> 1, crv |-> pub.crv,
                len |-> CoordinateLen, onCurve |-> TRUE]
        header == [alg |-> pub.alg, epk |-> epk]
    IN [header |-> header,
        wrapped |-> [to |-> pub.n, alg |-> pub.alg, epk |-> epk.n,
                     len |-> IF pub.kind = "rsa" THEN RsaLen ELSE CekLen + 8,
                     cek |-> [n |-> 1, len |-> CekLen]],
        body |-> [cek |-> 1, aad |-> header, ivLen |-> IvLen, tagLen |-> TagLen,
                  intact |-> TRUE, plaintext |-> resource]]

\* What may arrive in its place.
Damages == {"none", "alg", "noEpk", "crv", "short", "offCurve", "ephemeral", "brief",
            "otherKey", "cekLen", "otherCek", "iv", "tag", "flipped"}
Damaged(r, damage) ==
    CASE damage = "alg" -> [r EXCEPT !.header.alg = "dir"]
      [] damage = "noEpk" -> [r EXCEPT !.header.epk.present = FALSE]
      [] damage = "crv" -> [r EXCEPT !.header.epk.crv = "P-384"]
      [] damage = "short" -> [r EXCEPT !.header.epk.len = 31]
      [] damage = "offCurve" -> [r EXCEPT !.header.epk.onCurve = FALSE]
      [] damage = "ephemeral" -> [r EXCEPT !.header.epk.n = 2]
      [] damage = "brief" -> [r EXCEPT !.wrapped.len = 7]
      [] damage = "otherKey" -> [r EXCEPT !.wrapped.to = 0]
      [] damage = "cekLen" -> [r EXCEPT !.wrapped.cek.len = 16]
      [] damage = "otherCek" -> [r EXCEPT !.wrapped.cek.n = 2]
      [] damage = "iv" -> [r EXCEPT !.body.ivLen = 16]
      [] damage = "tag" -> [r EXCEPT !.body.tagLen = 12]
      [] damage = "flipped" -> [r EXCEPT !.body.intact = FALSE]
      [] OTHER -> r
=============================================================================

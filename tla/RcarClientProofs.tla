--------------------------- MODULE RcarClientProofs ---------------------------
(***************************************************************************)
(* Proofs about RcarClient: what evidence a client presents, and why its   *)
(* calls end, for any number of clients and calls and any limits on the    *)
(* attempts.                                                               *)
(***************************************************************************)
EXTENDS RcarClient, TLAPS

-----------------------------------------------------------------------------
(* Types.                                                                   *)

Tees == {b.tee : b \in Builds} \cup {None}
Pubs == {ExportPubkey(k) : k \in KeyPairs}
Evidences == {HashRuntimeData(t, p, n, a) : t \in Tees, p \in Pubs, n \in Nat, a \in ListAll \cup {None}}

Shaking == {"auth", "evidence", "attest"}
CallRecord == [pc : {"idle", "get"} \cup Shaking, op : {None, "token", "resource"},
               res : Resources \cup {None}, attempt : Nat \ {0}, tries : Nat, nonce : Nat,
               alg : ListAll \cup {None}, evidence : Evidences \cup {None},
               out : Outs \cup {None}, got : Resources \cup {None}, faults : Nat, losses : Nat]
ClientRecord == [key : KeyPairs, provider : {b.provider : b \in Builds}, hw : Tees, tee : Tees,
                 token : Tokens \cup {None}, call : CallRecord]
SessionRecord == [state : {"none", "open", "attested"}, nonce : Nat, tee : Tees,
                  alg : ListAll \cup {None, Err}, pub : Pubs \cup {None}]

-----------------------------------------------------------------------------
(* The inductive invariant, client by client: cl is a client, se its        *)
(* session at the KBS.                                                      *)

\* The client's key is behind its token and its session.
KeyHas(cl, se) ==
    /\ cl.token # None => cl.token.key = cl.key
    /\ se.state = "attested" => se.pub = ExportPubkey(cl.key)

\* A handshake is about the session it opened.
ShakeHas(cl, se) ==
    /\ cl.call.pc \in {"evidence", "attest"} /\ se.state # "none" =>
          se.nonce = cl.call.nonce /\ se.alg = cl.call.alg /\ se.tee = cl.tee
    /\ cl.call.pc = "attest" =>
          cl.call.evidence = HashRuntimeData(cl.tee, ExportPubkey(cl.key), cl.call.nonce, cl.call.alg)

\* How many failures and expiries are behind the attempts a call has made, and
\* what there must be for its handshake to fail.
Trouble(call) == call.faults + call.losses
Enough(call) == Trouble(call) >= IF call.op = "token" THEN call.attempt ELSE 1

CountHas(call, se) ==
    /\ call.pc # "idle" => call.out = None
    /\ call.pc # "idle" /\ call.op = "token" =>
          /\ call.pc \in Shaking
          /\ call.attempt <= HandshakeAttempts /\ Trouble(call) >= call.attempt - 1
    /\ call.pc # "idle" /\ call.op # "token" => call.op = "resource" /\ call.res \in Resources
    /\ call.pc \in {"evidence", "attest"} /\ se.state # "open" => Enough(call)
    /\ call.op = "resource" /\ call.res \notin Denied =>
          /\ call.pc \in Shaking => call.losses >= call.attempt - 1
          /\ call.pc = "get" /\ call.attempt > 1 =>
                /\ call.losses >= call.attempt - 2
                /\ se.state # "attested" => call.losses >= call.attempt - 1
    /\ call.op = "resource" => call.attempt <= GetAttempts

\* The call has ended for a reason.
EndHas(cl) ==
    LET call == cl.call
    IN /\ call.out = "unauthorized" =>
            call.res \in Denied \/ call.losses >= GetAttempts - 1
       /\ call.out = "token" => cl.token # None
       /\ call.out = "handshakeError" =>
            Trouble(call) >= IF call.op = "token" THEN HandshakeAttempts ELSE 1
       /\ call.out \in {"decryptError", "panic"} => call.faults > 0
       /\ call.out = "resource" => call.got = call.res

ClientHas(cl, se) == KeyHas(cl, se) /\ ShakeHas(cl, se) /\ CountHas(cl.call, se) /\ EndHas(cl)

TypeInv ==
    /\ client \in [Clients -> ClientRecord]
    /\ session \in [Clients -> SessionRecord]
    /\ nonces \in Nat
IInv == TypeInv /\ \A c \in Clients : ClientHas(client[c], session[c])

-----------------------------------------------------------------------------
(* Facts the steps share.                                                   *)

LEMMA LeaveRecord ==
    ASSUME NEW call \in CallRecord
    PROVE  LET r == Leave(call)
           IN /\ r \in CallRecord /\ r.pc = call.pc /\ r.out = call.out /\ r.attempt = call.attempt
              /\ r.op = call.op /\ r.res = call.res /\ r.got = call.got
              /\ r.faults = call.faults /\ r.losses = call.losses
BY DEF Leave, CallRecord

LEMMA ReturnRecord ==
    ASSUME NEW call \in CallRecord, NEW out \in Outs
    PROVE  LET r == Return(call, out)
           IN /\ r \in CallRecord /\ r.pc = "idle" /\ r.out = out /\ r.attempt = 1
              /\ r.op = call.op /\ r.res = call.res /\ r.got = call.got
              /\ r.faults = call.faults /\ r.losses = call.losses
<1>1. PICK l : l = Leave(call)
  OBVIOUS
<1>2. PICK r : r = [l EXCEPT !.pc = "idle", !.out = out, !.attempt = 1, !.nonce = 0]
  OBVIOUS
<1>3. /\ l \in CallRecord /\ l.op = call.op /\ l.res = call.res /\ l.got = call.got
      /\ l.faults = call.faults /\ l.losses = call.losses
  BY <1>1, LeaveRecord
<1>4. /\ r \in CallRecord /\ r.pc = "idle" /\ r.out = out /\ r.attempt = 1
      /\ r.op = l.op /\ r.res = l.res /\ r.got = l.got
      /\ r.faults = l.faults /\ r.losses = l.losses
  <2>1. PICK r1 : r1 = [l EXCEPT !.pc = "idle", !.out = out]
    OBVIOUS
  <2>2. /\ r1 \in CallRecord /\ r1.pc = "idle" /\ r1.out = out
        /\ r1.op = l.op /\ r1.res = l.res /\ r1.got = l.got
        /\ r1.faults = l.faults /\ r1.losses = l.losses
    BY <1>3, <2>1 DEF CallRecord
  <2>3. PICK one, zero : one = 1 /\ zero = 0
    OBVIOUS
  <2>4. one \in Nat \ {0} /\ zero \in Nat
    BY <2>3
  <2>5. r = [r1 EXCEPT !.attempt = one, !.nonce = zero]
    BY <1>2, <2>1, <2>3
  <2>6. /\ r \in CallRecord /\ r.pc = r1.pc /\ r.out = r1.out /\ r.attempt = one
        /\ r.op = r1.op /\ r.res = r1.res /\ r.got = r1.got
        /\ r.faults = r1.faults /\ r.losses = r1.losses
    BY <2>2, <2>4, <2>5 DEF CallRecord
  <2>. QED
    BY <2>2, <2>3, <2>6
<1>5. Return(call, out) = r
  BY <1>1, <1>2 DEF Return
<1>. QED
  BY <1>3, <1>4, <1>5

LEMMA AgainRecord ==
    ASSUME NEW call \in CallRecord, NEW pc \in {"get"} \cup Shaking
    PROVE  LET r == [Leave(call) EXCEPT !.pc = pc, !.attempt = @ + 1]
           IN /\ r \in CallRecord /\ r.pc = pc /\ r.attempt = call.attempt + 1
              /\ r.op = call.op /\ r.res = call.res /\ r.got = call.got /\ r.out = call.out
              /\ r.faults = call.faults /\ r.losses = call.losses
<1>1. PICK l : l = Leave(call)
  OBVIOUS
<1>2. PICK r : r = [l EXCEPT !.pc = pc, !.attempt = @ + 1]
  OBVIOUS
<1>3. /\ l \in CallRecord /\ l.op = call.op /\ l.res = call.res /\ l.got = call.got
      /\ l.faults = call.faults /\ l.losses = call.losses /\ l.out = call.out
      /\ l.attempt = call.attempt
  BY <1>1, LeaveRecord
<1>4. /\ r \in CallRecord /\ r.pc = pc /\ r.attempt = l.attempt + 1
      /\ r.op = l.op /\ r.res = l.res /\ r.got = l.got /\ r.out = l.out
      /\ r.faults = l.faults /\ r.losses = l.losses
  <2>1. PICK n : n = l.attempt + 1
    OBVIOUS
  <2>2. n \in Nat \ {0} /\ pc \in {"idle", "get"} \cup Shaking
    BY <1>3, <2>1 DEF CallRecord
  <2>3. r = [l EXCEPT !.pc = pc, !.attempt = n]
    BY <1>2, <2>1
  <2>. QED
    BY ZenonT(40), <1>3, <2>1, <2>2, <2>3 DEF CallRecord
<1>. QED
  BY <1>1, <1>2, <1>3, <1>4

LEMMA FaultRecord ==
    ASSUME NEW call \in CallRecord
    PROVE  LET r == Fault(call)
           IN /\ r \in CallRecord /\ r.pc = call.pc /\ r.attempt = call.attempt
              /\ r.op = call.op /\ r.res = call.res /\ r.got = call.got /\ r.out = call.out
              /\ r.faults = call.faults + 1 /\ r.losses = call.losses
              /\ r.nonce = call.nonce /\ r.alg = call.alg /\ r.evidence = call.evidence /\ r.tries = call.tries
BY DEF Fault, CallRecord

LEMMA CallMoves ==
    ASSUME NEW cl \in ClientRecord, NEW call \in CallRecord
    PROVE  LET r == [cl EXCEPT !.call = call]
           IN /\ r \in ClientRecord /\ r.call = call /\ r.key = cl.key /\ r.tee = cl.tee
              /\ r.token = cl.token
BY DEF ClientRecord

\* What is known of a client.
LEMMA ClientFacts ==
    ASSUME IInv, NEW c \in Clients
    PROVE  /\ client[c] \in ClientRecord /\ session[c] \in SessionRecord
           /\ client[c].call \in CallRecord /\ client[c].key \in KeyPairs /\ client[c].tee \in Tees
           /\ ClientHas(client[c], session[c])
<1>1. client[c] \in ClientRecord /\ session[c] \in SessionRecord /\ ClientHas(client[c], session[c])
  BY DEF IInv, TypeInv
<1>. QED
  BY <1>1 DEF ClientRecord

\* A step is of one client and its session.
LEMMA StepInv ==
    ASSUME IInv, NEW c \in Clients, NEW cl \in ClientRecord, NEW se \in SessionRecord,
           client' = [client EXCEPT ![c] = cl], session' = [session EXCEPT ![c] = se],
           nonces' \in Nat, ClientHas(cl, se)
    PROVE  IInv'
<1>1. TypeInv'
  BY DEF IInv, TypeInv
<1>2. ASSUME NEW d \in Clients PROVE ClientHas(client'[d], session'[d])
  BY DEF IInv, TypeInv
<1>3. ASSUME NEW d \in Clients PROVE ClientHas(client[d], session[d])'
  <2>1. PICK x, y : x = client'[d] /\ y = session'[d]
    OBVIOUS
  <2>2. ClientHas(x, y)
    BY <1>2, <2>1
  <2>. QED
    BY <2>1, <2>2 DEF ClientHas, KeyHas, ShakeHas, CountHas, EndHas, Enough, Trouble
<1>. QED
  BY <1>1, <1>3 DEF IInv

\* A call goes on; the session is as it was, or another.
LEMMA CallInv ==
    ASSUME IInv, NEW c \in Clients, NEW call \in CallRecord, NEW se \in SessionRecord,
           Continue(c, call), session' = [session EXCEPT ![c] = se], nonces' = nonces,
           KeyHas(client[c], se), ShakeHas([client[c] EXCEPT !.call = call], se),
           CountHas(call, se), EndHas([client[c] EXCEPT !.call = call])
    PROVE  IInv'
<1>1. PICK cl : cl = client[c]
  OBVIOUS
<1>2. PICK r : r = [cl EXCEPT !.call = call]
  OBVIOUS
<1>3. /\ r \in ClientRecord /\ r.call = call /\ r.key = cl.key /\ r.tee = cl.tee
      /\ r.token = cl.token
  BY <1>1, <1>2, ClientFacts, CallMoves
<1>4. ClientHas(r, se)
  <2>1. KeyHas(r, se)
    BY <1>1, <1>3 DEF KeyHas
  <2>2. ShakeHas(r, se) /\ CountHas(r.call, se) /\ EndHas(r)
    BY <1>1, <1>2, <1>3
  <2>. QED
    BY <2>1, <2>2 DEF ClientHas
<1>5. client' = [client EXCEPT ![c] = r]
  BY <1>1, <1>2 DEF Continue
<1>6. nonces' \in Nat
  BY DEF IInv, TypeInv
<1>. QED
  BY <1>3, <1>4, <1>5, <1>6, StepInv

\* A handshake that fails has met enough failures for it.
LEMMA FailedHas ==
    ASSUME NEW cl \in ClientRecord, NEW se, NEW call \in CallRecord,
           call.pc \in Shaking, call.out = None, Enough(call),
           call.op = "token" => call.attempt <= HandshakeAttempts,
           call.op # "token" => call.op = "resource",
           cl.call = HandshakeFailed(call)
    PROVE  /\ HandshakeFailed(call) \in CallRecord
           /\ ShakeHas(cl, se) /\ CountHas(cl.call, se) /\ EndHas(cl)
<1>0. /\ call.faults \in Nat /\ call.losses \in Nat /\ call.attempt \in Nat \ {0}
      /\ HandshakeAttempts \in Nat \ {0} /\ GetAttempts \in Nat \ {0} /\ None \notin Outs
  BY RcarAssumption DEF CallRecord
<1>1. CASE call.op = "token" /\ call.attempt < HandshakeAttempts
  <2>1. PICK r : r = [Leave(call) EXCEPT !.pc = "auth", !.attempt = @ + 1]
    OBVIOUS
  <2>2. /\ r \in CallRecord /\ r.pc = "auth" /\ r.attempt = call.attempt + 1
        /\ r.op = call.op /\ r.res = call.res /\ r.got = call.got /\ r.out = call.out
        /\ r.faults = call.faults /\ r.losses = call.losses
    BY <2>1, AgainRecord DEF Shaking
  <2>3. HandshakeFailed(call) = r
    BY <1>1, <2>1 DEF HandshakeFailed
  <2>. QED
    BY <1>0, <1>1, <2>2, <2>3 DEF ShakeHas, CountHas, EndHas, Trouble, Enough, Shaking, Outs
<1>2. CASE ~(call.op = "token" /\ call.attempt < HandshakeAttempts)
  <2>1. PICK r : r = Return(call, "handshakeError")
    OBVIOUS
  <2>2. /\ r \in CallRecord /\ r.pc = "idle" /\ r.out = "handshakeError" /\ r.attempt = 1
        /\ r.op = call.op /\ r.res = call.res /\ r.got = call.got
        /\ r.faults = call.faults /\ r.losses = call.losses
    BY <2>1, ReturnRecord DEF Outs
  <2>3. HandshakeFailed(call) = r
    BY <1>2, <2>1 DEF HandshakeFailed
  <2>. QED
    BY <1>0, <1>2, <2>2, <2>3 DEF ShakeHas, CountHas, EndHas, Trouble, Enough, Shaking
<1>. QED
  BY <1>1, <1>2

-----------------------------------------------------------------------------
(* Keys and responses.                                                      *)

\* A key pair written as PEM and read again is the same.
LEMMA PemRoundTrip == \A k \in KeyPairs : FromPem(ToPem(k)) = k
<1>1. ASSUME NEW n PROVE FromPem(ToPem(NewKeyPair(n))) = NewKeyPair(n)
  BY DEF NewKeyPair, ToPem, FromPem, FromPkcs1, FromPkcs8
<1>2. ASSUME NEW n PROVE FromPem(ToPem(RsaKeyPair(n))) = RsaKeyPair(n)
  BY DEF RsaKeyPair, ToPem, FromPem, FromPkcs1, FromPkcs8
<1>. QED
  BY <1>1, <1>2 DEF KeyPairs

\* A response that arrives as it was sent gives the resource.
LEMMA Decrypts ==
    ASSUME NEW k \in KeyPairs, NEW res \in Resources
    PROVE  DecryptResponse(k, Damaged(Respond(ExportPubkey(k), res), "none")) = res
<1>1. PICK r : r = Respond(ExportPubkey(k), res)
  OBVIOUS
<1>2. Damaged(r, "none") = r
  BY DEF Damaged
<1>3. PICK cek : cek = [n |-> 1, len |-> CekLen]
  OBVIOUS
<1>4. cek \notin {Err, Panic} /\ cek.n = 1 /\ cek.len = CekLen
  BY <1>3, RcarAssumption
<1>5. \/ k.kind = "ec" /\ k.crv = "P-256"
      \/ k.kind = "rsa" /\ k.crv = "none"
  BY DEF KeyPairs, NewKeyPair, RsaKeyPair
<1>6. /\ r.wrapped.cek = cek /\ r.wrapped.to = k.n /\ r.wrapped.epk = r.header.epk.n
      /\ r.wrapped.alg = r.header.alg
      /\ r.wrapped.len = IF k.kind = "rsa" THEN RsaLen ELSE CekLen + 8
      /\ r.header.alg = IF k.kind = "rsa" THEN "RSA-OAEP-256" ELSE "ECDH-ES+A256KW"
      /\ r.header.epk.present = (k.kind = "ec") /\ r.header.epk.crv = k.crv
      /\ r.header.epk.len = CoordinateLen /\ r.header.epk.onCurve
  BY <1>1, <1>3 DEF Respond, ExportPubkey
<1>7. /\ r.body.cek = 1 /\ r.body.aad = r.header /\ r.body.ivLen = IvLen /\ r.body.tagLen = TagLen
      /\ r.body.intact /\ r.body.plaintext = res
  BY <1>1 DEF Respond
<1>8. UnwrapCek(k, r.header, r.wrapped) = cek
  <2>1. CASE k.kind = "rsa"
    BY <1>6, <2>1 DEF UnwrapCek, RsaDecrypt
  <2>2. CASE k.kind = "ec"
    <3>1. EcUnwrapKey(k, r.wrapped, r.header.epk) = cek
      BY <1>6, <2>2 DEF EcUnwrapKey, CekLen
    <3>2. r.header.alg = "ECDH-ES+A256KW" /\ r.header.epk.present
      BY <1>6, <2>2
    <3>. QED
      BY <1>6, <2>2, <3>1, <3>2 DEF UnwrapCek
  <2>. QED
    BY <1>5, <2>1, <2>2
<1>9. DecryptAead(cek, r.body, r.header, "A256GCM") = res
  BY <1>4, <1>7 DEF DecryptAead, DecryptWithAad
<1>10. DecryptResponse(k, r) = res
  BY <1>4, <1>8, <1>9 DEF DecryptResponse
<1>. QED
  BY <1>1, <1>2, <1>10

\* Whatever arrives, it gives the resource or nothing.
LEMMA NothingElse ==
    ASSUME NEW k, NEW pub, NEW res, NEW damage \in Damages
    PROVE  DecryptResponse(k, Damaged(Respond(pub, res), damage)) \in {Err, Panic, res}
<1>1. PICK r : r = Respond(pub, res)
  OBVIOUS
<1>2. PICK d : d = Damaged(r, damage)
  OBVIOUS
<1>3. d.body.plaintext = res
  <2>1. CASE damage \in {"iv", "tag", "flipped"}
    BY <1>1, <1>2, <2>1 DEF Respond, Damaged
  <2>2. CASE damage \in {"none", "alg", "noEpk", "crv", "short", "offCurve", "ephemeral"}
    BY <1>1, <1>2, <2>2 DEF Respond, Damaged
  <2>3. CASE damage \in {"brief", "otherKey", "cekLen", "otherCek"}
    BY <1>1, <1>2, <2>3 DEF Respond, Damaged
  <2>. QED
    BY <2>1, <2>2, <2>3 DEF Damages
<1>4. DecryptResponse(k, d) \in {Err, Panic, d.body.plaintext}
  BY DEF DecryptResponse, DecryptAead, DecryptWithAad
<1>. QED
  BY <1>1, <1>2, <1>3, <1>4

-----------------------------------------------------------------------------
(* The steps.                                                               *)

LEMMA InitInv == Init => IInv
<1>. SUFFICES ASSUME Init PROVE IInv
  OBVIOUS
<1>1. NewCall \in CallRecord /\ NewCall.pc = "idle" /\ NewCall.out = None /\ NewCall.op = None
  BY DEF NewCall, CallRecord
<1>2. NoSession \in SessionRecord /\ NoSession.state = "none"
  BY DEF NoSession, SessionRecord, Tees
<1>3. session \in [Clients -> SessionRecord] /\ \A c \in Clients : session[c] = NoSession
  BY <1>2 DEF Init
<1>4. ASSUME NEW c \in Clients
      PROVE  client[c] \in ClientRecord /\ client[c].call = NewCall /\ client[c].token = None
  <2>1. PICK b \in Builds, n \in 1..Cardinality(Clients) : client[c] = NewClient(b, n)
    BY DEF Init
  <2>2. PICK k : k = BuildKey(b.pem, n)
    OBVIOUS
  <2>3. client[c] = [key |-> k, provider |-> b.provider, hw |-> b.tee, tee |-> None,
                     token |-> None, call |-> NewCall]
    BY <2>1, <2>2 DEF NewClient
  <2>4. k # Err
    BY <2>3 DEF Init
  <2>5. k \in KeyPairs
    <3>1. CASE b.pem = None
      BY <2>2, <3>1 DEF BuildKey, KeyPairs
    <3>2. CASE b.pem # None
      <4>1. PICK pem : pem = [b.pem EXCEPT !.n = n]
        OBVIOUS
      <4>2. b.pem \in [form : {"pkcs1", "pkcs8"}, kind : {"rsa", "ec"}, n : {0}]
        BY <3>2, RcarAssumption
      <4>3. pem.n = n
        BY <4>1, <4>2
      <4>4. k = FromPem(pem)
        BY <2>2, <3>2, <4>1 DEF BuildKey
      <4>5. k \in {RsaKeyPair(n), NewKeyPair(n)}
        BY <2>4, <4>3, <4>4 DEF FromPem, FromPkcs1, FromPkcs8
      <4>. QED
        BY <4>5 DEF KeyPairs
    <3>. QED
      BY <3>1, <3>2
  <2>. QED
    BY <1>1, <2>3, <2>5 DEF ClientRecord, Tees
<1>5. TypeInv
  <2>1. client \in [Clients -> ClientRecord]
    BY <1>4 DEF Init
  <2>. QED
    BY <1>3, <2>1 DEF Init, TypeInv
<1>6. ASSUME NEW c \in Clients PROVE ClientHas(client[c], session[c])
  <2>1. None \notin Outs
    BY RcarAssumption
  <2>2. NewCall.attempt = 1 /\ GetAttempts \in Nat \ {0}
    BY RcarAssumption DEF NewCall
  <2>3. KeyHas(client[c], session[c]) /\ ShakeHas(client[c], session[c])
    BY <1>1, <1>2, <1>3, <1>4 DEF KeyHas, ShakeHas
  <2>4. CountHas(client[c].call, session[c])
    BY <1>1, <1>2, <1>3, <1>4, <2>2 DEF CountHas, Shaking
  <2>5. EndHas(client[c])
    BY <1>1, <1>4, <2>1 DEF EndHas, Outs
  <2>. QED
    BY <2>3, <2>4, <2>5 DEF ClientHas
<1>. QED
  BY <1>5, <1>6 DEF IInv

\* A call begins.
LEMMA BeginInv ==
    ASSUME IInv, NEW c \in Clients, GetToken(c) \/ \E r \in Resources : GetResource(c, r)
    PROVE  IInv'
<1>0. /\ NewCall \in CallRecord /\ NewCall.out = None /\ NewCall.attempt = 1
      /\ NewCall.faults = 0 /\ NewCall.losses = 0
      /\ GetAttempts \in Nat \ {0} /\ HandshakeAttempts \in Nat \ {0} /\ None \notin Outs
  BY RcarAssumption DEF NewCall, CallRecord
<1>1. session' = [session EXCEPT ![c] = session[c]] /\ nonces' = nonces
  BY DEF GetToken, GetResource, IInv, TypeInv
<1>2. session[c] \in SessionRecord /\ KeyHas(client[c], session[c]) /\ client[c] \in ClientRecord
  BY ClientFacts DEF ClientHas
<1>3. CASE GetToken(c)
  <2>1. PICK new : new = [NewCall EXCEPT !.op = "token"]
    OBVIOUS
  <2>2. /\ new \in CallRecord /\ new.op = "token" /\ new.out = None /\ new.attempt = 1
        /\ new.faults = 0 /\ new.losses = 0
    BY <1>0, <2>1 DEF CallRecord
  <2>3. CASE HasValidToken(c)
    <3>1. PICK call : call = Return(new, "token")
      OBVIOUS
    <3>2. /\ call \in CallRecord /\ call.pc = "idle" /\ call.out = "token" /\ call.attempt = 1
          /\ call.op = "token"
      BY <2>2, <3>1, ReturnRecord DEF Outs
    <3>3. Continue(c, call)
      BY <1>3, <2>1, <2>3, <3>1 DEF GetToken
    <3>4. client[c].token # None
      BY <2>3 DEF HasValidToken
    <3>5. PICK cl : cl = [client[c] EXCEPT !.call = call]
      OBVIOUS
    <3>6. cl.call = call /\ cl.token = client[c].token
      BY <1>2, <3>2, <3>5, CallMoves
    <3>7. ShakeHas(cl, session[c]) /\ CountHas(call, session[c]) /\ EndHas(cl)
      BY <1>0, <3>2, <3>4, <3>6 DEF ShakeHas, CountHas, EndHas, Shaking
    <3>. QED
      BY <1>1, <1>2, <3>2, <3>3, <3>5, <3>7, CallInv
  <2>4. CASE ~HasValidToken(c)
    <3>1. PICK call : call = [new EXCEPT !.pc = "auth"]
      OBVIOUS
    <3>2. /\ call \in CallRecord /\ call.pc = "auth" /\ call.out = None /\ call.attempt = 1
          /\ call.op = "token" /\ call.faults = 0 /\ call.losses = 0
      BY <2>2, <3>1 DEF CallRecord, Shaking
    <3>3. Continue(c, call)
      BY <1>3, <2>1, <2>4, <3>1 DEF GetToken
    <3>5. PICK cl : cl = [client[c] EXCEPT !.call = call]
      OBVIOUS
    <3>6. cl.call = call
      BY <1>2, <3>2, <3>5, CallMoves
    <3>7. ShakeHas(cl, session[c]) /\ CountHas(call, session[c]) /\ EndHas(cl)
      BY <1>0, <3>2, <3>6 DEF ShakeHas, CountHas, EndHas, Shaking, Trouble, Outs
    <3>. QED
      BY <1>1, <1>2, <3>2, <3>3, <3>5, <3>7, CallInv
  <2>. QED
    BY <2>3, <2>4
<1>4. ASSUME NEW r \in Resources, GetResource(c, r) PROVE IInv'
  <2>1. PICK call : call = [NewCall EXCEPT !.op = "resource", !.res = r, !.pc = "get"]
    OBVIOUS
  <2>2. /\ call \in CallRecord /\ call.pc = "get" /\ call.out = None /\ call.attempt = 1
        /\ call.op = "resource" /\ call.res = r
    BY ZenonT(40), <1>0, <2>1 DEF CallRecord
  <2>3. Continue(c, call)
    BY <1>4, <2>1 DEF GetResource
  <2>4. PICK cl : cl = [client[c] EXCEPT !.call = call]
    OBVIOUS
  <2>5. cl.call = call
    BY <1>2, <2>2, <2>4, CallMoves
  <2>6. ShakeHas(cl, session[c]) /\ CountHas(call, session[c]) /\ EndHas(cl)
    BY <1>0, <2>2, <2>5 DEF ShakeHas, CountHas, EndHas, Shaking, Trouble, Outs
  <2>. QED
    BY <1>1, <1>2, <2>2, <2>3, <2>4, <2>6, CallInv
<1>. QED
  BY <1>3, <1>4

\* The handshake fails on a failure of its own; the session may be another.
LEMMA FaultInv ==
    ASSUME IInv, NEW c \in Clients, NEW call \in CallRecord, NEW se \in SessionRecord,
           call.pc \in Shaking, call.out = None, call.op = Call(c).op, call.attempt = Call(c).attempt,
           Enough(call), At(c, call.pc),
           Continue(c, HandshakeFailed(call)), session' = [session EXCEPT ![c] = se],
           KeyHas(client[c], se), nonces' = nonces
    PROVE  IInv'
<1>1. /\ client[c] \in ClientRecord /\ CountHas(Call(c), session[c])
  BY ClientFacts DEF ClientHas, Call
<1>2. /\ call.op = "token" => call.attempt <= HandshakeAttempts
      /\ call.op # "token" => call.op = "resource"
  BY <1>1 DEF CountHas, At, Call, Shaking
<1>3. PICK new : new = HandshakeFailed(call)
  OBVIOUS
<1>4. PICK cl : cl = [client[c] EXCEPT !.call = new]
  OBVIOUS
<1>5. new \in CallRecord
  <2>1. CASE call.op = "token" /\ call.attempt < HandshakeAttempts
    BY <1>3, <2>1, AgainRecord DEF HandshakeFailed, Shaking
  <2>2. CASE ~(call.op = "token" /\ call.attempt < HandshakeAttempts)
    BY <1>3, <2>2, ReturnRecord DEF HandshakeFailed, Outs
  <2>. QED
    BY <2>1, <2>2
<1>6. cl \in ClientRecord /\ cl.call = new
  BY <1>1, <1>4, <1>5, CallMoves
<1>7. ShakeHas(cl, se) /\ CountHas(new, se) /\ EndHas(cl)
  BY <1>2, <1>3, <1>6, FailedHas
<1>. QED
  BY <1>3, <1>4, <1>5, <1>7, CallInv

\* A session that is opened.
LEMMA HashAlgorithms == \A s : GetHashAlgorithm(s) \in ListAll \cup {Err}
<1>1. \A s : FromStr(s) \in ListAll \cup {Err}
  BY DEF FromStr
<1>. QED
  BY <1>1 DEF GetHashAlgorithm, Default, ListAll

LEMMA OpenFacts ==
    ASSUME IInv, NEW c \in Clients, NEW selected, OpenSession(c, selected)
    PROVE  \E se \in SessionRecord :
              /\ session' = [session EXCEPT ![c] = se] /\ nonces' \in Nat
              /\ se.state = "open" /\ se.nonce = nonces + 1 /\ se.tee = GetTeeType(c)
              /\ se.alg = GetHashAlgorithm(selected)
<1>1. nonces \in Nat /\ client[c].hw \in Tees /\ client[c].tee \in Tees
  BY ClientFacts DEF IInv, TypeInv, ClientRecord
<1>2. PICK n, t, a : n = nonces + 1 /\ t = GetTeeType(c) /\ a = GetHashAlgorithm(selected)
  OBVIOUS
<1>3. n \in Nat /\ t \in Tees /\ a \in ListAll \cup {None, Err}
  BY <1>1, <1>2, HashAlgorithms DEF GetTeeType
<1>4. NoSession \in SessionRecord
  BY DEF NoSession, SessionRecord, Tees
<1>5. PICK se : se = [NoSession EXCEPT !.state = "open", !.nonce = n, !.tee = t, !.alg = a]
  OBVIOUS
<1>6. se \in SessionRecord /\ se.state = "open" /\ se.nonce = n /\ se.tee = t /\ se.alg = a
  BY <1>3, <1>4, <1>5 DEF SessionRecord
<1>7. session' = [session EXCEPT ![c] = se] /\ nonces' = n
  BY <1>2, <1>5 DEF OpenSession
<1>. QED
  BY <1>2, <1>3, <1>6, <1>7

LEMMA AuthInv ==
    ASSUME IInv, NEW c \in Clients, Auth(c)
    PROVE  IInv'
<1>1. PICK selected \in Selections :
          /\ GetHashAlgorithm(selected) # Err
          /\ OpenSession(c, selected)
          /\ client' = [client EXCEPT
                ![c].tee = GetTeeType(c),
                ![c].call = [@ EXCEPT !.pc = "evidence", !.nonce = nonces + 1,
                                      !.alg = GetHashAlgorithm(selected)]]
  BY DEF Auth
<1>2. PICK se \in SessionRecord :
              /\ session' = [session EXCEPT ![c] = se] /\ nonces' \in Nat
              /\ se.state = "open" /\ se.nonce = nonces + 1 /\ se.tee = GetTeeType(c)
              /\ se.alg = GetHashAlgorithm(selected)
  BY <1>1, OpenFacts
<1>3. PICK n, t, a, old, o : /\ n = nonces + 1 /\ t = GetTeeType(c) /\ a = GetHashAlgorithm(selected)
                             /\ old = client[c] /\ o = old.call
  OBVIOUS
<1>4. n \in Nat /\ t \in Tees /\ a \in ListAll
  <2>1. nonces \in Nat /\ client[c].hw \in Tees /\ client[c].tee \in Tees
    BY ClientFacts DEF IInv, TypeInv, ClientRecord
  <2>. QED
    BY <1>1, <1>3, <2>1, HashAlgorithms DEF GetTeeType
<1>5. old \in ClientRecord /\ o \in CallRecord /\ ClientHas(old, session[c]) /\ o.pc = "auth"
  BY <1>3, ClientFacts DEF Auth, At
<1>6. PICK call : call = [o EXCEPT !.pc = "evidence", !.nonce = n, !.alg = a]
  OBVIOUS
<1>7. /\ call \in CallRecord /\ call.pc = "evidence" /\ call.nonce = n /\ call.alg = a
      /\ call.op = o.op /\ call.res = o.res /\ call.attempt = o.attempt /\ call.out = o.out
      /\ call.faults = o.faults /\ call.losses = o.losses
  BY <1>4, <1>5, <1>6 DEF CallRecord, Shaking
<1>8. PICK cl : cl = [old EXCEPT !.tee = t, !.call = call]
  OBVIOUS
<1>9. /\ cl \in ClientRecord /\ cl.tee = t /\ cl.call = call /\ cl.key = old.key /\ cl.token = old.token
  BY <1>4, <1>5, <1>7, <1>8 DEF ClientRecord
<1>10. client' = [client EXCEPT ![c] = cl]
  BY <1>1, <1>3, <1>6, <1>8
<1>11. ClientHas(cl, se)
  <2>1. KeyHas(cl, se) /\ ShakeHas(cl, se)
    BY <1>2, <1>3, <1>5, <1>7, <1>9 DEF ClientHas, KeyHas, ShakeHas
  <2>2. CountHas(call, se)
    BY <1>2, <1>3, <1>5, <1>7 DEF ClientHas, CountHas, Shaking, Trouble
  <2>3. EndHas(cl)
    BY <1>3, <1>5, <1>7, <1>9, RcarAssumption DEF ClientHas, CountHas, EndHas, Outs
  <2>. QED
    BY <1>9, <2>1, <2>2, <2>3 DEF ClientHas
<1>. QED
  BY <1>2, <1>9, <1>10, <1>11, StepInv

\* One more failure is enough for the handshake to fail.
LEMMA OneMore ==
    ASSUME IInv, NEW c \in Clients, Call(c).pc \in Shaking, NEW call \in CallRecord,
           call.op = Call(c).op, call.attempt = Call(c).attempt,
           call.faults = Call(c).faults + 1, call.losses = Call(c).losses
    PROVE  /\ Enough(call) /\ Call(c).out = None
           /\ call.op = "token" => call.attempt <= HandshakeAttempts
           /\ call.op # "token" => call.op = "resource"
<1>1. Call(c) \in CallRecord /\ CountHas(Call(c), session[c])
  BY ClientFacts DEF Call, ClientHas
<1>2. /\ Call(c).faults \in Nat /\ Call(c).losses \in Nat /\ Call(c).attempt \in Nat \ {0}
  BY <1>1 DEF CallRecord
<1>. QED
  BY <1>1, <1>2 DEF CountHas, Enough, Trouble, Shaking

LEMMA AuthFailsInv ==
    ASSUME IInv, NEW c \in Clients, AuthFails(c)
    PROVE  IInv'
<1>1. PICK t, old, call : t = GetTeeType(c) /\ old = client[c] /\ call = Fault(old.call)
  OBVIOUS
<1>2. /\ old \in ClientRecord /\ old.call \in CallRecord /\ ClientHas(old, session[c])
      /\ t \in Tees /\ old.call.pc = "auth" /\ nonces \in Nat /\ session[c] \in SessionRecord
  <2>1. client[c].hw \in Tees /\ client[c].tee \in Tees
    BY ClientFacts DEF ClientRecord
  <2>. QED
    BY <1>1, <2>1, ClientFacts DEF AuthFails, At, GetTeeType, IInv, TypeInv
<1>3. /\ call \in CallRecord /\ call.pc = "auth" /\ call.attempt = old.call.attempt
      /\ call.op = old.call.op /\ call.out = old.call.out
      /\ call.faults = old.call.faults + 1 /\ call.losses = old.call.losses
  BY <1>1, <1>2, FaultRecord
<1>4. /\ Enough(call) /\ call.out = None
      /\ call.op = "token" => call.attempt <= HandshakeAttempts
      /\ call.op # "token" => call.op = "resource"
  BY <1>1, <1>2, <1>3, OneMore DEF Call, Shaking
<1>5. PICK new : new = HandshakeFailed(call)
  OBVIOUS
<1>6. new \in CallRecord
  <2>1. CASE call.op = "token" /\ call.attempt < HandshakeAttempts
    BY <1>3, <1>5, <2>1, AgainRecord DEF HandshakeFailed, Shaking
  <2>2. CASE ~(call.op = "token" /\ call.attempt < HandshakeAttempts)
    BY <1>3, <1>5, <2>2, ReturnRecord DEF HandshakeFailed, Outs
  <2>. QED
    BY <2>1, <2>2
<1>7. PICK cl : cl = [old EXCEPT !.tee = t, !.call = new]
  OBVIOUS
<1>8. cl \in ClientRecord /\ cl.call = new /\ cl.key = old.key /\ cl.token = old.token
  BY <1>2, <1>6, <1>7 DEF ClientRecord
<1>9. client' = [client EXCEPT ![c] = cl]
  BY <1>1, <1>5, <1>7 DEF AuthFails
<1>10. PICK se \in SessionRecord : /\ session' = [session EXCEPT ![c] = se] /\ nonces' \in Nat
                                   /\ se.state = "open" \/ se = session[c]
  <2>1. CASE UNCHANGED <<session, nonces>>
    BY <1>2, <2>1 DEF IInv, TypeInv
  <2>2. ASSUME NEW selected \in Selections, OpenSession(c, selected)
        PROVE  \E se \in SessionRecord : /\ session' = [session EXCEPT ![c] = se] /\ nonces' \in Nat
                                         /\ se.state = "open"
    BY <2>2, OpenFacts
  <2>. QED
    BY <2>1, <2>2 DEF AuthFails
<1>11. KeyHas(cl, se)
  BY <1>2, <1>8, <1>10 DEF ClientHas, KeyHas
<1>12. ShakeHas(cl, se) /\ CountHas(cl.call, se) /\ EndHas(cl)
  BY <1>3, <1>4, <1>5, <1>8, FailedHas DEF Shaking
<1>. QED
  BY <1>8, <1>9, <1>10, <1>11, <1>12, StepInv DEF ClientHas

\* The attest request as it is counted.
LEMMA SentRecord ==
    ASSUME IInv, NEW c \in Clients
    PROVE  LET r == SentAttest(c)
           IN /\ r \in CallRecord /\ r.pc = Call(c).pc /\ r.attempt = Call(c).attempt
              /\ r.op = Call(c).op /\ r.res = Call(c).res /\ r.out = Call(c).out /\ r.got = Call(c).got
              /\ r.faults = Call(c).faults /\ r.losses = Call(c).losses
              /\ r.nonce = Call(c).nonce /\ r.alg = Call(c).alg /\ r.evidence = Call(c).evidence
<1>1. PICK o : o = Call(c)
  OBVIOUS
<1>2. o \in CallRecord
  BY <1>1, ClientFacts DEF Call
<1>3. PICK r : r = [o EXCEPT !.tries = @ + 1]
  OBVIOUS
<1>4. /\ r \in CallRecord /\ r.pc = o.pc /\ r.attempt = o.attempt
      /\ r.op = o.op /\ r.res = o.res /\ r.out = o.out /\ r.got = o.got
      /\ r.faults = o.faults /\ r.losses = o.losses
      /\ r.nonce = o.nonce /\ r.alg = o.alg /\ r.evidence = o.evidence
  BY <1>2, <1>3 DEF CallRecord
<1>. QED
  BY <1>1, <1>3, <1>4 DEF SentAttest

\* The session when the KBS takes the evidence.
LEMMA AttestedFacts ==
    ASSUME IInv, NEW c \in Clients, Attested(c)
    PROVE  \E se \in SessionRecord :
              /\ session' = [session EXCEPT ![c] = se] /\ KeyHas(client[c], se)
              /\ se.state = "attested" /\ se.nonce = session[c].nonce /\ se.tee = session[c].tee
              /\ se.alg = session[c].alg
<1>1. PICK old, pub : old = session[c] /\ pub = ExportPubkey(client[c].key)
  OBVIOUS
<1>2. /\ old \in SessionRecord /\ pub \in Pubs /\ KeyHas(client[c], old)
  BY <1>1, ClientFacts DEF Pubs, ClientHas
<1>3. PICK se : se = [old EXCEPT !.state = "attested", !.pub = pub]
  OBVIOUS
<1>4. /\ se \in SessionRecord /\ se.state = "attested" /\ se.pub = pub
      /\ se.nonce = old.nonce /\ se.tee = old.tee /\ se.alg = old.alg
  BY <1>2, <1>3 DEF SessionRecord
<1>5. session' = [session EXCEPT ![c] = se]
  BY <1>1, <1>3 DEF Attested
<1>. QED
  BY <1>1, <1>2, <1>4, <1>5 DEF KeyHas

\* What becomes of the session when an attest request is lost or fails.
LEMMA MaybeAttested ==
    ASSUME IInv, NEW c \in Clients, UNCHANGED session \/ (Accepts(c) /\ Attested(c))
    PROVE  \E se \in SessionRecord :
              /\ session' = [session EXCEPT ![c] = se] /\ KeyHas(client[c], se)
              /\ se.state = session[c].state \/ (se.state = "attested" /\ session[c].state # "none")
              /\ se.nonce = session[c].nonce /\ se.tee = session[c].tee /\ se.alg = session[c].alg
<1>1. CASE UNCHANGED session
  BY <1>1, ClientFacts DEF ClientHas, IInv, TypeInv
<1>2. CASE Accepts(c) /\ Attested(c)
  BY <1>2, AttestedFacts DEF Accepts
<1>. QED
  BY <1>1, <1>2

LEMMA FailInv ==
    ASSUME IInv, NEW c \in Clients, AuthNoTee(c) \/ EvidenceFails(c) \/ AttestFails(c)
    PROVE  IInv'
<1>1. PICK o : /\ o \in CallRecord /\ o.pc = Call(c).pc /\ o.attempt = Call(c).attempt
               /\ o.op = Call(c).op /\ o.out = Call(c).out
               /\ o.faults = Call(c).faults /\ o.losses = Call(c).losses
               /\ Continue(c, HandshakeFailed(Fault(o)))
  <2>1. CASE AuthNoTee(c) \/ EvidenceFails(c)
    <3>1. Call(c) \in CallRecord
      BY ClientFacts DEF Call
    <3>. QED
      BY <2>1, <3>1 DEF AuthNoTee, EvidenceFails
  <2>2. CASE AttestFails(c)
    BY <2>2, SentRecord DEF AttestFails
  <2>. QED
    BY <2>1, <2>2
<1>2. PICK call : call = Fault(o)
  OBVIOUS
<1>3. /\ call \in CallRecord /\ call.pc = o.pc /\ call.attempt = o.attempt
      /\ call.op = o.op /\ call.out = o.out
      /\ call.faults = o.faults + 1 /\ call.losses = o.losses
  BY <1>1, <1>2, FaultRecord
<1>4. Call(c).pc \in Shaking /\ nonces' = nonces
  BY DEF AuthNoTee, EvidenceFails, AttestFails, At, Call, Shaking
<1>5. Enough(call) /\ call.out = None
  BY <1>1, <1>3, <1>4, OneMore
<1>6. PICK se \in SessionRecord : session' = [session EXCEPT ![c] = se] /\ KeyHas(client[c], se)
  <2>1. UNCHANGED session \/ (Accepts(c) /\ Attested(c))
    BY DEF AuthNoTee, EvidenceFails, AttestFails
  <2>. QED
    BY <2>1, MaybeAttested
<1>7. At(c, call.pc)
  BY <1>1, <1>3 DEF At, Call
<1>. QED
  BY <1>1, <1>2, <1>3, <1>4, <1>5, <1>6, <1>7, FaultInv

\* A 401: the session is not the one the handshake opened any more, so that
\* there has been an expiry, or a request whose answer was lost.
LEMMA RefusedInv ==
    ASSUME IInv, NEW c \in Clients, AttestRefused(c)
    PROVE  IInv'
<1>1. PICK call : call = SentAttest(c)
  OBVIOUS
<1>2. /\ call \in CallRecord /\ call.pc = Call(c).pc /\ call.attempt = Call(c).attempt
      /\ call.op = Call(c).op /\ call.out = Call(c).out
      /\ call.faults = Call(c).faults /\ call.losses = Call(c).losses
  BY <1>1, SentRecord
<1>3. Call(c).pc = "attest" /\ session[c].state # "open"
  BY DEF AttestRefused, At, Call
<1>4. /\ CountHas(Call(c), session[c]) /\ KeyHas(client[c], session[c])
      /\ session[c] \in SessionRecord
  BY ClientFacts DEF ClientHas, Call
<1>5. Enough(call) /\ call.out = None
  BY <1>2, <1>3, <1>4 DEF CountHas, Enough, Trouble
<1>6. /\ session' = [session EXCEPT ![c] = session[c]] /\ nonces' = nonces
      /\ Continue(c, HandshakeFailed(call))
  BY <1>1 DEF AttestRefused, IInv, TypeInv
<1>7. At(c, call.pc) /\ call.pc \in Shaking
  BY <1>2, <1>3 DEF At, Call, Shaking
<1>. QED
  BY <1>2, <1>4, <1>5, <1>6, <1>7, FaultInv

LEMMA EvidenceInv ==
    ASSUME IInv, NEW c \in Clients, Evidence(c)
    PROVE  IInv'
<1>1. PICK old, o, se : old = client[c] /\ o = old.call /\ se = session[c]
  OBVIOUS
<1>2. /\ old \in ClientRecord /\ o \in CallRecord /\ se \in SessionRecord /\ ClientHas(old, se)
      /\ o.pc = "evidence" /\ old.key \in KeyPairs /\ old.tee \in Tees
  BY <1>1, ClientFacts DEF Evidence, At
<1>3. PICK e : e = HashRuntimeData(old.tee, ExportPubkey(old.key), o.nonce, o.alg)
  OBVIOUS
<1>4. e \in Evidences
  <2>1. ExportPubkey(old.key) \in Pubs
    BY <1>2 DEF Pubs
  <2>2. o.nonce \in Nat /\ o.alg \in ListAll \cup {None}
    BY <1>2 DEF CallRecord
  <2>. QED
    BY <1>2, <1>3, <2>1, <2>2 DEF Evidences
<1>5. PICK zero : zero = 0
  OBVIOUS
<1>6. PICK call : call = [o EXCEPT !.pc = "attest", !.tries = zero, !.evidence = e]
  OBVIOUS
<1>7. /\ call \in CallRecord /\ call.pc = "attest" /\ call.evidence = e
      /\ call.op = o.op /\ call.res = o.res /\ call.attempt = o.attempt /\ call.out = o.out
      /\ call.faults = o.faults /\ call.losses = o.losses /\ call.nonce = o.nonce /\ call.alg = o.alg
  <2>1. zero \in Nat
    BY <1>5
  <2>. QED
    BY <1>2, <1>4, <1>6, <2>1 DEF CallRecord, Shaking
<1>8. Continue(c, call) /\ session' = [session EXCEPT ![c] = se] /\ nonces' = nonces
  BY <1>1, <1>3, <1>5, <1>6 DEF Evidence, Call, IInv, TypeInv
<1>9. PICK cl : cl = [old EXCEPT !.call = call]
  OBVIOUS
<1>10. cl.call = call /\ cl.key = old.key /\ cl.tee = old.tee /\ cl.token = old.token
  BY <1>2, <1>7, <1>9, CallMoves
<1>11. ShakeHas(cl, se)
  BY <1>1, <1>2, <1>3, <1>7, <1>10 DEF ClientHas, ShakeHas
<1>12. CountHas(call, se)
  BY <1>1, <1>2, <1>7 DEF ClientHas, CountHas, Shaking, Trouble, Enough
<1>13. EndHas(cl)
  BY <1>1, <1>2, <1>7, <1>10, RcarAssumption DEF ClientHas, CountHas, EndHas, Outs
<1>. QED
  BY <1>1, <1>2, <1>7, <1>8, <1>9, <1>11, <1>12, <1>13, CallInv DEF ClientHas

\* The answer to an attest request is lost: it is sent again, or the handshake
\* fails.  The KBS may have taken the evidence all the same.
LEMMA LostInv ==
    ASSUME IInv, NEW c \in Clients, AttestLost(c)
    PROVE  IInv'
<1>1. PICK s, call : s = SentAttest(c) /\ call = Fault(s)
  OBVIOUS
<1>2. /\ s \in CallRecord /\ s.pc = Call(c).pc /\ s.attempt = Call(c).attempt
      /\ s.op = Call(c).op /\ s.res = Call(c).res /\ s.out = Call(c).out
      /\ s.faults = Call(c).faults /\ s.losses = Call(c).losses
      /\ s.nonce = Call(c).nonce /\ s.alg = Call(c).alg /\ s.evidence = Call(c).evidence
  BY <1>1, SentRecord
<1>3. /\ call \in CallRecord /\ call.pc = s.pc /\ call.attempt = s.attempt
      /\ call.op = s.op /\ call.res = s.res /\ call.out = s.out
      /\ call.faults = s.faults + 1 /\ call.losses = s.losses
      /\ call.nonce = s.nonce /\ call.alg = s.alg /\ call.evidence = s.evidence
  BY <1>1, <1>2, FaultRecord
<1>4. Call(c).pc = "attest" /\ nonces' = nonces /\ Continue(c, AttestAgain(call))
  BY <1>1 DEF AttestLost, At, Call
<1>5. Enough(call) /\ call.out = None
  BY <1>2, <1>3, <1>4, OneMore DEF Shaking
<1>6. PICK se \in SessionRecord :
              /\ session' = [session EXCEPT ![c] = se] /\ KeyHas(client[c], se)
              /\ se.state = session[c].state \/ (se.state = "attested" /\ session[c].state # "none")
              /\ se.nonce = session[c].nonce /\ se.tee = session[c].tee /\ se.alg = session[c].alg
  <2>1. UNCHANGED session \/ (Accepts(c) /\ Attested(c))
    BY DEF AttestLost
  <2>. QED
    BY <2>1, MaybeAttested
<1>7. CASE call.tries < AttestAttempts
  <2>1. [call EXCEPT !.pc = "attest"] = call
    BY <1>2, <1>3, <1>4 DEF CallRecord
  <2>2. Continue(c, call)
    BY <1>4, <1>7, <2>1 DEF AttestAgain
  <2>3. PICK cl : cl = [client[c] EXCEPT !.call = call]
    OBVIOUS
  <2>4. /\ cl.call = call /\ cl.key = client[c].key /\ cl.tee = client[c].tee
        /\ cl.token = client[c].token
    BY <1>3, <2>3, ClientFacts, CallMoves
  <2>5. ClientHas(client[c], session[c]) /\ client[c].call = Call(c) /\ Call(c) \in CallRecord
    BY ClientFacts DEF Call
  <2>6. ShakeHas(cl, se)
    BY <1>2, <1>3, <1>4, <1>6, <2>4, <2>5 DEF ClientHas, ShakeHas
  <2>7. CountHas(call, se)
    <3>1. /\ Call(c).faults \in Nat /\ Call(c).losses \in Nat /\ Call(c).attempt \in Nat \ {0}
      BY <2>5 DEF CallRecord
    <3>2. CountHas(Call(c), session[c])
      BY <2>5 DEF ClientHas
    <3>. QED
      BY <1>2, <1>3, <1>4, <1>5, <3>1, <3>2 DEF CountHas, Shaking, Trouble
  <2>8. EndHas(cl)
    BY <1>5, <2>4, RcarAssumption DEF EndHas, Outs
  <2>. QED
    BY <1>3, <1>4, <1>6, <2>2, <2>3, <2>6, <2>7, <2>8, CallInv
<1>8. CASE ~(call.tries < AttestAttempts)
  <2>1. Continue(c, HandshakeFailed(call))
    BY <1>4, <1>8 DEF AttestAgain
  <2>2. At(c, call.pc) /\ call.pc \in Shaking
    BY <1>2, <1>3, <1>4 DEF At, Call, Shaking
  <2>. QED
    BY <1>2, <1>3, <1>4, <1>5, <1>6, <2>1, <2>2, FaultInv
<1>. QED
  BY <1>7, <1>8

\* The handshake is done: get_token has its token, get_resource goes on.
LEMMA AttestInv ==
    ASSUME IInv, NEW c \in Clients, Attest(c)
    PROVE  IInv'
<1>1. PICK s, new, old, tok : /\ s = SentAttest(c) /\ new = HandshakeDone(s) /\ old = client[c]
                              /\ tok = [key |-> old.key, live |-> TRUE]
  OBVIOUS
<1>2. /\ s \in CallRecord /\ s.pc = Call(c).pc /\ s.attempt = Call(c).attempt
      /\ s.op = Call(c).op /\ s.res = Call(c).res /\ s.out = Call(c).out
      /\ s.faults = Call(c).faults /\ s.losses = Call(c).losses
  BY <1>1, SentRecord
<1>3. /\ old \in ClientRecord /\ Call(c) \in CallRecord /\ CountHas(Call(c), session[c])
      /\ Call(c).pc = "attest"
  BY <1>1, ClientFacts DEF Call, ClientHas, Attest, At
<1>4. /\ s.attempt \in Nat \ {0} /\ s.losses \in Nat /\ s.faults \in Nat
      /\ GetAttempts \in Nat \ {0} /\ None \notin Outs
  BY <1>2, RcarAssumption DEF CallRecord
<1>5. tok \in Tokens /\ tok.key = old.key /\ tok # None
  <2>1. old.key \in KeyPairs
    BY <1>3 DEF ClientRecord
  <2>2. PICK T : T = [key : KeyPairs, live : BOOLEAN]
    OBVIOUS
  <2>3. tok \in T /\ tok.key = old.key
    BY <1>1, <2>1, <2>2
  <2>4. T = Tokens
    BY <2>2 DEF Tokens
  <2>5. None \notin Tokens
    BY RcarAssumption
  <2>. QED
    BY <2>3, <2>4, <2>5
<1>6. PICK se \in SessionRecord :
              session' = [session EXCEPT ![c] = se] /\ KeyHas(client[c], se) /\ se.state = "attested"
  BY AttestedFacts DEF Attest
<1>7. /\ new \in CallRecord /\ CountHas(new, se) /\ new.pc \in {"idle", "get"}
      /\ new.out = "token" \/ new.out = None
         \/ (new.out = "unauthorized" /\ (new.res \in Denied \/ new.losses >= GetAttempts - 1))
  <2>1. CASE s.op = "token"
    <3>1. new = Return(s, "token")
      BY <1>1, <2>1 DEF HandshakeDone
    <3>2. new \in CallRecord /\ new.pc = "idle" /\ new.out = "token" /\ new.attempt = 1 /\ new.op = s.op
      BY <1>2, <3>1, ReturnRecord DEF Outs
    <3>. QED
      BY <1>4, <2>1, <3>2 DEF CountHas, Shaking
  <2>2. CASE s.op # "token" /\ s.attempt < GetAttempts
    <3>1. new = [Leave(s) EXCEPT !.pc = "get", !.attempt = @ + 1]
      BY <1>1, <2>2 DEF HandshakeDone
    <3>2. /\ new \in CallRecord /\ new.pc = "get" /\ new.attempt = s.attempt + 1
          /\ new.op = s.op /\ new.res = s.res /\ new.out = s.out
          /\ new.faults = s.faults /\ new.losses = s.losses
      BY ZenonT(40), <1>2, <3>1, AgainRecord
    <3>. QED
      BY <1>2, <1>3, <1>4, <1>6, <2>2, <3>2 DEF CountHas, Shaking
  <2>3. CASE s.op # "token" /\ ~(s.attempt < GetAttempts)
    <3>1. new = Return(s, "unauthorized")
      BY <1>1, <2>3 DEF HandshakeDone
    <3>2. /\ new \in CallRecord /\ new.pc = "idle" /\ new.out = "unauthorized" /\ new.attempt = 1
          /\ new.op = s.op /\ new.res = s.res /\ new.losses = s.losses
      BY <1>2, <3>1, ReturnRecord DEF Outs
    <3>3. s.res \in Denied \/ s.losses >= GetAttempts - 1
      BY <1>2, <1>3, <1>4, <2>3 DEF CountHas, Shaking
    <3>. QED
      BY <1>4, <3>2, <3>3 DEF CountHas, Shaking
  <2>. QED
    BY <2>1, <2>2, <2>3
<1>8. PICK cl : cl = [old EXCEPT !.call = new, !.token = tok]
  OBVIOUS
<1>9. cl \in ClientRecord /\ cl.call = new /\ cl.token = tok /\ cl.key = old.key
  BY <1>3, <1>5, <1>7, <1>8 DEF ClientRecord
<1>10. client' = [client EXCEPT ![c] = cl]
  BY <1>1, <1>8 DEF Attest
<1>11. KeyHas(cl, se)
  BY <1>1, <1>5, <1>6, <1>9 DEF KeyHas
<1>12. ShakeHas(cl, se)
  BY <1>7, <1>9 DEF ShakeHas
<1>13. EndHas(cl)
  BY <1>4, <1>5, <1>7, <1>9 DEF EndHas, Outs
<1>14. nonces' \in Nat
  BY DEF Attest, IInv, TypeInv
<1>. QED
  BY <1>6, <1>7, <1>9, <1>10, <1>11, <1>12, <1>13, <1>14, StepInv DEF ClientHas

-----------------------------------------------------------------------------
(* The resource request.                                                    *)

\* What is known of a call that asks for its resource.
LEMMA GetFacts ==
    ASSUME IInv, NEW c \in Clients, At(c, "get")
    PROVE  /\ Call(c) \in CallRecord /\ Call(c).pc = "get" /\ Call(c).op = "resource"
           /\ Call(c).res \in Resources /\ Call(c).out = None
           /\ Call(c).faults \in Nat /\ Call(c).losses \in Nat /\ Call(c).attempt \in Nat \ {0}
           /\ CountHas(Call(c), session[c]) /\ KeyHas(client[c], session[c])
           /\ session[c] \in SessionRecord /\ client[c] \in ClientRecord /\ client[c].key \in KeyPairs
<1>1. /\ Call(c) \in CallRecord /\ CountHas(Call(c), session[c]) /\ KeyHas(client[c], session[c])
      /\ session[c] \in SessionRecord /\ client[c] \in ClientRecord /\ client[c].key \in KeyPairs
      /\ Call(c).pc = "get"
  BY ClientFacts DEF ClientHas, Call, At
<1>2. Call(c).op = "resource" /\ Call(c).res \in Resources /\ Call(c).out = None
  BY <1>1 DEF CountHas, Shaking
<1>3. Call(c).faults \in Nat /\ Call(c).losses \in Nat /\ Call(c).attempt \in Nat \ {0}
  BY <1>1 DEF CallRecord
<1>. QED
  BY <1>1, <1>2, <1>3

\* get_resource returns.
LEMMA ResourceEnds ==
    ASSUME IInv, NEW c \in Clients, At(c, "get"), NEW call \in CallRecord,
           Continue(c, call), UNCHANGED <<session, nonces>>,
           call.pc = "idle", call.op = "resource", call.attempt = 1,
           call.out \in {"resource", "notFound", "httpError", "decryptError", "panic"},
           call.out \in {"decryptError", "panic"} => call.faults > 0,
           call.out = "resource" => call.got = call.res
    PROVE  IInv'
<1>1. PICK se : se = session[c]
  OBVIOUS
<1>2. se \in SessionRecord /\ KeyHas(client[c], se) /\ client[c] \in ClientRecord
  BY <1>1, GetFacts
<1>3. session' = [session EXCEPT ![c] = se] /\ nonces' = nonces
  BY <1>1 DEF IInv, TypeInv
<1>4. PICK cl : cl = [client[c] EXCEPT !.call = call]
  OBVIOUS
<1>5. cl.call = call /\ cl.token = client[c].token
  BY <1>2, <1>4, CallMoves
<1>6. GetAttempts \in Nat \ {0}
  BY RcarAssumption
<1>7. ShakeHas(cl, se)
  BY <1>5 DEF ShakeHas
<1>8. CountHas(call, se)
  BY <1>6 DEF CountHas, Shaking
<1>9. EndHas(cl)
  BY <1>5 DEF EndHas
<1>. QED
  BY <1>2, <1>3, <1>4, <1>7, <1>8, <1>9, CallInv

LEMMA GetOkInv ==
    ASSUME IInv, NEW c \in Clients, GetOk(c)
    PROVE  IInv'
<1>1. PICK o, k, res : o = Call(c) /\ k = client[c].key /\ res = o.res
  OBVIOUS
<1>2. At(c, "get") /\ UNCHANGED <<session, nonces>> /\ session[c].state = "attested"
  BY DEF GetOk, Authorized
<1>3. /\ o \in CallRecord /\ o.op = "resource" /\ res \in Resources /\ o.faults \in Nat
      /\ k \in KeyPairs /\ session[c].pub = ExportPubkey(k)
  BY <1>1, <1>2, GetFacts DEF KeyHas
<1>4. PICK damage \in Damages :
          LET response == Damaged(Respond(session[c].pub, Call(c).res), damage)
              plain == DecryptResponse(client[c].key, response)
              met == IF damage = "none" THEN Call(c) ELSE Fault(Call(c))
          IN Continue(c, CASE plain = Err -> Return(met, "decryptError")
                           [] plain = Panic -> Return(met, "panic")
                           [] OTHER -> [Return(met, "resource") EXCEPT !.got = plain])
  BY DEF GetOk
<1>5. PICK plain : plain = DecryptResponse(k, Damaged(Respond(ExportPubkey(k), res), damage))
  OBVIOUS
<1>6. PICK met : met = IF damage = "none" THEN o ELSE Fault(o)
  OBVIOUS
<1>7. /\ met \in CallRecord /\ met.op = "resource" /\ met.res = res
      /\ damage # "none" => met.faults > 0
  BY <1>1, <1>3, <1>6, FaultRecord
<1>8. /\ Err # Panic /\ {Err, Panic} \cap Resources = {}
  BY RcarAssumption
<1>9. plain \in {Err, Panic, res} /\ (damage = "none" => plain = res)
  BY <1>3, <1>5, Decrypts, NothingElse
<1>10. Continue(c, CASE plain = Err -> Return(met, "decryptError")
                     [] plain = Panic -> Return(met, "panic")
                     [] OTHER -> [Return(met, "resource") EXCEPT !.got = plain])
  BY <1>1, <1>3, <1>4, <1>5, <1>6
<1>11. CASE plain = Err
  <2>1. PICK new : new = Return(met, "decryptError")
    OBVIOUS
  <2>2. /\ new \in CallRecord /\ new.pc = "idle" /\ new.out = "decryptError" /\ new.attempt = 1
        /\ new.op = met.op /\ new.faults = met.faults
    BY <1>7, <2>1, ReturnRecord DEF Outs
  <2>3. Continue(c, new)
    BY <1>8, <1>10, <1>11, <2>1
  <2>. QED
    BY <1>2, <1>3, <1>7, <1>8, <1>9, <1>11, <2>2, <2>3, ResourceEnds
<1>12. CASE plain = Panic
  <2>1. PICK new : new = Return(met, "panic")
    OBVIOUS
  <2>2. /\ new \in CallRecord /\ new.pc = "idle" /\ new.out = "panic" /\ new.attempt = 1
        /\ new.op = met.op /\ new.faults = met.faults
    BY <1>7, <2>1, ReturnRecord DEF Outs
  <2>3. Continue(c, new)
    BY <1>8, <1>10, <1>12, <2>1
  <2>. QED
    BY <1>2, <1>3, <1>7, <1>8, <1>9, <1>12, <2>2, <2>3, ResourceEnds
<1>13. CASE plain = res
  <2>1. PICK ret : ret = Return(met, "resource")
    OBVIOUS
  <2>2. /\ ret \in CallRecord /\ ret.pc = "idle" /\ ret.out = "resource" /\ ret.attempt = 1
        /\ ret.op = met.op /\ ret.res = met.res
    BY <1>7, <2>1, ReturnRecord DEF Outs
  <2>3. PICK new : new = [ret EXCEPT !.got = res]
    OBVIOUS
  <2>4. /\ new \in CallRecord /\ new.pc = "idle" /\ new.out = "resource" /\ new.attempt = 1
        /\ new.op = ret.op /\ new.res = ret.res /\ new.got = res
    BY <1>3, <2>2, <2>3 DEF CallRecord
  <2>5. plain # Err /\ plain # Panic
    BY <1>3, <1>8, <1>13
  <2>6. Continue(c, [Return(met, "resource") EXCEPT !.got = plain])
    BY <1>10, <2>5
  <2>7. Continue(c, new)
    BY <1>13, <2>1, <2>3, <2>6
  <2>. QED
    BY <1>2, <1>7, <2>2, <2>4, <2>7, ResourceEnds
<1>. QED
  BY <1>9, <1>11, <1>12, <1>13

\* The KBS has no such resource, or there is no answer that says so.
LEMMA GetEndsInv ==
    ASSUME IInv, NEW c \in Clients, GetNotFound(c) \/ GetFails(c)
    PROVE  IInv'
<1>1. At(c, "get") /\ UNCHANGED <<session, nonces>>
  BY DEF GetNotFound, GetFails
<1>2. Call(c) \in CallRecord /\ Call(c).op = "resource"
  BY <1>1, GetFacts
<1>3. CASE GetNotFound(c)
  <2>1. PICK new : new = Return(Call(c), "notFound")
    OBVIOUS
  <2>2. new \in CallRecord /\ new.pc = "idle" /\ new.out = "notFound" /\ new.attempt = 1 /\ new.op = "resource"
    BY <1>2, <2>1, ReturnRecord DEF Outs
  <2>3. Continue(c, new)
    BY <1>3, <2>1 DEF GetNotFound
  <2>. QED
    BY <1>1, <2>2, <2>3, ResourceEnds
<1>4. CASE GetFails(c)
  <2>1. PICK met : met = Fault(Call(c))
    OBVIOUS
  <2>2. met \in CallRecord /\ met.op = "resource"
    BY <1>2, <2>1, FaultRecord
  <2>3. PICK new : new = Return(met, "httpError")
    OBVIOUS
  <2>4. new \in CallRecord /\ new.pc = "idle" /\ new.out = "httpError" /\ new.attempt = 1 /\ new.op = "resource"
    BY <2>2, <2>3, ReturnRecord DEF Outs
  <2>5. Continue(c, new)
    BY <1>4, <2>1, <2>3 DEF GetFails
  <2>. QED
    BY <1>1, <2>4, <2>5, ResourceEnds
<1>. QED
  BY <1>3, <1>4

\* A 401: get_resource runs a handshake.  If the resource is not refused, the
\* session the last handshake gained is gone.
LEMMA UnauthorizedInv ==
    ASSUME IInv, NEW c \in Clients, GetUnauthorized(c)
    PROVE  IInv'
<1>1. PICK o, se : o = Call(c) /\ se = session[c]
  OBVIOUS
<1>2. At(c, "get") /\ UNCHANGED <<session, nonces>> /\ (se.state # "attested" \/ o.res \in Denied)
  BY <1>1 DEF GetUnauthorized, Authorized
<1>3. /\ o \in CallRecord /\ o.op = "resource" /\ o.pc = "get" /\ o.res \in Resources /\ o.out = None
      /\ o.attempt \in Nat \ {0} /\ o.losses \in Nat /\ o.faults \in Nat
      /\ CountHas(o, se) /\ KeyHas(client[c], se) /\ se \in SessionRecord /\ client[c] \in ClientRecord
  BY <1>1, <1>2, GetFacts
<1>4. PICK call : call = [o EXCEPT !.pc = "auth"]
  OBVIOUS
<1>5. /\ call \in CallRecord /\ call.pc = "auth" /\ call.op = o.op /\ call.res = o.res
      /\ call.attempt = o.attempt /\ call.out = o.out /\ call.losses = o.losses /\ call.faults = o.faults
  BY <1>3, <1>4 DEF CallRecord, Shaking
<1>6. PICK cl : cl = [client[c] EXCEPT !.call = call]
  OBVIOUS
<1>7. cl.call = call
  BY <1>3, <1>5, <1>6, CallMoves
<1>8. ShakeHas(cl, se)
  BY <1>5, <1>7 DEF ShakeHas
<1>9. CountHas(call, se)
  BY <1>2, <1>3, <1>5 DEF CountHas, Shaking
<1>10. EndHas(cl)
  BY <1>3, <1>5, <1>7, RcarAssumption DEF EndHas, Outs
<1>11. Continue(c, call) /\ session' = [session EXCEPT ![c] = se] /\ nonces' = nonces
  BY <1>1, <1>2, <1>4 DEF GetUnauthorized, IInv, TypeInv
<1>. QED
  BY <1>3, <1>5, <1>6, <1>8, <1>9, <1>10, <1>11, CallInv

-----------------------------------------------------------------------------
(* Time passes.                                                             *)

LEMMA SessionExpiresInv ==
    ASSUME IInv, NEW c \in Clients, SessionExpires(c)
    PROVE  IInv'
<1>1. PICK old, o, was : old = client[c] /\ o = Call(c) /\ was = session[c]
  OBVIOUS
<1>2. /\ old \in ClientRecord /\ o \in CallRecord /\ was \in SessionRecord /\ old.call = o
      /\ KeyHas(old, was) /\ ShakeHas(old, was) /\ CountHas(o, was) /\ EndHas(old)
  BY <1>1, ClientFacts DEF ClientHas, Call
<1>3. /\ o.faults \in Nat /\ o.losses \in Nat /\ o.attempt \in Nat \ {0}
      /\ GetAttempts \in Nat \ {0} /\ HandshakeAttempts \in Nat \ {0} /\ None \notin Outs
  BY <1>2, RcarAssumption DEF CallRecord
<1>4. PICK se : se = [was EXCEPT !.state = "none"]
  OBVIOUS
<1>5. se \in SessionRecord /\ se.state = "none"
  BY <1>2, <1>4 DEF SessionRecord
<1>6. session' = [session EXCEPT ![c] = se] /\ nonces' = nonces
  BY <1>1, <1>4 DEF SessionExpires
<1>7. PICK n : n = IF o.pc = "idle" THEN o.losses ELSE o.losses + 1
  OBVIOUS
<1>8. PICK call : call = [o EXCEPT !.losses = n]
  OBVIOUS
<1>9. /\ call \in CallRecord /\ call.losses = n /\ call.pc = o.pc /\ call.op = o.op /\ call.res = o.res
      /\ call.attempt = o.attempt /\ call.out = o.out /\ call.faults = o.faults /\ call.got = o.got
      /\ call.nonce = o.nonce /\ call.alg = o.alg /\ call.evidence = o.evidence
  <2>1. n \in Nat
    BY <1>3, <1>7
  <2>. QED
    BY <1>2, <1>8, <2>1 DEF CallRecord
<1>10. Continue(c, call)
  <2>1. Loss(c) = call
    BY <1>1, <1>7, <1>8 DEF Loss, At, Call
  <2>. QED
    BY <2>1 DEF SessionExpires
<1>11. PICK cl : cl = [old EXCEPT !.call = call]
  OBVIOUS
<1>12. cl.call = call /\ cl.key = old.key /\ cl.tee = old.tee /\ cl.token = old.token
  BY <1>2, <1>9, <1>11, CallMoves
<1>13. KeyHas(old, se)
  BY <1>2, <1>5 DEF KeyHas
<1>14. ShakeHas(cl, se)
  BY <1>2, <1>5, <1>9, <1>12 DEF ShakeHas
<1>15. CountHas(call, se)
  BY <1>2, <1>3, <1>5, <1>7, <1>9 DEF CountHas, Shaking, Trouble, Enough
<1>16. EndHas(cl)
  <2>1. CASE o.pc = "idle"
    BY <1>2, <1>7, <1>9, <1>12, <2>1 DEF EndHas, Trouble
  <2>2. CASE o.pc # "idle"
    <3>1. call.out = None
      BY <1>2, <1>9, <2>2 DEF CountHas
    <3>. QED
      BY <1>3, <1>12, <3>1 DEF EndHas, Outs
  <2>. QED
    BY <2>1, <2>2
<1>. QED
  BY <1>1, <1>5, <1>6, <1>9, <1>10, <1>11, <1>13, <1>14, <1>15, <1>16, CallInv

LEMMA TokenExpiresInv ==
    ASSUME IInv, NEW c \in Clients, TokenExpires(c)
    PROVE  IInv'
<1>1. PICK old, se, was : old = client[c] /\ se = session[c] /\ was = old.token
  OBVIOUS
<1>2. /\ old \in ClientRecord /\ se \in SessionRecord /\ was # None
      /\ KeyHas(old, se) /\ ShakeHas(old, se) /\ CountHas(old.call, se) /\ EndHas(old)
  BY <1>1, ClientFacts DEF ClientHas, TokenExpires, HasValidToken
<1>3. PICK tok : tok = [was EXCEPT !.live = FALSE]
  OBVIOUS
<1>4. tok \in Tokens /\ tok.key = was.key /\ None \notin Tokens
  <2>1. was \in Tokens
    BY <1>1, <1>2 DEF ClientRecord
  <2>2. tok \in Tokens /\ tok.key = was.key
    BY <1>3, <2>1 DEF Tokens
  <2>. QED
    BY <2>2, RcarAssumption
<1>5. PICK cl : cl = [old EXCEPT !.token = tok]
  OBVIOUS
<1>6. /\ cl \in ClientRecord /\ cl.token = tok /\ cl.key = old.key /\ cl.tee = old.tee
      /\ cl.call = old.call
  BY <1>2, <1>4, <1>5 DEF ClientRecord
<1>7. client' = [client EXCEPT ![c] = cl]
  BY <1>1, <1>3, <1>5 DEF TokenExpires
<1>8. session' = [session EXCEPT ![c] = se] /\ nonces' \in Nat
  BY <1>1 DEF TokenExpires, IInv, TypeInv
<1>9. KeyHas(cl, se) /\ ShakeHas(cl, se) /\ EndHas(cl)
  <2>1. tok # None
    BY <1>4
  <2>. QED
    BY <1>1, <1>2, <1>4, <1>6, <2>1 DEF KeyHas, ShakeHas, EndHas
<1>10. CountHas(cl.call, se)
  BY <1>2, <1>6
<1>. QED
  BY <1>2, <1>6, <1>7, <1>8, <1>9, <1>10, StepInv DEF ClientHas

-----------------------------------------------------------------------------
(* The theorems.                                                            *)

LEMMA NextInv == IInv /\ [Next]_rcarVars => IInv'
<1>1. ASSUME IInv, UNCHANGED rcarVars PROVE IInv'
  BY <1>1 DEF IInv, TypeInv, rcarVars, ClientHas, KeyHas, ShakeHas, CountHas, EndHas, Enough, Trouble
<1>2. ASSUME IInv, Next PROVE IInv'
  <2>1. PICK c \in Clients :
            \/ GetToken(c) \/ \E r \in Resources : GetResource(c, r)
            \/ Progress(c) \/ SessionExpires(c) \/ TokenExpires(c)
    BY <1>2 DEF Next
  <2>2. CASE GetToken(c) \/ \E r \in Resources : GetResource(c, r)
    BY <1>2, <2>2, BeginInv
  <2>3. CASE Auth(c)
    BY <1>2, <2>3, AuthInv
  <2>4. CASE AuthFails(c)
    BY <1>2, <2>4, AuthFailsInv
  <2>5. CASE AuthNoTee(c) \/ EvidenceFails(c) \/ AttestFails(c)
    BY <1>2, <2>5, FailInv
  <2>6. CASE Evidence(c)
    BY <1>2, <2>6, EvidenceInv
  <2>7. CASE Attest(c)
    BY <1>2, <2>7, AttestInv
  <2>8. CASE AttestRefused(c)
    BY <1>2, <2>8, RefusedInv
  <2>9. CASE AttestLost(c)
    BY <1>2, <2>9, LostInv
  <2>10. CASE GetOk(c)
    BY <1>2, <2>10, GetOkInv
  <2>11. CASE GetUnauthorized(c)
    BY <1>2, <2>11, UnauthorizedInv
  <2>12. CASE GetNotFound(c) \/ GetFails(c)
    BY <1>2, <2>12, GetEndsInv
  <2>13. CASE SessionExpires(c)
    BY <1>2, <2>13, SessionExpiresInv
  <2>14. CASE TokenExpires(c)
    BY <1>2, <2>14, TokenExpiresInv
  <2>. QED
    BY <2>1, <2>2, <2>3, <2>4, <2>5, <2>6, <2>7, <2>8, <2>9, <2>10, <2>11, <2>12, <2>13, <2>14
       DEF Progress
<1>. QED
  BY <1>1, <1>2

LEMMA AlwaysInv == Spec => []IInv
BY InitInv, NextInv, PTL DEF Spec

\* Whatever requests are lost, refused or repeated, and however often sessions
\* expire, the evidence rcar_handshake presents is over the client's key and
\* the challenge of the session it is presented in.
THEOREM EvidenceStaysFresh == Spec => []EvidenceAnswersChallenge
<1>1. IInv => EvidenceAnswersChallenge
  <2>1. ASSUME IInv, NEW c \in Clients, client[c].call.pc = "attest", session[c].state # "none"
        PROVE  client[c].call.evidence = Challenged(c)
    <3>1. ShakeHas(client[c], session[c])
      BY <2>1, ClientFacts DEF ClientHas
    <3>. QED
      BY <2>1, <3>1 DEF ShakeHas, Challenged
  <2>. QED
    BY <2>1 DEF EvidenceAnswersChallenge
<1>. QED
  BY <1>1, AlwaysInv, PTL

\* get_token and get_resource end as they should: a token is for the key that
\* is handed on with it as PEM, a call gives up only after the failures or
\* expiries its limits allow for, an intact response is decrypted to the
\* resource that was asked for.
THEOREM CallsEndForAReason == Spec => []GivesUpForAReason
<1>1. IInv => GivesUpForAReason
  <2>1. ASSUME IInv, NEW c \in Clients
        PROVE  LET call == client[c].call
                   trouble == call.faults + call.losses
               IN /\ call.out = "unauthorized" =>
                       call.res \in Denied \/ call.losses >= GetAttempts - 1
                  /\ call.out = "token" =>
                       /\ client[c].token # None
                       /\ client[c].token.key = FromPem(ToPem(client[c].key))
                  /\ call.out = "handshakeError" =>
                       trouble >= IF call.op = "token" THEN HandshakeAttempts ELSE 1
                  /\ call.out \in {"decryptError", "panic"} => call.faults > 0
                  /\ call.out = "resource" => call.got = call.res
    <3>1. PICK cl : cl = client[c]
      OBVIOUS
    <3>2. EndHas(cl) /\ KeyHas(cl, session[c]) /\ cl.key \in KeyPairs
      BY <2>1, <3>1, ClientFacts DEF ClientHas
    <3>3. FromPem(ToPem(cl.key)) = cl.key
      BY <3>2, PemRoundTrip
    <3>4. cl.call.out = "token" => cl.token # None /\ cl.token.key = FromPem(ToPem(cl.key))
      BY <3>2, <3>3 DEF EndHas, KeyHas
    <3>. QED
      BY <3>1, <3>2, <3>4 DEF EndHas, Trouble
  <2>. QED
    BY <2>1 DEF GivesUpForAReason
<1>. QED
  BY <1>1, AlwaysInv, PTL
=============================================================================

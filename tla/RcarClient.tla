----------------------------- MODULE RcarClient -----------------------------
(***************************************************************************)
(* kbs_protocol's RCAR client: KbsClient<EvidenceProvider>.                *)
(*                                                                         *)
(* get_token and get_resource run the handshake (Request, Challenge,       *)
(* Attestation, Response) with a key broker service when they need to, and *)
(* retry on three levels: the attest request, the handshake, the resource  *)
(* request.  The KBS is modelled from the requests the client sends: a     *)
(* session has a nonce and, once attested, the key that was attested; the  *)
(* client holds the session as a cookie.  An answer can be lost after the  *)
(* KBS acted on the request; sessions and tokens expire at any time.       *)
(***************************************************************************)
EXTENDS FiniteSets, TeeKeys

CONSTANTS
    Clients,            \* the clients
    Builds,             \* how each may be built: [pem, provider, tee]
    Selections,         \* what a challenge says of the hash algorithm
    Resources,          \* resource URIs
    Absent,             \* those the KBS does not have
    Denied,             \* those its policy refuses
    None,
    HandshakeAttempts,  \* RCAR_MAX_ATTEMPT
    AttestAttempts,     \* max_retries of the attest request
    GetAttempts,        \* KBS_GET_RESOURCE_MAX_ATTEMPT
    MaxCalls            \* bound on calls

\* How a call ends, and the tokens there may be.
Outs == {"token", "resource", "notFound", "unauthorized", "handshakeError", "httpError",
         "decryptError", "panic"}
KeyPairs == {NewKeyPair(n) : n \in 1..Cardinality(Clients)}
            \cup {RsaKeyPair(n) : n \in 1..Cardinality(Clients)}
Tokens == [key : KeyPairs, live : BOOLEAN]

ASSUME RcarAssumption ==
    /\ Absent \subseteq Resources /\ Denied \subseteq Resources
    /\ \A b \in Builds : b.pem = None \/ b.pem \in [form : {"pkcs1", "pkcs8"}, kind : {"rsa", "ec"}, n : {0}]
    /\ None \notin Resources \cup Outs \cup Tokens /\ Err # Panic
    /\ {Err, Panic} \cap Resources = {} /\ [n |-> 1, len |-> CekLen] \notin {Err, Panic}
    /\ HandshakeAttempts \in Nat \ {0}
    /\ AttestAttempts \in Nat \ {0}
    /\ GetAttempts \in Nat \ {0}
    /\ MaxCalls \in Nat

VARIABLES
    client,    \* the clients, each with its call in progress
    session,   \* the KBS session each client's cookie names
    nonces,    \* the nonces the KBS has given out
    calls      \* calls so far

rcarVars == <<client, session, nonces, calls>>

NoSession == [state |-> "none", nonce |-> 0, tee |-> None, alg |-> None, pub |-> None]

\* A call: its result, and (history) the failures and expiries it met.
NewCall == [pc |-> "idle", op |-> None, res |-> None, attempt |-> 1, tries |-> 0,
            nonce |-> 0, alg |-> None, evidence |-> None,
            out |-> None, got |-> None, faults |-> 0, losses |-> 0]

\* KbsClientBuilder::build: the key pair given as PEM or a fresh one, no token,
\* and a TEE type that is asked for later.
BuildKey(pem, n) == IF pem = None THEN NewKeyPair(n) ELSE FromPem([pem EXCEPT !.n = n])
NewClient(build, n) ==
    [key |-> BuildKey(build.pem, n), provider |-> build.provider, hw |-> build.tee,
     tee |-> None, token |-> None, call |-> NewCall]

-----------------------------------------------------------------------------
At(c, pc) == client[c].call.pc = pc
Call(c) == client[c].call

\* The call's next state; what leaves the token alone.
Continue(c, new) == client' = [client EXCEPT ![c].call = new]

\* The handshake's variables go out of scope with it.
Leave(call) == [call EXCEPT !.tries = 0, !.alg = None, !.evidence = None]

Return(call, out) == [Leave(call) EXCEPT !.pc = "idle", !.out = out, !.attempt = 1, !.nonce = 0]

Fault(call) == [call EXCEPT !.faults = @ + 1]

\* repeat_rcar_handshake, or get_resource's `?`, on a failed handshake.
HandshakeFailedAtOnce(call) == Return(call, "handshakeError")
HandshakeFailedBackoff(call) ==
    IF call.op = "token" /\ call.attempt < HandshakeAttempts
      THEN [call EXCEPT !.pc = "backoff", !.attempt = @ + 1]
      ELSE Return(call, "handshakeError")
HandshakeFailed(call) ==
    IF call.op = "token" /\ call.attempt < HandshakeAttempts
      THEN [Leave(call) EXCEPT !.pc = "auth", !.attempt = @ + 1]
      ELSE Return(call, "handshakeError")

\* What follows a handshake: the end of get_token, or the next attempt at the
\* resource.
HandshakeDone(call) ==
    IF call.op = "token" THEN Return(call, "token")
    ELSE IF call.attempt < GetAttempts
      THEN [Leave(call) EXCEPT !.pc = "get", !.attempt = @ + 1]
      ELSE Return(call, "unauthorized")

\* The attest request failed in transit.
AttestAgain(call) ==
    IF call.tries < AttestAttempts THEN [call EXCEPT !.pc = "attest"]
    ELSE HandshakeFailed(call)

\* Token::check_valid of the token the client has.
HasValidToken(c) == client[c].token # None /\ client[c].token.live

GetToken(c) ==
    /\ At(c, "idle") /\ calls < MaxCalls
    /\ calls' = calls + 1
    /\ LET new == [NewCall EXCEPT !.op = "token"]
       IN Continue(c, IF HasValidToken(c) THEN Return(new, "token")
                      ELSE [new EXCEPT !.pc = "auth"])
    /\ UNCHANGED <<session, nonces>>

GetResource(c, r) ==
    /\ At(c, "idle") /\ calls < MaxCalls
    /\ calls' = calls + 1
    /\ Continue(c, [NewCall EXCEPT !.op = "resource", !.res = r, !.pc = "get"])
    /\ UNCHANGED <<session, nonces>>

-----------------------------------------------------------------------------
(* rcar_handshake.                                                          *)

\* EvidenceProvider::get_tee_type: detect_tee_type in this process, or the
\* agent's answer, which may not come or not parse.  The client keeps it.
GetTeeType(c) == IF client[c].tee = None THEN client[c].hw ELSE client[c].tee
TeeTypeFails(c) == client[c].tee = None /\ client[c].provider = "aa"

\* The KBS opens a session and sends its challenge.
OpenSession(c, selected) ==
    /\ nonces' = nonces + 1
    /\ session' = [session EXCEPT ![c] =
                      [NoSession EXCEPT !.state = "open", !.nonce = nonces + 1,
                                        !.tee = GetTeeType(c),
                                        !.alg = GetHashAlgorithm(selected)]]

AuthKeepsNonce(c) ==
    /\ At(c, "auth")
    /\ \E selected \in Selections :
          /\ GetHashAlgorithm(selected) # Err
          /\ OpenSession(c, selected)
          /\ Continue(c, [Call(c) EXCEPT !.pc = "evidence", !.alg = GetHashAlgorithm(selected),
                              !.nonce = IF @ = 0 THEN nonces + 1 ELSE @])
    /\ UNCHANGED calls
Auth(c) ==
    /\ At(c, "auth")
    /\ \E selected \in Selections :
          /\ GetHashAlgorithm(selected) # Err
          /\ OpenSession(c, selected)
          /\ client' = [client EXCEPT
                ![c].tee = GetTeeType(c),
                ![c].call = [@ EXCEPT !.pc = "evidence", !.nonce = nonces + 1,
                                      !.alg = GetHashAlgorithm(selected)]]
    /\ UNCHANGED calls

\* The TEE type is not known ...
AuthNoTee(c) ==
    /\ At(c, "auth") /\ TeeTypeFails(c)
    /\ Continue(c, HandshakeFailed(Fault(Call(c))))
    /\ UNCHANGED <<session, nonces, calls>>

\* ... the KBS refuses, or the answer does not arrive; or it arrives, with its
\* cookie, and its algorithm is of no use.
AuthFails(c) ==
    /\ At(c, "auth")
    /\ client' = [client EXCEPT ![c].tee = GetTeeType(c),
                                ![c].call = HandshakeFailed(Fault(@))]
    /\ \/ \E selected \in Selections :
             GetHashAlgorithm(selected) = Err /\ OpenSession(c, selected)
       \/ UNCHANGED <<session, nonces>>
    /\ UNCHANGED calls

\* generate_evidence over the public key and the challenge's nonce.
Evidence(c) ==
    /\ At(c, "evidence")
    /\ Continue(c, [Call(c) EXCEPT !.pc = "attest", !.tries = 0,
           !.evidence = HashRuntimeData(client[c].tee, ExportPubkey(client[c].key),
                                        Call(c).nonce, Call(c).alg)])
    /\ UNCHANGED <<session, nonces, calls>>

\* The attester, or the call to the agent, fails.
EvidenceFails(c) ==
    /\ At(c, "evidence")
    /\ Continue(c, HandshakeFailed(Fault(Call(c))))
    /\ UNCHANGED <<session, nonces, calls>>

SentAttest(c) == [Call(c) EXCEPT !.tries = @ + 1]

\* The KBS takes evidence over the key and the session's challenge.
Challenged(c) ==
    HashRuntimeData(session[c].tee, ExportPubkey(client[c].key), session[c].nonce,
                    session[c].alg)
Accepts(c) == session[c].state # "none" /\ Call(c).evidence = Challenged(c)
Attested(c) ==
    session' = [session EXCEPT ![c].state = "attested",
                               ![c].pub = ExportPubkey(client[c].key)]

Attest(c) ==
    /\ At(c, "attest") /\ Accepts(c)
    /\ Attested(c)
    /\ client' = [client EXCEPT ![c].call = HandshakeDone(SentAttest(c)),
                                ![c].token = [key |-> client[c].key, live |-> TRUE]]
    /\ UNCHANGED <<nonces, calls>>

\* 401: the session is gone, or was attested by a request whose answer was
\* lost.
AttestRefused(c) ==
    /\ At(c, "attest") /\ session[c].state # "open"
    /\ Continue(c, HandshakeFailed(SentAttest(c)))
    /\ UNCHANGED <<session, nonces, calls>>

\* The request or its answer is lost: a connect or request error.
AttestLost(c) ==
    /\ At(c, "attest")
    /\ Continue(c, AttestAgain(Fault(SentAttest(c))))
    /\ \/ UNCHANGED session
       \/ Accepts(c) /\ Attested(c)
    /\ UNCHANGED <<nonces, calls>>

\* Any other error, an internal error of the KBS, or a token Token::new does
\* not take.
AttestFails(c) ==
    /\ At(c, "attest")
    /\ Continue(c, HandshakeFailed(Fault(SentAttest(c))))
    /\ \/ UNCHANGED session
       \/ Accepts(c) /\ Attested(c)
    /\ UNCHANGED <<nonces, calls>>

-----------------------------------------------------------------------------
(* get_resource.                                                            *)

Authorized(c) == session[c].state = "attested" /\ Call(c).res \notin Denied

\* decrypt_response of what arrives; a panic ends the task.
GetOk(c) ==
    /\ At(c, "get") /\ Authorized(c) /\ Call(c).res \notin Absent
    /\ \E damage \in Damages :
          LET response == Damaged(Respond(session[c].pub, Call(c).res), damage)
              plain == DecryptResponse(client[c].key, response)
              met == IF damage = "none" THEN Call(c) ELSE Fault(Call(c))
          IN Continue(c, CASE plain = Err -> Return(met, "decryptError")
                           [] plain = Panic -> Return(met, "panic")
                           [] OTHER -> [Return(met, "resource") EXCEPT !.got = plain])
    /\ UNCHANGED <<session, nonces, calls>>

GetUnauthorized(c) ==
    /\ At(c, "get") /\ ~Authorized(c)
    /\ Continue(c, [Call(c) EXCEPT !.pc = "auth"])
    /\ UNCHANGED <<session, nonces, calls>>

GetNotFound(c) ==
    /\ At(c, "get") /\ Authorized(c) /\ Call(c).res \in Absent
    /\ Continue(c, Return(Call(c), "notFound"))
    /\ UNCHANGED <<session, nonces, calls>>

\* The request or its answer is lost, is another error, or is unreadable.
GetFails(c) ==
    /\ At(c, "get")
    /\ Continue(c, Return(Fault(Call(c)), "httpError"))
    /\ UNCHANGED <<session, nonces, calls>>

-----------------------------------------------------------------------------
(* Time passes.                                                             *)

Loss(c) == [Call(c) EXCEPT !.losses = IF At(c, "idle") THEN @ ELSE @ + 1]

SessionExpires(c) ==
    /\ session[c].state # "none"
    /\ session' = [session EXCEPT ![c].state = "none"]
    /\ Continue(c, Loss(c))
    /\ UNCHANGED <<nonces, calls>>

TokenExpires(c) ==
    /\ HasValidToken(c)
    /\ client' = [client EXCEPT ![c].token.live = FALSE]
    /\ UNCHANGED <<session, nonces, calls>>

-----------------------------------------------------------------------------
Init ==
    /\ client \in {f \in [Clients -> {NewClient(b, n) : b \in Builds,
                                        n \in 1..Cardinality(Clients)}] :
                      /\ \A c \in Clients : f[c].key # Err
                      /\ \A c, d \in Clients : c # d => f[c].key.n # f[d].key.n}
    /\ session = [c \in Clients |-> NoSession]
    /\ nonces = 0
    /\ calls = 0

\* A step of the client with an answer of the KBS.
Progress(c) ==
    \/ Auth(c) \/ AuthNoTee(c) \/ AuthFails(c) \/ Evidence(c) \/ EvidenceFails(c)
    \/ Attest(c) \/ AttestRefused(c) \/ AttestLost(c) \/ AttestFails(c)
    \/ GetOk(c) \/ GetUnauthorized(c) \/ GetNotFound(c) \/ GetFails(c)

Next ==
    \E c \in Clients :
        \/ GetToken(c) \/ \E r \in Resources : GetResource(c, r)
        \/ Progress(c) \/ SessionExpires(c) \/ TokenExpires(c)

\* Every request is answered or times out (KBS_REQ_TIMEOUT_SEC), and the
\* executor polls the call.  Nothing is assumed of which answer it is.
Fairness == \A c \in Clients : WF_rcarVars(Progress(c))

Spec == Init /\ [][Next]_rcarVars /\ Fairness

-----------------------------------------------------------------------------
(* Properties.                                                              *)

\* A call ends as it should.  get_token returns a token for the key that is
\* handed on with it, as PEM (the agent's answer to the hub), and fails after RCAR_MAX_ATTEMPT
\* handshakes of which each met a failure or an expiry; get_resource reports
\* UnAuthorized only for a resource that is refused or when each of the
\* sessions its handshakes gained was gone before it was used; a response that
\* arrives as the KBS sent it is decrypted, with either kind of key, and gives
\* the resource that was asked for.
GivesUpForAReason ==
    \A c \in Clients :
        LET call == client[c].call
            trouble == call.faults + call.losses
        IN /\ call.out = "unauthorized" =>
                call.res \in Denied \/ call.losses >= GetAttempts - 1
           /\ call.out = "token" =>
                /\ client[c].token # None
                /\ client[c].token.key = FromPem(ToPem(client[c].key))
           /\ call.out = "handshakeError" =>
                trouble >= IF call.op = "token" THEN HandshakeAttempts ELSE 1
           /\ call.out \in {"decryptError", "panic"} => call.faults > 0
           /\ call.out = "resource" => call.got = call.res

\* The evidence a client presents is over its key and the challenge of the
\* session it presents it in, hashed by the algorithm that challenge selected:
\* no retry carries an answer to an earlier challenge.
EvidenceAnswersChallenge ==
    \A c \in Clients :
        client[c].call.pc = "attest" /\ session[c].state # "none" =>
            client[c].call.evidence = Challenged(c)

\* Every call returns, however many requests fail.
CallsEnd == \A c \in Clients : (client[c].call.pc # "idle") ~> (client[c].call.pc = "idle")
=============================================================================

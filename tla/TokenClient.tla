---------------------------- MODULE TokenClient -----------------------------
(***************************************************************************)
(* The hub's way to a resource: the KBS client with a token provider in    *)
(* the Confidential Data Hub, and the attestation agent that provides its  *)
(* tokens.                                                                 *)
(*                                                                         *)
(* The hub's client is a static behind a mutex: one get_resource at a      *)
(* time, a token and key that stay from call to call.  For a token it asks *)
(* the agent over ttrpc and waits 50 seconds.  The agent serves every such *)
(* request with a client of its own and a fresh key pair, whose handshakes *)
(* may well take longer: the answer is then dropped, and the next request  *)
(* runs beside the old one.  Of a handshake only what RcarClient shows is  *)
(* used: get_token ends, in an error or in a token for its client's key.   *)
(***************************************************************************)
EXTENDS Integers, FiniteSets

CONSTANTS
    Jobs,          \* GetToken requests the agent serves at a time
    Resources,     \* resource URIs
    Absent,        \* those the KBS does not have
    Denied,        \* those its policy refuses
    None,
    GetAttempts,   \* KBS_GET_RESOURCE_MAX_ATTEMPT
    MaxCalls       \* bound on the hub's calls

\* A token names the key it certifies, and is valid or not.
Tokens == [key : Nat, live : BOOLEAN]
\* How get_resource ends.
Outs == {"resource", "decryptError", "unauthorized", "getTokenFailed", "notFound", "httpError"}

ASSUME TokenClientAssumption ==
    /\ Absent \subseteq Resources /\ Denied \subseteq Resources
    /\ None \notin Resources \cup Jobs \cup Outs /\ None \notin Tokens
    /\ GetAttempts \in Nat \ {0}
    /\ MaxCalls \in Nat

VARIABLES
    token,   \* the client's token: the key it certifies, and if it is valid
    key,     \* the client's tee_key
    call,    \* the call in progress
    job,     \* the agent's GetToken requests
    keys,    \* key pairs made so far
    calls    \* calls so far

vars == <<token, key, call, job, keys, calls>>

NoCall == [pc |-> "idle", res |-> None, attempt |-> 1, job |-> None, out |-> None, losses |-> 0]
NoJob == [state |-> "free", key |-> 0]

Init ==
    /\ token = None
    /\ key = 0
    /\ call = NoCall
    /\ job = [j \in Jobs |-> NoJob]
    /\ keys = 0
    /\ calls = 0

At(pc) == call.pc = pc
Goto(c, pc) == call' = [c EXCEPT !.pc = pc]
Return(c, out) == call' = [c EXCEPT !.pc = "idle", !.job = None, !.out = out]

-----------------------------------------------------------------------------
(* get_resource: the loop's head.                                           *)

\* The mutex is taken and the loop begins: a client without a token asks for
\* one first.
GetResource(r) ==
    /\ At("idle") /\ calls < MaxCalls
    /\ calls' = calls + 1
    /\ Goto([NoCall EXCEPT !.res = r], IF token = None THEN "update" ELSE "get")
    /\ UNCHANGED <<token, key, job, keys>>

-----------------------------------------------------------------------------
(* update_token.  It is run at the loop's head, and to renew after a 401.   *)

Waiting == call.pc \in {"awaitUpdate", "awaitRenew"}

\* AATokenProvider::get_token reaches the agent, whose KbsTokenGetter builds a
\* client with a key pair of its own.
AskAgent(j) ==
    /\ call.pc \in {"update", "renew"} /\ job[j].state = "free"
    /\ keys' = keys + 1
    /\ job' = [job EXCEPT ![j] = [state |-> "running", key |-> keys + 1]]
    /\ Goto([call EXCEPT !.job = j],
            IF At("update") THEN "awaitUpdate" ELSE "awaitRenew")
    /\ UNCHANGED <<token, key, calls>>

\* The token and the key of the answer replace the client's.  After a renewal
\* the loop goes round, if an attempt is left.
TokenArrivesAlone(j) ==
    /\ Waiting /\ call.job = j /\ job[j].state = "running"
    /\ token' = [key |-> job[j].key, live |-> TRUE]
    /\ job' = [job EXCEPT ![j] = NoJob]
    /\ Goto([call EXCEPT !.job = None], "get")
    /\ UNCHANGED <<key, keys, calls>>
TokenArrives(j) ==
    /\ Waiting /\ call.job = j /\ job[j].state = "running"
    /\ token' = [key |-> job[j].key, live |-> TRUE]
    /\ key' = job[j].key
    /\ job' = [job EXCEPT ![j] = NoJob]
    /\ \/ At("awaitUpdate") /\ Goto([call EXCEPT !.job = None], "get")
       \/ /\ At("awaitRenew") /\ call.attempt < GetAttempts
          /\ Goto([call EXCEPT !.job = None, !.attempt = @ + 1], "get")
       \/ /\ At("awaitRenew") /\ call.attempt >= GetAttempts
          /\ Return(call, "unauthorized")
    /\ UNCHANGED <<keys, calls>>

\* The handshakes fail: so does get_resource, and the old token stays.
TokenError(j) ==
    /\ Waiting /\ call.job = j /\ job[j].state = "running"
    /\ job' = [job EXCEPT ![j] = NoJob]
    /\ Return(call, "getTokenFailed")
    /\ UNCHANGED <<token, key, keys, calls>>

\* The 50 seconds are over; the agent goes on, for nobody.
TokenTimeout(j) ==
    /\ Waiting /\ call.job = j
    /\ Return(call, "getTokenFailed")
    /\ UNCHANGED <<token, key, job, keys, calls>>

\* An orphaned request ends; its answer is dropped.
OrphanEnds(j) ==
    /\ job[j].state = "running" /\ call.job # j
    /\ job' = [job EXCEPT ![j] = NoJob]
    /\ UNCHANGED <<token, key, call, keys, calls>>

-----------------------------------------------------------------------------
(* The request with the token as bearer.                                    *)

Authorized == token.live /\ call.res \notin Denied

\* The KBS encrypts to the key the token certifies.
GetOk ==
    /\ At("get") /\ Authorized /\ call.res \notin Absent
    /\ Return(call, IF token.key = key THEN "resource" ELSE "decryptError")
    /\ UNCHANGED <<token, key, job, keys, calls>>

GetUnauthorized ==
    /\ At("get") /\ ~Authorized
    /\ Goto(call, "renew")
    /\ UNCHANGED <<token, key, job, keys, calls>>

GetNotFound ==
    /\ At("get") /\ Authorized /\ call.res \in Absent
    /\ Return(call, "notFound")
    /\ UNCHANGED <<token, key, job, keys, calls>>

\* The request or its answer is lost, is another error, or is unreadable.
GetFails ==
    /\ At("get")
    /\ Return(call, "httpError")
    /\ UNCHANGED <<token, key, job, keys, calls>>

TokenExpires ==
    /\ token # None /\ token.live
    /\ token' = [token EXCEPT !.live = FALSE]
    /\ call' = [call EXCEPT !.losses = IF At("idle") THEN @ ELSE @ + 1]
    /\ UNCHANGED <<key, job, keys, calls>>

-----------------------------------------------------------------------------
\* The agent takes the request; its get_token ends or the wait does.
Update == \E j \in Jobs : AskAgent(j) \/ TokenArrives(j) \/ TokenError(j) \/ TokenTimeout(j)
Request == GetOk \/ GetUnauthorized \/ GetNotFound \/ GetFails
Orphan == \E j \in Jobs : OrphanEnds(j)

Next == (\E r \in Resources : GetResource(r)) \/ Update \/ Request \/ Orphan \/ TokenExpires

\* Requests to the KBS and to the agent are answered or time out; the agent's
\* handshakes end (RcarClient, CallsEnd).
Fairness == WF_vars(Update) /\ WF_vars(Request) /\ WF_vars(Orphan)

Spec == Init /\ [][Next]_vars /\ Fairness

-----------------------------------------------------------------------------
(* Properties.                                                              *)

\* The client's token certifies the client's key, whichever of the agent's
\* concurrent handshakes it comes from, so that no answer of the KBS is one
\* the client cannot decrypt.
TokenMatchesKey ==
    /\ token # None => token.key = key
    /\ call.out # "decryptError"
=============================================================================

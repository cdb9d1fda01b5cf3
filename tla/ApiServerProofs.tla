-------------------------- MODULE ApiServerProofs ---------------------------
(***************************************************************************)
(* The hub's shared client of the KBS, its start, its answers and what     *)
(* secure_mount leaves in the guest, for any number of requests, of        *)
(* GetToken requests beside each other, and any scenes.                    *)
(***************************************************************************)
EXTENDS ApiServer, TLAPS, FiniteSetTheorems, SequenceTheorems

-----------------------------------------------------------------------------
(* The invariants.                                                          *)

\* Requests and calls are records; what their fields hold is left open.
ReqFields == {"pc", "stage", "todo", "got", "arg", "out", "tmp", "late", "blame"}
CallFields == {"pc", "res", "attempt", "job", "out", "losses"}
IsReq(r) == r = [f \in ReqFields |-> r[f]]
IsCall(c) == c = [f \in CallFields |-> c[f]]

\* The client of the KBS: a request is made with a token, for the key that it
\* certifies, and brings only what the KBS gives out.
TokenInv ==
    /\ IsCall(call)
    /\ token \in Tokens \cup {None}
    /\ keys \in Nat /\ job = [j \in Jobs |-> job[j]]
    /\ \A j \in Jobs : job[j] = [state |-> job[j].state, key |-> job[j].key] /\ job[j].key \in Nat
    /\ call.pc = "get" => token # None
    /\ call.out = "resource" => call.res \notin Absent \cup Denied
    /\ TokenMatchesKey

\* The requests: one that has ended has no directory.
EndPcs == {"done", "panicked"}
Clean(r) == r.pc \in EndPcs => ~r.tmp
ReqInv ==
    /\ req = [p \in Procs |-> req[p]]
    /\ \A p \in Procs : IsReq(req[p])
    /\ \A p \in Clients : Clean(req[p])

\* A request that waits for the client holds its mutex, and the call in
\* progress is its own.
CallIsFor(p) == req[p].pc = "held" => owner = p /\ call.res = PathOf(p) /\ ResourceUriTryFrom(req[p].arg) # Err
MutexInv == \A p \in Procs : CallIsFor(p)

\* The start: what is not fetched yet is still to do.
Credentials == scene.config.credentials
InPlace(path) == path \in DOMAIN files /\ files[path] = scene.published[path]
Pending(path) == \E i \in 1..Len(req[Boot].todo) : req[Boot].todo[i] = path
BootPcs == {"getter", "resolve", "secret", "held", "done", "panicked"}
BootInv ==
    /\ scene \in Scenes
    /\ hub = "down" => req[Boot].pc = "new" /\ ~req[Boot].late
    /\ hub \in {"init", "serving"} => CdhConfigNew(scene).credentials = Credentials
    /\ hub = "init" =>
          /\ req[Boot].pc \in BootPcs
          /\ req[Boot].todo \in Seq(DOMAIN Credentials)
          /\ \A path \in DOMAIN Credentials : Pending(path) \/ InPlace(path)
          /\ req[Boot].pc \in {"secret", "held"} =>
                req[Boot].todo # << >> /\ req[Boot].arg = Credentials[Head(req[Boot].todo)]
    /\ hub = "serving" => req[Boot].pc = "done" /\ \A path \in DOMAIN Credentials : InPlace(path)
    /\ hub \in {"down", "init", "serving", "ended"}

HubInv == TokenInv /\ ReqInv /\ MutexInv /\ BootInv

-----------------------------------------------------------------------------
(* The client of the KBS.                                                   *)

LEMMA NoCallShape == IsCall(NoCall) /\ NoCall.pc = "idle" /\ NoCall.out = None /\ NoCall.res = None
BY DEF NoCall, IsCall, CallFields

LEMMA TokenInit == Init => TokenInv
<1>. SUFFICES ASSUME Init PROVE TokenInv
  OBVIOUS
<1>1. None \notin Outs
  BY TokenClientAssumption
<1>2. \A j \in Jobs : job[j] = [state |-> "free", key |-> 0]
  BY DEF Init, NoJob
<1>3. TokenMatchesKey
  BY <1>1, NoCallShape DEF Init, TokenMatchesKey, Outs
<1>. QED
  BY <1>1, <1>2, <1>3, NoCallShape DEF Init, TokenInv, Outs

\* A token the agent hands out, for the key of its handshake.
LEMMA NewToken ==
    ASSUME NEW k \in Nat
    PROVE  /\ [key |-> k, live |-> TRUE] \in Tokens /\ [key |-> k, live |-> TRUE] # None
           /\ [key |-> k, live |-> TRUE].key = k
<1>1. [key |-> k, live |-> TRUE] \in Tokens
  BY DEF Tokens
<1>2. None \notin Tokens
  BY TokenClientAssumption
<1>. QED
  BY <1>1, <1>2

\* The fields of a call that goes on, and of one that ends.
LEMMA CallGoes ==
    ASSUME NEW c, IsCall(c), NEW pc
    PROVE  LET d == [c EXCEPT !.pc = pc]
           IN IsCall(d) /\ d.pc = pc /\ d.out = c.out /\ d.res = c.res
BY DEF IsCall, CallFields

LEMMA CallEnds ==
    ASSUME NEW c, IsCall(c), NEW out
    PROVE  LET d == [c EXCEPT !.pc = "idle", !.job = None, !.out = out]
           IN IsCall(d) /\ d.pc = "idle" /\ d.out = out /\ d.res = c.res
BY DEF IsCall, CallFields

\* get_resource starts: without a token, one is asked for first.
LEMMA TokenGetResource ==
    ASSUME TokenInv, NEW r, GetResource(r)
    PROVE  TokenInv' /\ call'.res = r
<1>1. UNCHANGED <<token, key, job, keys>>
  BY DEF GetResource
<1>2. PICK pc : pc = IF token = None THEN "update" ELSE "get"
  OBVIOUS
<1>3. call' = [[NoCall EXCEPT !.res = r] EXCEPT !.pc = pc]
  BY <1>2 DEF GetResource, Goto
<1>4. IsCall(call)' /\ call'.pc = pc /\ call'.out = None /\ call'.res = r
  BY <1>3 DEF IsCall, CallFields, NoCall
<1>5. None \notin Outs
  BY TokenClientAssumption
<1>. QED
  BY <1>1, <1>2, <1>4, <1>5 DEF TokenInv, TokenMatchesKey, Outs

\* A handler that is dropped abandons its call.
LEMMA TokenDropped ==
    ASSUME TokenInv, call' \in {call, NoCall}, UNCHANGED <<token, key, job, keys>>
    PROVE  TokenInv'
<1>1. CASE call' = call
  BY <1>1 DEF TokenInv, TokenMatchesKey, IsCall
<1>2. CASE call' = NoCall
  <2>1. IsCall(call)' /\ call'.pc = "idle" /\ call'.out = None
    BY <1>2, NoCallShape DEF IsCall
  <2>2. None \notin Outs
    BY TokenClientAssumption
  <2>. QED
    BY <2>1, <2>2 DEF TokenInv, TokenMatchesKey, Outs
<1>. QED
  BY <1>1, <1>2

LEMMA TokenAsk ==
    ASSUME TokenInv, NEW j \in Jobs, AskAgent(j)
    PROVE  TokenInv' /\ call'.res = call.res
<1>0. IsCall(call)
  BY DEF TokenInv
<1>1. UNCHANGED <<token, key>>
  BY DEF AskAgent
<1>2. PICK pc : pc = IF At("update") THEN "awaitUpdate" ELSE "awaitRenew"
  OBVIOUS
<1>3. call' = [[call EXCEPT !.job = j] EXCEPT !.pc = pc]
  BY <1>2 DEF AskAgent, Goto
<1>4. IsCall(call)' /\ call'.pc = pc /\ call'.out = call.out /\ call'.res = call.res
  BY <1>0, <1>3 DEF IsCall, CallFields
<1>5. /\ keys' \in Nat /\ job' = [i \in Jobs |-> job'[i]]
      /\ \A i \in Jobs : /\ job'[i] = [state |-> job'[i].state, key |-> job'[i].key]
                         /\ job'[i].key \in Nat
  <2>1. keys \in Nat /\ keys' = keys + 1 /\ keys' \in Nat
    BY DEF AskAgent, TokenInv
  <2>2. job' = [job EXCEPT ![j] = [state |-> "running", key |-> keys']]
    BY <2>1 DEF AskAgent
  <2>. QED
    BY <2>1, <2>2 DEF TokenInv
<1>. QED
  BY <1>1, <1>2, <1>4, <1>5 DEF TokenInv, TokenMatchesKey

\* A GetToken request is over.
LEMMA JobFreed ==
    ASSUME TokenInv, NEW j \in Jobs, job' = [job EXCEPT ![j] = NoJob]
    PROVE  /\ job' = [i \in Jobs |-> job'[i]]
           /\ \A i \in Jobs : /\ job'[i] = [state |-> job'[i].state, key |-> job'[i].key]
                              /\ job'[i].key \in Nat
BY DEF TokenInv, NoJob

LEMMA TokenAnswer ==
    ASSUME TokenInv, NEW j \in Jobs, TokenArrives(j)
    PROVE  TokenInv' /\ call'.res = call.res
<1>1. PICK k \in Nat : k = job[j].key
  BY DEF TokenInv
<1>2. token' = [key |-> k, live |-> TRUE] /\ key' = k /\ keys' = keys /\ job' = [job EXCEPT ![j] = NoJob]
  BY <1>1 DEF TokenArrives
<1>3. token' \in Tokens /\ token' # None /\ token'.key = key'
  BY <1>2, NewToken
<1>4. /\ IsCall(call)' /\ call'.res = call.res
      /\ call'.out = call.out \/ call'.out = "unauthorized"
  <2>0. IsCall(call)
    BY DEF TokenInv
  <2>1. CASE call' = [[call EXCEPT !.job = None] EXCEPT !.pc = "get"]
    BY <2>0, <2>1 DEF IsCall, CallFields
  <2>2. CASE call' = [[call EXCEPT !.job = None, !.attempt = @ + 1] EXCEPT !.pc = "get"]
    <3>1. PICK n : n = call.attempt + 1
      OBVIOUS
    <3>2. call' = [[call EXCEPT !.job = None, !.attempt = n] EXCEPT !.pc = "get"]
      BY <2>2, <3>1 DEF TokenInv, IsCall, CallFields
    <3>. QED
      BY <2>0, <3>2 DEF IsCall, CallFields
  <2>3. CASE call' = [call EXCEPT !.pc = "idle", !.job = None, !.out = "unauthorized"]
    BY <2>0, <2>3 DEF IsCall, CallFields
  <2>. QED
    BY <2>1, <2>2, <2>3 DEF TokenArrives, Goto, Return
<1>. QED
  BY <1>2, <1>3, <1>4, JobFreed DEF TokenInv, TokenMatchesKey

\* The request ends without a resource, or goes on; the token stays.
LEMMA TokenKept ==
    ASSUME TokenInv, UNCHANGED <<token, key, keys>>,
           job' = job \/ \E j \in Jobs : job' = [job EXCEPT ![j] = NoJob],
           NEW c, call' = c, IsCall(c), c.res = call.res, c.pc # "get" \/ c.pc = call.pc,
           c.out \in {call.out, "unauthorized", "getTokenFailed", "notFound", "httpError"}
    PROVE  TokenInv' /\ call'.res = call.res
<1>1. /\ job' = [i \in Jobs |-> job'[i]]
      /\ \A i \in Jobs : job'[i] = [state |-> job'[i].state, key |-> job'[i].key] /\ job'[i].key \in Nat
  <2>1. CASE job' = job
    BY <2>1 DEF TokenInv
  <2>2. CASE \E j \in Jobs : job' = [job EXCEPT ![j] = NoJob]
    BY <2>2, JobFreed
  <2>. QED
    BY <2>1, <2>2
<1>2. IsCall(call)'
  BY DEF IsCall
<1>. QED
  BY <1>1, <1>2 DEF TokenInv, TokenMatchesKey

\* A step of the agent, of the KBS or of time keeps the client's invariant and
\* does not change what a call asks for.
LEMMA TokenStep ==
    ASSUME TokenInv, Update \/ Request \/ Orphan \/ TokenExpires
    PROVE  TokenInv' /\ call'.res = call.res
<1>0. IsCall(call)
  BY DEF TokenInv
<1>1. ASSUME NEW j \in Jobs, AskAgent(j) PROVE TokenInv' /\ call'.res = call.res
  BY <1>1, TokenAsk
<1>2. ASSUME NEW j \in Jobs, TokenArrives(j) PROVE TokenInv' /\ call'.res = call.res
  BY <1>2, TokenAnswer
<1>3. ASSUME NEW j \in Jobs, TokenError(j) \/ TokenTimeout(j) PROVE TokenInv' /\ call'.res = call.res
  <2>1. PICK c : c = [call EXCEPT !.pc = "idle", !.job = None, !.out = "getTokenFailed"]
    OBVIOUS
  <2>2. IsCall(c) /\ c.pc = "idle" /\ c.out = "getTokenFailed" /\ c.res = call.res
    BY <1>0, <2>1, CallEnds
  <2>3. /\ call' = c /\ UNCHANGED <<token, key, keys>>
        /\ job' = job \/ job' = [job EXCEPT ![j] = NoJob]
    BY <1>3, <2>1 DEF TokenError, TokenTimeout, Return
  <2>. QED
    BY <2>2, <2>3, TokenKept
<1>4. ASSUME NEW j \in Jobs, OrphanEnds(j) PROVE TokenInv' /\ call'.res = call.res
  <2>1. /\ call' = call /\ UNCHANGED <<token, key, keys>>
        /\ job' = [job EXCEPT ![j] = NoJob]
    BY <1>4 DEF OrphanEnds
  <2>2. PICK c : c = call
    OBVIOUS
  <2>3. call' = c /\ IsCall(c) /\ c.res = call.res /\ c.pc = call.pc /\ c.out = call.out
    BY <1>0, <2>1, <2>2
  <2>. QED
    BY <2>1, <2>3, TokenKept
<1>5. CASE GetOk
  <2>1. token \in Tokens /\ token.key = key
    BY <1>5 DEF GetOk, At, TokenInv, TokenMatchesKey
  <2>2. call' = [call EXCEPT !.pc = "idle", !.job = None, !.out = "resource"]
    BY <1>5, <2>1 DEF GetOk, Return
  <2>3. IsCall(call)' /\ call'.pc = "idle" /\ call'.out = "resource" /\ call'.res = call.res
    BY <1>0, <2>2 DEF IsCall, CallFields
  <2>4. call.res \notin Absent \cup Denied
    BY <1>5 DEF GetOk, Authorized
  <2>. QED
    BY <1>5, <2>3, <2>4 DEF GetOk, TokenInv, TokenMatchesKey
<1>6. CASE GetUnauthorized
  <2>1. PICK c : c = [call EXCEPT !.pc = "renew"]
    OBVIOUS
  <2>2. IsCall(c) /\ c.pc = "renew" /\ c.out = call.out /\ c.res = call.res
    BY <1>0, <2>1, CallGoes
  <2>3. call' = c /\ UNCHANGED <<token, key, keys, job>>
    BY <1>6, <2>1 DEF GetUnauthorized, Goto
  <2>. QED
    BY <2>2, <2>3, TokenKept
<1>7. CASE GetNotFound \/ GetFails
  <2>1. PICK out \in {"notFound", "httpError"} : Return(call, out)
    BY <1>7 DEF GetNotFound, GetFails
  <2>2. PICK c : c = [call EXCEPT !.pc = "idle", !.job = None, !.out = out]
    OBVIOUS
  <2>3. IsCall(c) /\ c.pc = "idle" /\ c.out = out /\ c.res = call.res
    BY <1>0, <2>2 DEF IsCall, CallFields
  <2>4. call' = c /\ UNCHANGED <<token, key, keys, job>>
    BY <1>7, <2>1, <2>2 DEF GetNotFound, GetFails, Return
  <2>. QED
    BY <2>3, <2>4, TokenKept
<1>8. CASE TokenExpires
  <2>1. token \in Tokens /\ token' = [token EXCEPT !.live = FALSE] /\ UNCHANGED <<key, job, keys>>
    BY <1>8 DEF TokenExpires, TokenInv
  <2>2. token' \in Tokens /\ token'.key = token.key
    BY <2>1 DEF Tokens
  <2>3. token' # None
    BY <2>2, TokenClientAssumption
  <2>4. IsCall(call)' /\ call'.pc = call.pc /\ call'.out = call.out /\ call'.res = call.res
    BY <1>0, <1>8 DEF TokenExpires, IsCall, CallFields
  <2>5. token # None
    BY <1>8 DEF TokenExpires
  <2>. QED
    BY <2>1, <2>2, <2>3, <2>4, <2>5 DEF TokenInv, TokenMatchesKey
<1>. QED
  BY <1>1, <1>2, <1>3, <1>4, <1>5, <1>6, <1>7, <1>8 DEF Update, Request, Orphan

-----------------------------------------------------------------------------
(* What a step of a request changes.                                        *)

\* Its own record, and nobody else's.
Touches(p) ==
    /\ req' = [q \in Procs |-> req'[q]]
    /\ \A q \in Procs : q # p => req'[q] = req[q]
    /\ IsReq(req'[p])

\* The mutex and the call stay as they are, are taken, or are given up.
Keeps(p) ==
    /\ owner' = owner /\ call' = call
    /\ req'[p].pc = "held" => req[p].pc = "held" /\ req'[p].arg = req[p].arg
Takes(p) ==
    /\ owner = None /\ owner' = p
    /\ LegalUri(p) /\ call'.res = PathOf(p) /\ req'[p].arg = req[p].arg
Releases(p) ==
    /\ req'[p].pc # "held"
    /\ \/ req[p].pc = "held" /\ owner' = None /\ call' = call
       \/ owner = p /\ owner' = None

Moves(p) ==
    /\ Touches(p) /\ scene' = scene
    /\ p \in Clients => Clean(req'[p])
    /\ p \in Clients => hub' = hub /\ files' = files
    /\ Keeps(p) \/ Takes(p) \/ Releases(p)

LEMMA BootOnly == \A p \in Clients : p # Boot /\ p \in Procs
BY DataHubAssumption DEF Procs

\* A request that fails has ended.
LEMMA FailsEnds ==
    ASSUME ReqInv, NEW p \in Procs, NEW cause, Fails(p, cause)
    PROVE  /\ Touches(p) /\ req'[p].pc = "done" /\ ~req'[p].tmp
           /\ p # Boot => hub' = hub
           /\ p = Boot => hub' = "ended"
<1>1. IsReq(req[p]) /\ req = [q \in Procs |-> req[q]]
  BY DEF ReqInv
<1>2. req' = [req EXCEPT ![p] = Failed(req[p], cause)]
  BY <1>1 DEF Fails
<1>3. IsReq(Failed(req[p], cause)) /\ Failed(req[p], cause).pc = "done" /\ Failed(req[p], cause).tmp = FALSE
  BY <1>1 DEF Failed, EndedWith, IsReq, ReqFields
<1>4. Touches(p) /\ req'[p].pc = "done" /\ req'[p].tmp = FALSE
  BY <1>1, <1>2, <1>3 DEF Touches
<1>. QED
  BY <1>4 DEF Fails

\* A value that was got: the request goes on, or fails for it.
LEMMA GotGoesOn ==
    ASSUME ReqInv, NEW p \in Procs, NEW v, Got(p, v)
    PROVE  /\ Touches(p) /\ req'[p].pc \in {"resolve", "done"}
           /\ req'[p].pc = "done" => ~req'[p].tmp
           /\ p # Boot => hub' = hub /\ files' = files
           /\ p = Boot => /\ req'[p].pc = "resolve" /\ req'[p].todo = Tail(req[p].todo)
                          /\ hub' = hub /\ files' = Written(Head(req[p].todo), v)
<1>1. IsReq(req[p]) /\ req = [q \in Procs |-> req[q]]
  BY DEF ReqInv
<1>2. PICK n : n = [req[p] EXCEPT !.pc = "resolve", !.todo = Tail(@), !.got = Append(@, v), !.arg = None]
  OBVIOUS
<1>3. IsReq(n) /\ n.pc = "resolve" /\ n.todo = Tail(req[p].todo)
  BY <1>1, <1>2 DEF IsReq, ReqFields
<1>4. CASE req' = [req EXCEPT ![p] = n] /\ hub' = hub
  <2>1. Touches(p) /\ req'[p] = n
    BY <1>1, <1>3, <1>4 DEF Touches
  <2>. QED
    BY <1>3, <1>4, <2>1 DEF Got
<1>5. CASE p # Boot /\ Fails(p, FALSE)
  BY <1>5, FailsEnds DEF Got
<1>. QED
  BY <1>2, <1>4, <1>5 DEF Got

\* The steps that fail, and those that get a value.
LEMMA FailsMoves ==
    ASSUME ReqInv, NEW p \in Procs, NEW cause, Fails(p, cause), files' = files, scene' = scene,
           Keeps(p) \/ Releases(p) \/ (owner' = owner /\ call' = call)
    PROVE  Moves(p)
<1>1. /\ Touches(p) /\ req'[p].pc = "done" /\ ~req'[p].tmp
      /\ p # Boot => hub' = hub
  BY FailsEnds
<1>2. Keeps(p) \/ Releases(p)
  BY <1>1 DEF Keeps
<1>. QED
  BY <1>1, <1>2, BootOnly DEF Moves, Clean

LEMMA GotMoves ==
    ASSUME ReqInv, NEW p \in Procs, NEW v, Got(p, v), scene' = scene,
           Keeps(p) \/ Releases(p) \/ (owner' = owner /\ call' = call)
    PROVE  Moves(p)
<1>1. /\ Touches(p) /\ req'[p].pc \in {"resolve", "done"}
      /\ req'[p].pc = "done" => ~req'[p].tmp
      /\ p # Boot => hub' = hub /\ files' = files
  BY GotGoesOn
<1>2. Keeps(p) \/ Releases(p)
  BY <1>1 DEF Keeps
<1>. QED
  BY <1>1, <1>2, BootOnly DEF Moves, Clean, EndPcs

\* A step that only writes the request's own record, and does not make it wait
\* for the client.
LEMMA OwnMoves ==
    ASSUME ReqInv, NEW p \in Procs, NEW n, req' = [req EXCEPT ![p] = n], IsReq(n), Clean(n),
           n.pc = "held" => req[p].pc = "held" /\ n.arg = req[p].arg,
           UNCHANGED <<tokenVars, scene, hub, files, owner>>
    PROVE  Moves(p)
<1>1. Touches(p) /\ req'[p] = n
  BY DEF ReqInv, Touches
<1>2. owner' = owner /\ call' = call /\ scene' = scene /\ hub' = hub /\ files' = files
  BY DEF tokenVars
<1>. QED
  BY <1>1, <1>2 DEF Moves, Keeps

\* A record that ends.
LEMMA EndedShape ==
    ASSUME NEW r, IsReq(r), NEW n,
           \/ \E out : n = EndedWith(r, out) \/ n = Answered(r, out)
           \/ \E cause : n = Failed(r, cause)
    PROVE  IsReq(n) /\ n.pc = "done" /\ ~n.tmp
<1>1. ASSUME NEW o, n = EndedWith(r, o)
      PROVE  IsReq(n) /\ n.pc = "done" /\ n.tmp = FALSE
  BY <1>1 DEF EndedWith, IsReq, ReqFields
<1>2. ASSUME NEW cause, n = Failed(r, cause)
      PROVE  IsReq(n) /\ n.pc = "done" /\ n.tmp = FALSE
  BY <1>2 DEF Failed, EndedWith, IsReq, ReqFields
<1>. QED
  BY <1>1, <1>2 DEF Answered

LEMMA ServiceMoves ==
    ASSUME ReqInv, NEW p \in Procs, Service(p)
    PROVE  Moves(p)
<1>0. IsReq(req[p]) /\ req = [q \in Procs |-> req[q]]
  BY DEF ReqInv
<1>1. CASE Receive(p) \/ ReceivePull(p) \/ WriteStorageKey(p) \/ WriteGocryptfsPasswd(p)
  BY <1>0, <1>1 DEF Receive, ReceivePull, WriteStorageKey, WriteGocryptfsPasswd,
                    Moves, Touches, Keeps, Clean, IsReq, ReqFields, EndPcs, tokenVars
<1>2. CASE InitializeImageClient(p) \/ ImageClientReady(p) \/ LockImageClient(p) \/ WriteOssfsPasswd(p)
  BY <1>0, <1>2 DEF InitializeImageClient, ImageClientReady, LockImageClient, WriteOssfsPasswd,
                    Moves, Touches, Keeps, Clean, IsReq, ReqFields, EndPcs, tokenVars
<1>3. CASE ReceiveOtherVolume(p) \/ NewGetterFails(p) \/ IllegalUri(p) \/ KmsFails(p) \/ PullFails(p)
           \/ CommandFails(p)
  <2>1. PICK cause : Fails(p, cause)
    BY <1>3 DEF ReceiveOtherVolume, NewGetterFails, IllegalUri, KmsFails, PullFails, CommandFails
  <2>2. files' = files /\ scene' = scene /\ owner' = owner /\ call' = call
    BY <1>3 DEF ReceiveOtherVolume, NewGetterFails, IllegalUri, KmsFails, PullFails, CommandFails,
                tokenVars
  <2>. QED
    BY <2>1, <2>2, FailsMoves
<1>4. CASE Answer(p) \/ SecretCli(p) \/ PullReturns(p) \/ MountGocryptfs(p) \/ MountLuks(p)
  <2>1. PICK n : /\ req' = [req EXCEPT ![p] = n]
                 /\ (\E v : n = Answered(req[p], v)) \/ n = Failed(req[p], FALSE)
    BY <1>0, <1>4 DEF Answer, SecretCli, PullReturns, MountGocryptfs, MountLuks
  <2>2. IsReq(n) /\ n.pc = "done" /\ ~n.tmp
    <3>1. PICK r : r = req[p]
      OBVIOUS
    <3>2. (\E v : n = Answered(r, v)) \/ n = Failed(r, FALSE)
      BY <2>1, <3>1
    <3>. QED
      BY <1>0, <3>1, <3>2, EndedShape
  <2>3. UNCHANGED <<tokenVars, scene, hub, files, owner>>
    BY <1>4 DEF Answer, SecretCli, PullReturns, MountGocryptfs, MountLuks
  <2>. QED
    BY <2>1, <2>2, <2>3, OwnMoves DEF Clean
<1>5. CASE MountOssfs(p)
  <2>1. PICK n : /\ req' = [req EXCEPT ![p] = n]
                 /\ \/ n = Answered(req[p], Ask(p).target)
                    \/ n = [req[p] EXCEPT !.pc = "resolve", !.todo = <<Ask(p).encPasswd>>]
    BY <1>0, <1>5 DEF MountOssfs
  <2>2. IsReq(n) /\ ((n.pc = "done" /\ ~n.tmp) \/ n.pc = "resolve")
    <3>1. PICK r, t : r = req[p] /\ t = Ask(p).target
      OBVIOUS
    <3>2. CASE n = Answered(r, t)
      BY <1>0, <3>1, <3>2, EndedShape
    <3>3. CASE n = [r EXCEPT !.pc = "resolve", !.todo = <<Ask(p).encPasswd>>]
      BY <1>0, <3>1, <3>3 DEF IsReq, ReqFields
    <3>. QED
      BY <2>1, <3>1, <3>2, <3>3
  <2>3. UNCHANGED <<tokenVars, scene, hub, files, owner>>
    BY <1>5 DEF MountOssfs
  <2>. QED
    BY <2>1, <2>2, <2>3, OwnMoves DEF Clean, EndPcs
<1>6. CASE Resolve(p)
  <2>1. scene' = scene /\ owner' = owner /\ call' = call
    BY <1>6 DEF Resolve, tokenVars
  <2>2. CASE \E v : Got(p, v)
    BY <2>1, <2>2, GotMoves
  <2>3. CASE Fails(p, FALSE) /\ files' = files
    BY <2>1, <2>3, FailsMoves
  <2>4. CASE UNCHANGED <<hub, files>> /\ \E pc \in {"secret", "getter", "kms"} : \E a :
                req' = [req EXCEPT ![p] = [req[p] EXCEPT !.pc = pc, !.arg = a]]
    <3>0. PICK pc \in {"secret", "getter", "kms"} : \E a :
              req' = [req EXCEPT ![p] = [req[p] EXCEPT !.pc = pc, !.arg = a]]
      BY <2>4
    <3>1. PICK a, n : req' = [req EXCEPT ![p] = n] /\ n = [req[p] EXCEPT !.pc = pc, !.arg = a]
      BY <3>0
    <3>2. IsReq(n) /\ n.pc = pc
      BY <1>0, <3>1 DEF IsReq, ReqFields
    <3>. QED
      BY <1>6, <2>4, <3>1, <3>2, OwnMoves DEF Clean, EndPcs, Resolve
  <2>5. PICK plan : plan = Plan(p, Head(req[p].todo))
    OBVIOUS
  <2>6. CASE plan.ask = "value"
    <3>1. Got(p, Plan(p, Head(req[p].todo)).answer)
      BY <1>6, <2>5, <2>6 DEF Resolve
    <3>. QED
      BY <2>2, <3>1
  <2>7. CASE plan.ask = "kbs"
    <3>1. PICK pc \in {"secret", "getter"} : pc = IF p = Boot THEN "secret" ELSE "getter"
      OBVIOUS
    <3>2. /\ req' = [req EXCEPT ![p].pc = pc, ![p].arg = Plan(p, Head(req[p].todo)).url]
          /\ UNCHANGED <<hub, files>>
      BY <1>6, <2>5, <2>7, <3>1 DEF Resolve
    <3>. QED
      BY <1>0, <2>4, <3>2
  <2>8. CASE plan.ask = "kms"
    BY <1>0, <1>6, <2>4, <2>5, <2>8 DEF Resolve
  <2>9. CASE plan.ask \notin {"value", "kbs", "kms"}
    BY <1>6, <2>3, <2>5, <2>9 DEF Resolve
  <2>. QED
    BY <2>6, <2>7, <2>8, <2>9
<1>7. CASE KmsAnswers(p)
  <2>1. scene' = scene /\ owner' = owner /\ call' = call
    BY <1>7 DEF KmsAnswers, tokenVars
  <2>2. (\E v : Got(p, v)) \/ (Fails(p, FALSE) /\ files' = files)
    BY <1>7 DEF KmsAnswers
  <2>. QED
    BY <2>1, <2>2, GotMoves, FailsMoves
<1>8. CASE GetOffline(p)
  <2>1. scene' = scene /\ owner' = owner /\ call' = call
    BY <1>8 DEF GetOffline, tokenVars
  <2>2. (\E v : Got(p, v)) \/ (Fails(p, FALSE) /\ files' = files)
    BY <1>8 DEF GetOffline
  <2>. QED
    BY <2>1, <2>2, GotMoves, FailsMoves
<1>9. CASE ClientReturns(p)
  <2>1. scene' = scene /\ owner' = None /\ call' = call /\ req[p].pc = "held"
    BY <1>9 DEF ClientReturns, tokenVars
  <2>2. (\E v : Got(p, v)) \/ (files' = files /\ \E cause : Fails(p, cause))
    BY <1>9 DEF ClientReturns, CallReturns
  <2>3. req'[p].pc # "held"
    BY <2>2, GotGoesOn, FailsEnds
  <2>. QED
    BY <2>1, <2>2, <2>3, GotMoves, FailsMoves DEF Releases
<1>10. CASE NewGetter(p)
  <2>1. scene' = scene /\ owner' = owner /\ call' = call /\ files' = files
    BY <1>10 DEF NewGetter, tokenVars
  <2>2. CASE Fails(p, FALSE)
    BY <2>1, <2>2, FailsMoves
  <2>3. CASE hub' = hub /\ \E pc \in {"resolve", "secret"} : req' = [req EXCEPT ![p].pc = pc]
    BY <1>0, <2>1, <2>3 DEF Moves, Touches, Keeps, Clean, IsReq, ReqFields, EndPcs
  <2>. QED
    BY <1>10, <2>2, <2>3 DEF NewGetter
<1>11. CASE GetSecret(p)
  <2>1. scene' = scene /\ owner' = p /\ owner = None /\ LegalUri(p) /\ hub' = hub /\ files' = files
    BY <1>11 DEF GetSecret
  <2>2. call'.res = PathOf(p)
    <3>1. PICK r : r = PathOf(p)
      OBVIOUS
    <3>2. call' = [[NoCall EXCEPT !.res = r] EXCEPT !.pc = IF token = None THEN "update" ELSE "get"]
      BY <1>11, <3>1 DEF GetSecret, GetResource, Goto
    <3>. QED
      BY <3>1, <3>2 DEF NoCall
  <2>3. Touches(p) /\ Clean(req'[p]) /\ req'[p].arg = req[p].arg
    BY <1>0, <1>11 DEF GetSecret, Touches, Clean, IsReq, ReqFields, EndPcs
  <2>. QED
    BY <2>1, <2>2, <2>3 DEF Moves, Takes
<1>12. CASE GetSev(p)
  <2>1. PICK n, r : /\ req' = [req EXCEPT ![p] = n] /\ r = req[p]
                    /\ n = [EndedWith(r, None) EXCEPT !.pc = "panicked"]
    BY <1>0, <1>12 DEF GetSev
  <2>2. IsReq(n) /\ n.pc = "panicked" /\ n.tmp = FALSE
    BY <1>0, <2>1 DEF EndedWith, IsReq, ReqFields
  <2>3. Touches(p) /\ req'[p] = n
    BY <1>0, <2>1, <2>2 DEF Touches
  <2>4. owner' = owner /\ call' = call /\ scene' = scene /\ files' = files /\ (p # Boot => hub' = hub)
    BY <1>12 DEF GetSev, tokenVars
  <2>. QED
    BY <2>2, <2>3, <2>4, BootOnly DEF Moves, Keeps, Clean
<1>. QED
  BY <1>1, <1>2, <1>3, <1>4, <1>5, <1>6, <1>7, <1>8, <1>9, <1>10, <1>11, <1>12 DEF Service

\* A caller that gives up, and the handler that is dropped for it.
LEMMA LateMoves ==
    ASSUME ReqInv, NEW p \in Procs, CallerTimesOut(p) \/ DropHandler(p)
    PROVE  Moves(p)
<1>0. IsReq(req[p]) /\ req = [q \in Procs |-> req[q]]
  BY DEF ReqInv
<1>1. CASE CallerTimesOut(p)
  BY <1>0, <1>1 DEF CallerTimesOut, Ended, Moves, Touches, Keeps, Clean, IsReq, ReqFields, EndPcs, tokenVars
<1>2. CASE DropHandler(p)
  <2>1. PICK r, n : r = req[p] /\ n = Failed(r, TRUE) /\ req' = [req EXCEPT ![p] = n]
    BY <1>0, <1>2 DEF DropHandler
  <2>2. IsReq(n) /\ n.pc = "done" /\ ~n.tmp
    BY <1>0, <2>1, EndedShape
  <2>3. Touches(p) /\ req'[p] = n
    BY <1>0, <2>1, <2>2 DEF Touches
  <2>4. scene' = scene /\ hub' = hub /\ files' = files
    BY <1>2 DEF DropHandler
  <2>5. Keeps(p) \/ Releases(p)
    BY <1>2, <2>2, <2>3 DEF DropHandler, Keeps, Releases
  <2>. QED
    BY <2>2, <2>3, <2>4, <2>5 DEF Moves, Clean
<1>. QED
  BY <1>1, <1>2

\* A step of the REST server changes at most the request that it forwards or
\* gives up.
LEMMA HttpMoves ==
    ASSUME ReqInv, NEW p \in Clients, Http(p)
    PROVE  Moves(p) /\ UNCHANGED tokenVars
<1>0. IsReq(req[p]) /\ req = [q \in Procs |-> req[q]] /\ p \in Procs /\ Clean(req[p])
  BY BootOnly DEF ReqInv
<1>1. UNCHANGED <<tokenVars, scene, hub, files, owner>>
  BY DEF Http, Route, HubReplies, AgentReplies, ReplyTimeout, hubVars
<1>2. owner' = owner /\ call' = call /\ scene' = scene /\ hub' = hub /\ files' = files
  BY <1>1 DEF tokenVars
<1>3. CASE req' = req
  BY <1>0, <1>1, <1>2, <1>3 DEF Moves, Touches, Keeps
<1>4. CASE \E t : req' = [req EXCEPT ![p] = [req[p] EXCEPT !.pc = "resolve", !.todo = t]]
  <2>1. PICK t, n : /\ req' = [req EXCEPT ![p] = n]
                    /\ n = [req[p] EXCEPT !.pc = "resolve", !.todo = t]
    BY <1>4
  <2>2. IsReq(n) /\ n.pc = "resolve"
    BY <1>0, <2>1 DEF IsReq, ReqFields
  <2>3. Clean(n) /\ n.pc # "held"
    BY <2>2 DEF Clean, EndPcs
  <2>. QED
    BY <1>0, <1>1, <2>1, <2>2, <2>3, OwnMoves
<1>5. CASE ~Ended(p) /\ req' = [req EXCEPT ![p].late = TRUE]
  BY <1>0, <1>1, <1>2, <1>5 DEF Ended, Moves, Touches, Keeps, Clean, IsReq, ReqFields, EndPcs
<1>6. (req' = req) \/ (\E t : req' = [req EXCEPT ![p] = [req[p] EXCEPT !.pc = "resolve", !.todo = t]])
      \/ (~Ended(p) /\ req' = [req EXCEPT ![p].late = TRUE])
  <2>1. CASE HubReplies(p) \/ AgentReplies(p)
    BY <2>1 DEF HubReplies, AgentReplies, hubVars
  <2>2. CASE ReplyTimeout(p)
    BY <2>2 DEF ReplyTimeout
  <2>3. CASE Route(p)
    <3>1. \/ req' = req
          \/ req' = [req EXCEPT ![p].pc = "resolve", ![p].todo = <<Forward(Ask(p).http)>>]
      BY <2>3 DEF Route
    <3>2. PICK t : t = <<Forward(Ask(p).http)>>
      OBVIOUS
    <3>3. [req EXCEPT ![p].pc = "resolve", ![p].todo = t]
              = [req EXCEPT ![p] = [req[p] EXCEPT !.pc = "resolve", !.todo = t]]
      BY <1>0
    <3>. QED
      BY <3>1, <3>2, <3>3
  <2>. QED
    BY <2>1, <2>2, <2>3 DEF Http
<1>. QED
  BY <1>1, <1>3, <1>4, <1>5, <1>6

\* The start of the hub.
LEMMA StartupMoves ==
    ASSUME ReqInv, Startup
    PROVE  \/ Touches(Boot) /\ UNCHANGED <<tokenVars, scene, owner, files>> /\ req'[Boot].pc # "held"
           \/ UNCHANGED <<tokenVars, scene, owner, files, req>>
<1>0. IsReq(req[Boot]) /\ req = [q \in Procs |-> req[q]] /\ Boot \in Procs
  BY DEF ReqInv, Procs
<1>1. CASE StartFails
  BY <1>1 DEF StartFails
<1>2. CASE Start
  <2>1. PICK paths : req' = [req EXCEPT ![Boot].pc = "getter", ![Boot].todo = paths]
    BY <1>2 DEF Start
  <2>2. PICK n : n = [req[Boot] EXCEPT !.pc = "getter", !.todo = paths]
    OBVIOUS
  <2>3. IsReq(n) /\ n.pc = "getter"
    BY <1>0, <2>2 DEF IsReq, ReqFields
  <2>4. req' = [req EXCEPT ![Boot] = n]
    BY <1>0, <2>1, <2>2
  <2>5. Touches(Boot) /\ req'[Boot].pc # "held"
    BY <1>0, <2>3, <2>4 DEF Touches
  <2>. QED
    BY <1>2, <2>5 DEF Start
<1>3. CASE Serve
  BY <1>0, <1>3 DEF Serve, Touches, IsReq, ReqFields
<1>. QED
  BY <1>1, <1>2, <1>3 DEF Startup

-----------------------------------------------------------------------------
(* The mutex of the shared client.                                          *)

LEMMA MovesKeep ==
    ASSUME ReqInv, MutexInv, NEW p \in Procs, Touches(p), p \in Clients => Clean(req'[p]),
           Keeps(p) \/ Takes(p) \/ Releases(p)
    PROVE  ReqInv' /\ MutexInv'
<1>1. ReqInv'
  <2>1. \A q \in Procs : q = p \/ req'[q] = req[q]
    BY DEF Touches
  <2>2. \A q \in Procs : IsReq(req'[q])
    BY <2>1 DEF Touches, ReqInv
  <2>3. \A q \in Clients : Clean(req'[q])
    BY <2>1, BootOnly DEF ReqInv
  <2>. QED
    BY <2>2, <2>3 DEF Touches, ReqInv, Clean, IsReq
<1>2. None \notin Procs
  BY DataHubAssumption DEF Procs
<1>3. ASSUME NEW q \in Procs, req'[q].pc = "held"
      PROVE  /\ owner' = q /\ call'.res = ResourcePath(ResourceUriTryFrom(req'[q].arg))
             /\ ResourceUriTryFrom(req'[q].arg) # Err
  <2>1. CASE q = p
    BY <1>3, <2>1 DEF Keeps, Takes, Releases, MutexInv, CallIsFor, LegalUri, PathOf
  <2>2. CASE q # p
    <3>1. req'[q] = req[q]
      BY <2>2 DEF Touches
    <3>2. /\ owner = q /\ call.res = ResourcePath(ResourceUriTryFrom(req[q].arg))
          /\ ResourceUriTryFrom(req[q].arg) # Err
      BY <1>3, <3>1 DEF MutexInv, CallIsFor, PathOf
    <3>3. Keeps(p)
      BY <1>2, <2>2, <3>2 DEF Takes, Releases, MutexInv, CallIsFor
    <3>. QED
      BY <3>1, <3>2, <3>3 DEF Keeps
  <2>. QED
    BY <2>1, <2>2
<1>. QED
  BY <1>1, <1>3 DEF MutexInv, CallIsFor, PathOf, ResourcePath, ResourceUriTryFrom

-----------------------------------------------------------------------------
(* The start and its credentials.                                           *)

\* The credentials to fetch are those of the configuration.
LEMMA ConfigRead ==
    ASSUME BootInv, CdhConfigNew(scene) # Err
    PROVE  CdhConfigNew(scene).credentials = Credentials
<1>1. CASE scene.config.file = "none"
  <2>1. scene.config.credentials = << >>
    BY <1>1, DataHubAssumption DEF BootInv
  <2>. QED
    BY <1>1, <2>1 DEF CdhConfigNew, Credentials
<1>2. CASE scene.config.file # "none"
  BY <1>2 DEF CdhConfigNew, Credentials
<1>. QED
  BY <1>1, <1>2

\* Every credential is on the list that the start works off.
LEMMA OrderCovers ==
    ASSUME NEW S, IsFiniteSet(S), NEW s \in Orders(S)
    PROVE  s \in Seq(S) /\ \A x \in S : \E i \in 1..Len(s) : s[i] = x
<1>1. Cardinality(S) \in Nat
  BY FS_CardinalityType
<1>2. s \in [1..Cardinality(S) -> S] /\ \A x \in S : \E i \in DOMAIN s : s[i] = x
  BY DEF Orders
<1>3. s \in Seq(S) /\ DOMAIN s = 1..Len(s)
  BY <1>1, <1>2
<1>. QED
  BY <1>2, <1>3

\* What is not the head of a list is in its tail.
LEMMA TailCovers ==
    ASSUME NEW S, NEW s \in Seq(S), s # << >>, NEW i \in 1..Len(s), s[i] # Head(s)
    PROVE  Tail(s) \in Seq(S) /\ \E j \in 1..Len(Tail(s)) : Tail(s)[j] = s[i]
<1>1. Len(s) \in Nat /\ Len(s) > 0 /\ Head(s) = s[1] /\ i # 1
  BY EmptySeq
<1>2. Tail(s) \in Seq(S) /\ Len(Tail(s)) = Len(s) - 1 /\ \A j \in 1..Len(Tail(s)) : Tail(s)[j] = s[j+1]
  BY <1>1
<1>3. i - 1 \in 1..Len(Tail(s)) /\ Tail(s)[i - 1] = s[i]
  BY <1>1, <1>2
<1>. QED
  BY <1>2, <1>3

\* BootInv is about Boot's record, the files, the scene and the process.
LEMMA BootStays ==
    ASSUME BootInv, UNCHANGED <<scene, hub, files>>, req'[Boot] = req[Boot]
    PROVE  BootInv'
<1>1. CdhConfigNew(scene)' = CdhConfigNew(scene)
  BY DEF CdhConfigNew, AaKbcParamsNew, AaKbcParamsTryFrom, GetValue
<1>2. Credentials' = Credentials
  BY DEF Credentials
<1>3. \A path : /\ InPlace(path) => path \in DOMAIN files' /\ files'[path] = scene'.published[path]
                /\ Pending(path) => \E i \in 1..Len(req'[Boot].todo) : req'[Boot].todo[i] = path
  BY DEF InPlace, Pending
<1>. QED
  BY <1>1, <1>2, <1>3 DEF BootInv, InPlace, Pending

\* A process that has ended promises nothing.
LEMMA BootEnded ==
    ASSUME BootInv, scene' = scene, hub' = "ended"
    PROVE  BootInv'
BY DEF BootInv

LEMMA BootStartup ==
    ASSUME BootInv, ReqInv, Startup
    PROVE  BootInv'
<1>0. IsReq(req[Boot]) /\ req = [q \in Procs |-> req[q]] /\ Boot \in Procs
  BY DEF ReqInv, Procs
<1>1. CASE StartFails
  BY <1>1, BootEnded DEF StartFails
<1>2. CASE Start
  <2>1. CdhConfigNew(scene).credentials = Credentials
    BY <1>2, ConfigRead DEF Start
  <2>2. PICK paths \in Orders(DOMAIN Credentials) :
            req' = [req EXCEPT ![Boot].pc = "getter", ![Boot].todo = paths]
    BY <1>2, <2>1 DEF Start
  <2>3. IsFiniteSet(DOMAIN Credentials)
    BY DataHubAssumption DEF BootInv, Credentials
  <2>4. paths \in Seq(DOMAIN Credentials) /\ \A x \in DOMAIN Credentials : \E i \in 1..Len(paths) : paths[i] = x
    BY <2>2, <2>3, OrderCovers
  <2>5. req'[Boot].pc = "getter" /\ req'[Boot].todo = paths
    BY <1>0, <2>2 DEF IsReq, ReqFields
  <2>6. scene' = scene /\ hub' = "init"
    BY <1>2 DEF Start
  <2>7. CdhConfigNew(scene)' = CdhConfigNew(scene) /\ Credentials' = Credentials
    BY <2>6 DEF CdhConfigNew, AaKbcParamsNew, AaKbcParamsTryFrom, GetValue, Credentials
  <2>. QED
    BY <2>1, <2>4, <2>5, <2>6, <2>7 DEF BootInv, Pending, BootPcs
<1>3. CASE Serve
  <2>1. /\ hub = "init" /\ req[Boot].todo = << >> /\ hub' = "serving" /\ scene' = scene /\ files' = files
    BY <1>3 DEF Serve
  <2>2. req'[Boot].pc = "done"
    BY <1>0, <1>3 DEF Serve, IsReq, ReqFields
  <2>3. \A path \in DOMAIN Credentials : InPlace(path)
    <3>1. \A path : ~Pending(path)
      BY <2>1 DEF Pending
    <3>. QED
      BY <2>1, <3>1 DEF BootInv
  <2>4. CdhConfigNew(scene)' = CdhConfigNew(scene) /\ Credentials' = Credentials
    BY <2>1 DEF CdhConfigNew, AaKbcParamsNew, AaKbcParamsTryFrom, GetValue, Credentials
  <2>. QED
    BY <2>1, <2>2, <2>3, <2>4 DEF BootInv, InPlace
<1>. QED
  BY <1>1, <1>2, <1>3 DEF Startup

\* A credential was fetched: the files have it.
LEMMA BootGot ==
    ASSUME BootInv, ReqInv, NEW v, Got(Boot, v), scene' = scene,
           hub = "init", req[Boot].todo # << >>, v = scene.published[Head(req[Boot].todo)]
    PROVE  BootInv'
<1>1. Boot \in Procs
  BY DEF Procs
<1>2. PICK todo, path : todo \in Seq(DOMAIN Credentials) /\ todo = req[Boot].todo /\ path = Head(todo)
  BY DEF BootInv
<1>3. /\ req'[Boot].pc = "resolve" /\ req'[Boot].todo = Tail(todo)
      /\ hub' = hub /\ files' = Written(path, v)
  BY <1>1, <1>2, GotGoesOn
<1>4. Tail(todo) \in Seq(DOMAIN Credentials)
  <2>1. todo # << >>
    BY <1>2
  <2>. QED
    BY <1>2, <2>1, HeadTailProperties
<1>5. ASSUME NEW x \in DOMAIN Credentials
      PROVE  \/ \E i \in 1..Len(Tail(todo)) : Tail(todo)[i] = x
             \/ x \in DOMAIN files' /\ files'[x] = scene.published[x]
  <2>1. CASE x = path
    BY <1>2, <1>3, <2>1 DEF Written
  <2>2. CASE x # path /\ InPlace(x)
    BY <1>3, <2>2 DEF InPlace, Written
  <2>3. CASE x # path /\ Pending(x)
    <3>1. PICK i \in 1..Len(todo) : todo[i] = x
      BY <1>2, <2>3 DEF Pending
    <3>. QED
      BY <1>2, <2>3, <3>1, TailCovers
  <2>. QED
    BY <2>1, <2>2, <2>3 DEF BootInv
<1>6. CdhConfigNew(scene)' = CdhConfigNew(scene) /\ Credentials' = Credentials
  BY DEF CdhConfigNew, AaKbcParamsNew, AaKbcParamsTryFrom, GetValue, Credentials
<1>7. hub' = "init" /\ req'[Boot].pc \in BootPcs /\ req'[Boot].pc = "resolve"
  BY <1>3 DEF BootPcs
<1>8. req'[Boot].todo \in Seq(DOMAIN Credentials)
  BY <1>3, <1>4
<1>9. ASSUME NEW x \in DOMAIN Credentials PROVE Pending(x)' \/ InPlace(x)'
  BY <1>3, <1>5 DEF Pending, InPlace
<1>10. scene' \in Scenes /\ (CdhConfigNew(scene).credentials = Credentials)'
  BY <1>6 DEF BootInv
<1>. QED
  BY <1>6, <1>7, <1>8, <1>9, <1>10 DEF BootInv

\* The request for the next credential advances.
LEMMA BootAdvances ==
    ASSUME BootInv, UNCHANGED <<scene, hub, files>>, hub = "init",
           req'[Boot].todo = req[Boot].todo, req'[Boot].pc \in BootPcs,
           req'[Boot].pc \in {"secret", "held"} =>
               req[Boot].todo # << >> /\ req'[Boot].arg = Credentials[Head(req[Boot].todo)]
    PROVE  BootInv'
<1>1. CdhConfigNew(scene)' = CdhConfigNew(scene) /\ Credentials' = Credentials
  BY DEF CdhConfigNew, AaKbcParamsNew, AaKbcParamsTryFrom, GetValue, Credentials
<1>2. \A path \in DOMAIN Credentials :
          \/ \E i \in 1..Len(req'[Boot].todo) : req'[Boot].todo[i] = path
          \/ path \in DOMAIN files' /\ files'[path] = scene'.published[path]
  BY DEF BootInv, Pending, InPlace
<1>. QED
  BY <1>1, <1>2 DEF BootInv, Pending, InPlace

\* Outside "init" Boot has nothing to do.
LEMMA BootActs ==
    ASSUME BootInv, Service(Boot)
    PROVE  /\ hub = "init" \/ hub = "ended"
           /\ hub = "init" => \/ NewGetter(Boot) \/ NewGetterFails(Boot) \/ Resolve(Boot)
                              \/ IllegalUri(Boot) \/ GetSecret(Boot) \/ GetOffline(Boot)
                              \/ GetSev(Boot) \/ ClientReturns(Boot)
<1>1. Boot \notin Clients
  BY DataHubAssumption
<1>2. req[Boot].pc \in {"getter", "resolve", "secret", "held", "kms", "image", "command"}
  BY <1>1 DEF Service, Receive, ReceiveOtherVolume, Resolve, NewGetter, NewGetterFails, IllegalUri,
       GetSecret, ClientReturns, GetOffline, GetSev, LegalUri, KmsAnswers, KmsFails, Answer, SecretCli,
       ReceivePull, InitializeImageClient, ImageClientReady, LockImageClient, PullReturns, PullFails,
       WriteOssfsPasswd, MountOssfs, WriteGocryptfsPasswd, MountGocryptfs, WriteStorageKey, MountLuks,
       CommandFails, Resolved
<1>3. hub = "init" \/ hub = "ended"
  BY <1>2 DEF BootInv
<1>4. ASSUME hub = "init"
      PROVE  \/ NewGetter(Boot) \/ NewGetterFails(Boot) \/ Resolve(Boot)
             \/ IllegalUri(Boot) \/ GetSecret(Boot) \/ GetOffline(Boot)
             \/ GetSev(Boot) \/ ClientReturns(Boot)
  <2>1. req[Boot].pc \notin {"kms", "image", "command"}
    BY <1>4 DEF BootInv, BootPcs
  <2>. QED
    BY <1>1, <2>1 DEF Service, Receive, ReceiveOtherVolume, KmsAnswers, KmsFails, Answer, SecretCli,
       ReceivePull, InitializeImageClient, ImageClientReady, LockImageClient, PullReturns, PullFails,
       WriteOssfsPasswd, MountOssfs, WriteGocryptfsPasswd, MountGocryptfs, WriteStorageKey, MountLuks,
       CommandFails, Resolved
<1>. QED
  BY <1>3, <1>4

\* No request changes the state of the process but to end it.
LEMMA ProcessEnds ==
    ASSUME NEW p, Service(p)
    PROVE  scene' = scene /\ (hub' = hub \/ hub' = "ended")
<1>1. ASSUME NEW v, Got(p, v) PROVE hub' = hub \/ hub' = "ended"
  BY <1>1 DEF Got, Fails
<1>2. ASSUME NEW cause, Fails(p, cause) PROVE hub' = hub \/ hub' = "ended"
  BY <1>2 DEF Fails
<1>3. CASE Resolve(p) \/ NewGetter(p) \/ ClientReturns(p) \/ GetOffline(p) \/ KmsAnswers(p)
  <2>1. hub' = hub \/ (\E v : Got(p, v)) \/ (\E cause : Fails(p, cause))
    BY <1>3 DEF Resolve, NewGetter, ClientReturns, CallReturns, GetOffline, KmsAnswers
  <2>2. scene' = scene
    BY <1>3 DEF Resolve, NewGetter, ClientReturns, GetOffline, KmsAnswers
  <2>. QED
    BY <1>1, <1>2, <2>1, <2>2
<1>4. CASE ReceiveOtherVolume(p) \/ NewGetterFails(p) \/ IllegalUri(p) \/ KmsFails(p) \/ PullFails(p)
           \/ CommandFails(p)
  <2>1. \E cause : Fails(p, cause)
    BY <1>4 DEF ReceiveOtherVolume, NewGetterFails, IllegalUri, KmsFails, PullFails, CommandFails
  <2>2. scene' = scene
    BY <1>4 DEF ReceiveOtherVolume, NewGetterFails, IllegalUri, KmsFails, PullFails, CommandFails
  <2>. QED
    BY <1>2, <2>1, <2>2
<1>. QED
  BY <1>3, <1>4 DEF Service, Receive, GetSecret, GetSev, Answer, SecretCli, ReceivePull,
     InitializeImageClient, ImageClientReady, LockImageClient, PullReturns, WriteOssfsPasswd, MountOssfs,
     WriteGocryptfsPasswd, MountGocryptfs, WriteStorageKey, MountLuks

\* The value under a credential's name, from the KBS or from the files.
LEMMA PublishedIs ==
    ASSUME BootInv, NEW f \in DOMAIN Credentials, NEW path,
           ResourceUriTryFrom(Credentials[f]) # Err, path = ResourcePath(ResourceUriTryFrom(Credentials[f]))
    PROVE  /\ path \notin Absent \cup Denied => scene.published[f] = Content[path]
           /\ OfflineFsGet(scene, path) # Err => scene.published[f] = OfflineFsGet(scene, path)
<1>1. PublishedRight(scene)
  BY DataHubAssumption DEF BootInv
<1>. QED
  BY <1>1 DEF PublishedRight, Credentials

LEMMA BootService ==
    ASSUME TokenInv, ReqInv, MutexInv, BootInv, Service(Boot)
    PROVE  BootInv'
<1>0. IsReq(req[Boot]) /\ req = [q \in Procs |-> req[q]] /\ Boot \in Procs
  BY DEF ReqInv, Procs
<1>1. scene' = scene /\ (hub' = hub \/ hub' = "ended")
  BY ProcessEnds
<1>2. ASSUME NEW cause, Fails(Boot, cause) PROVE BootInv'
  BY <1>0, <1>1, <1>2, FailsEnds, BootEnded
<1>3. CASE hub = "ended"
  BY <1>1, <1>3, BootEnded
<1>4. ASSUME hub = "init", req[Boot].pc \in {"secret", "held"}
      PROVE  /\ req[Boot].todo \in Seq(DOMAIN Credentials) /\ req[Boot].todo # << >>
             /\ Head(req[Boot].todo) \in DOMAIN Credentials
             /\ req[Boot].arg = Credentials[Head(req[Boot].todo)]
  <2>1. PICK todo \in Seq(DOMAIN Credentials) : todo = req[Boot].todo /\ todo # << >>
    BY <1>4 DEF BootInv
  <2>2. Head(todo) \in DOMAIN Credentials
    <3>1. Len(todo) \in Nat /\ Len(todo) > 0
      BY <2>1, EmptySeq
    <3>. QED
      BY <2>1, <3>1
  <2>. QED
    BY <1>4, <2>1, <2>2 DEF BootInv
<1>5. CASE hub = "init" /\ NewGetter(Boot)
  <2>1. CASE hub' = hub /\ req' = [req EXCEPT ![Boot].pc = "resolve"]
    <3>1. req'[Boot].pc = "resolve" /\ req'[Boot].todo = req[Boot].todo
      BY <1>0, <2>1 DEF IsReq, ReqFields
    <3>2. files' = files
      BY <1>5 DEF NewGetter
    <3>. QED
      BY <1>1, <1>5, <2>1, <3>1, <3>2, BootAdvances DEF BootPcs
  <2>. QED
    BY <1>2, <1>5, <2>1 DEF NewGetter
<1>6. CASE hub = "init" /\ Resolve(Boot)
  <2>1. PICK url : url = CdhConfigNew(scene).credentials[Head(req[Boot].todo)]
    OBVIOUS
  <2>2. Plan(Boot, Head(req[Boot].todo)) = AskKbs(url)
    BY <2>1 DEF Plan
  <2>3. AskKbs(url).ask = "kbs" /\ AskKbs(url).url = url
    BY DEF AskKbs
  <2>4. req' = [req EXCEPT ![Boot].pc = "secret", ![Boot].arg = url] /\ UNCHANGED <<hub, files>>
    BY <1>6, <2>2, <2>3 DEF Resolve
  <2>5. req'[Boot].pc = "secret" /\ req'[Boot].todo = req[Boot].todo /\ req'[Boot].arg = url
    BY <1>0, <2>4 DEF IsReq, ReqFields
  <2>6. url = Credentials[Head(req[Boot].todo)] /\ req[Boot].todo # << >>
    BY <1>6, <2>1 DEF BootInv, Resolve
  <2>. QED
    BY <1>1, <1>6, <2>4, <2>5, <2>6, BootAdvances DEF BootPcs
<1>7. CASE hub = "init" /\ (IllegalUri(Boot) \/ NewGetterFails(Boot))
  BY <1>2, <1>7 DEF IllegalUri, NewGetterFails
<1>8. CASE hub = "init" /\ GetSecret(Boot)
  <2>1. req'[Boot].pc = "held" /\ req'[Boot].todo = req[Boot].todo /\ req'[Boot].arg = req[Boot].arg
    BY <1>0, <1>8 DEF GetSecret, IsReq, ReqFields
  <2>2. UNCHANGED <<hub, files>> /\ req[Boot].pc = "secret"
    BY <1>8 DEF GetSecret, LegalUri
  <2>. QED
    BY <1>1, <1>4, <1>8, <2>1, <2>2, BootAdvances DEF BootPcs
<1>9. CASE hub = "init" /\ GetOffline(Boot)
  <2>1. PICK v, f, path : v = OfflineFsGet(scene, path) /\ f = Head(req[Boot].todo) /\ path = PathOf(Boot)
    OBVIOUS
  <2>2. req[Boot].pc = "secret" /\ ResourceUriTryFrom(req[Boot].arg) # Err
    BY <1>9 DEF GetOffline, LegalUri
  <2>3. f \in DOMAIN Credentials /\ req[Boot].arg = Credentials[f] /\ req[Boot].todo # << >>
    BY <1>4, <1>9, <2>1, <2>2
  <2>4. v # Err => v = scene.published[f]
    BY <2>1, <2>2, <2>3, PublishedIs DEF PathOf
  <2>5. CASE v # Err /\ Got(Boot, v)
    BY <1>1, <1>9, <2>1, <2>3, <2>4, <2>5, BootGot
  <2>. QED
    BY <1>2, <1>9, <2>1, <2>5 DEF GetOffline
<1>10. CASE hub = "init" /\ GetSev(Boot)
  BY <1>1, <1>10, BootEnded DEF GetSev
<1>11. CASE hub = "init" /\ ClientReturns(Boot)
  <2>1. PICK v, f, path : v = Content[path] /\ f = Head(req[Boot].todo) /\ path = call.res
    OBVIOUS
  <2>2. req[Boot].pc = "held"
    BY <1>11 DEF ClientReturns
  <2>3. f \in DOMAIN Credentials /\ req[Boot].arg = Credentials[f] /\ req[Boot].todo # << >>
    BY <1>4, <1>11, <2>1, <2>2
  <2>4. path = PathOf(Boot) /\ ResourceUriTryFrom(req[Boot].arg) # Err
    BY <1>0, <2>1, <2>2 DEF MutexInv, CallIsFor
  <2>5. call.out = "resource" => v = scene.published[f]
    BY <2>1, <2>3, <2>4, PublishedIs DEF TokenInv, PathOf
  <2>6. CASE call.out = "resource" /\ Got(Boot, v)
    BY <1>1, <1>11, <2>1, <2>3, <2>5, <2>6, BootGot
  <2>. QED
    BY <1>2, <1>11, <2>1, <2>6 DEF ClientReturns, CallReturns
<1>. QED
  BY <1>3, <1>5, <1>6, <1>7, <1>8, <1>9, <1>10, <1>11, BootActs

-----------------------------------------------------------------------------
(* All of it.                                                               *)

LEMMA HubStart == ApiInit => HubInv
<1>. SUFFICES ASSUME ApiInit PROVE HubInv
  OBVIOUS
<1>1. TokenInv
  BY TokenInit DEF ApiInit, HubInit
<1>2. req = [p \in Procs |-> Fresh]
  BY DEF ApiInit, HubInit
<1>3. IsReq(Fresh) /\ Fresh.pc = "new"
  BY DEF Fresh, IsReq, ReqFields
<1>4. ReqInv /\ MutexInv
  BY <1>2, <1>3, BootOnly DEF ReqInv, MutexInv, CallIsFor, Clean, EndPcs
<1>5. req[Boot].pc = "new" /\ req[Boot].late = FALSE
  BY <1>2, <1>3 DEF Procs, Fresh
<1>6. BootInv
  BY <1>5 DEF ApiInit, HubInit, BootInv
<1>. QED
  BY <1>1, <1>4, <1>6 DEF HubInv

\* What a request's step does to the client of the KBS.
LEMMA ServiceToken ==
    ASSUME TokenInv, NEW p, Service(p) \/ CallerTimesOut(p) \/ DropHandler(p)
    PROVE  TokenInv'
<1>1. CASE UNCHANGED tokenVars
  <2>1. call' \in {call, NoCall} /\ UNCHANGED <<token, key, job, keys>>
    BY <1>1 DEF tokenVars
  <2>. QED
    BY <2>1, TokenDropped
<1>2. CASE GetSecret(p)
  <2>1. \E r : GetResource(r)
    BY <1>2 DEF GetSecret
  <2>. QED
    BY <2>1, TokenGetResource
<1>3. CASE DropHandler(p)
  <2>1. call' \in {call, NoCall} /\ UNCHANGED <<token, key, job, keys>>
    BY <1>3 DEF DropHandler
  <2>. QED
    BY <2>1, TokenDropped
<1>. QED
  BY <1>1, <1>2, <1>3 DEF Service, Receive, ReceiveOtherVolume, Resolve, NewGetter, NewGetterFails, IllegalUri,
       ClientReturns, GetOffline, GetSev, KmsAnswers, KmsFails, Answer, SecretCli,
       ReceivePull, InitializeImageClient, ImageClientReady, LockImageClient, PullReturns, PullFails,
       WriteOssfsPasswd, MountOssfs, WriteGocryptfsPasswd, MountGocryptfs, WriteStorageKey, MountLuks,
       CommandFails, CallerTimesOut

\* A request that is given up, Boot included, adds nothing.
LEMMA BootLate ==
    ASSUME ReqInv, BootInv, CallerTimesOut(Boot) \/ DropHandler(Boot)
    PROVE  BootInv'
<1>0. IsReq(req[Boot]) /\ req = [q \in Procs |-> req[q]] /\ Boot \in Procs
  BY DEF ReqInv, Procs
<1>1. UNCHANGED <<scene, hub, files>> /\ req[Boot].pc # "done" /\ hub # "down"
  <2>1. CASE CallerTimesOut(Boot)
    BY <2>1 DEF CallerTimesOut, Ended, BootInv
  <2>2. CASE DropHandler(Boot)
    BY <2>2 DEF DropHandler, Ended, BootInv
  <2>. QED
    BY <2>1, <2>2
<1>2. CASE hub = "ended"
  BY <1>1, <1>2, BootEnded
<1>3. CASE hub = "init"
  <2>1. CASE CallerTimesOut(Boot)
    <3>1. /\ req'[Boot].pc = req[Boot].pc /\ req'[Boot].todo = req[Boot].todo
          /\ req'[Boot].arg = req[Boot].arg
      BY <1>0, <2>1 DEF CallerTimesOut, IsReq, ReqFields
    <3>. QED
      BY <1>1, <1>3, <3>1, BootAdvances DEF BootInv
  <2>2. CASE DropHandler(Boot)
    <3>1. req'[Boot].pc = "done" /\ req'[Boot].todo = req[Boot].todo
      BY <1>0, <2>2 DEF DropHandler, Failed, EndedWith, IsReq, ReqFields
    <3>. QED
      BY <1>1, <1>3, <3>1, BootAdvances DEF BootPcs
  <2>. QED
    BY <2>1, <2>2
<1>. QED
  BY <1>1, <1>2, <1>3 DEF BootInv

\* A step of one request, in the hub or in front of it.
LEMMA RequestStep ==
    ASSUME HubInv, NEW p \in Procs, Service(p) \/ CallerTimesOut(p) \/ DropHandler(p)
    PROVE  HubInv'
<1>. USE DEF HubInv
<1>1. Moves(p)
  BY ServiceMoves, LateMoves
<1>2. TokenInv'
  BY ServiceToken
<1>3. ReqInv' /\ MutexInv'
  BY <1>1, MovesKeep DEF Moves
<1>4. BootInv'
  <2>1. CASE p = Boot
    BY <2>1, BootService, BootLate
  <2>2. CASE p \in Clients
    <3>1. UNCHANGED <<scene, hub, files>> /\ req'[Boot] = req[Boot]
      BY <1>1, <2>2, BootOnly DEF Moves, Touches, Procs
    <3>. QED
      BY <3>1, BootStays
  <2>. QED
    BY <2>1, <2>2 DEF Procs
<1>. QED
  BY <1>2, <1>3, <1>4

\* A step of the REST server.
LEMMA HttpStep ==
    ASSUME HubInv, NEW p \in Clients, Http(p)
    PROVE  HubInv'
<1>. USE DEF HubInv
<1>1. Moves(p) /\ UNCHANGED tokenVars /\ p \in Procs
  BY HttpMoves, BootOnly
<1>2. TokenInv'
  <2>1. call' \in {call, NoCall} /\ UNCHANGED <<token, key, job, keys>>
    BY <1>1 DEF tokenVars
  <2>. QED
    BY <2>1, TokenDropped
<1>3. ReqInv' /\ MutexInv'
  BY <1>1, MovesKeep DEF Moves
<1>4. UNCHANGED <<scene, hub, files>> /\ req'[Boot] = req[Boot]
  BY <1>1, BootOnly DEF Moves, Touches, Procs
<1>. QED
  BY <1>2, <1>3, <1>4, BootStays

\* A step that changes neither the requests nor the mutex.
LEMMA QuietStep ==
    ASSUME HubInv, TokenInv', call'.res = call.res, UNCHANGED <<scene, hub, files, owner, req>>
    PROVE  HubInv'
<1>. USE DEF HubInv
<1>1. ReqInv'
  BY DEF ReqInv, Clean, IsReq
<1>2. MutexInv'
  BY DEF MutexInv, CallIsFor, PathOf, ResourcePath, ResourceUriTryFrom
<1>3. BootInv'
  BY BootStays
<1>. QED
  BY <1>1, <1>2, <1>3

LEMMA StartupStep ==
    ASSUME HubInv, Startup
    PROVE  HubInv'
<1>. USE DEF HubInv
<1>1. UNCHANGED <<tokenVars, scene, owner, files>>
  BY StartupMoves
<1>2. TokenInv' /\ call' = call /\ owner' = owner
  <2>1. call' = call /\ owner' = owner /\ UNCHANGED <<token, key, job, keys>>
    BY <1>1 DEF tokenVars
  <2>2. call' \in {call, NoCall}
    BY <2>1
  <2>. QED
    BY <2>1, <2>2, TokenDropped
<1>3. ReqInv' /\ MutexInv'
  <2>1. CASE Touches(Boot) /\ req'[Boot].pc # "held"
    <3>1. Boot \in Procs /\ Boot \notin Clients /\ Keeps(Boot)
      BY <1>2, <2>1, BootOnly DEF Procs, Keeps
    <3>. QED
      BY <2>1, <3>1, MovesKeep
  <2>2. CASE UNCHANGED req
    <3>1. ReqInv'
      BY <2>2 DEF ReqInv, Clean, IsReq
    <3>2. MutexInv'
      BY <1>2, <2>2 DEF MutexInv, CallIsFor, PathOf, ResourcePath, ResourceUriTryFrom
    <3>. QED
      BY <3>1, <3>2
  <2>. QED
    BY <2>1, <2>2, StartupMoves
<1>. QED
  BY <1>2, <1>3, BootStartup

LEMMA HubStep == HubInv /\ [ApiNext]_apiVars => HubInv'
<1>. SUFFICES ASSUME HubInv, [ApiNext]_apiVars PROVE HubInv'
  OBVIOUS
<1>1. CASE Startup
  BY <1>1, StartupStep
<1>2. ASSUME NEW p \in Procs, Service(p) \/ CallerTimesOut(p) \/ DropHandler(p) PROVE HubInv'
  BY <1>2, RequestStep
<1>3. CASE (Kbs \/ TokenExpires) /\ UNCHANGED hubVars
  <2>1. Update \/ Request \/ Orphan \/ TokenExpires
    BY <1>3 DEF Kbs
  <2>2. TokenInv' /\ call'.res = call.res
    BY <2>1, TokenStep DEF HubInv
  <2>3. UNCHANGED <<scene, hub, files, owner, req>>
    BY <1>3 DEF hubVars
  <2>. QED
    BY <2>2, <2>3, QuietStep
<1>4. CASE UNCHANGED <<tokenVars, hubVars>>
  <2>1. UNCHANGED <<scene, hub, files, owner, req>> /\ call' = call /\ UNCHANGED <<token, key, job, keys>>
    BY <1>4 DEF hubVars, tokenVars
  <2>2. call' \in {call, NoCall}
    BY <2>1
  <2>3. TokenInv'
    BY <2>1, <2>2, TokenDropped DEF HubInv
  <2>. QED
    BY <2>1, <2>3, QuietStep
<1>5. ASSUME NEW p \in Clients, Http(p) PROVE HubInv'
  BY <1>5, HttpStep
<1>6. CASE ServerStart
  BY <1>4, <1>6 DEF ServerStart
<1>7. CASE UNCHANGED apiVars
  BY <1>4, <1>7 DEF apiVars
<1>. QED
  BY <1>1, <1>2, <1>3, <1>5, <1>6, <1>7 DEF ApiNext

LEMMA HubInvariance == ApiSpec => []HubInv
<1>1. ApiInit => HubInv
  BY HubStart
<1>2. HubInv /\ [ApiNext]_apiVars => HubInv'
  BY HubStep
<1>. QED
  BY <1>1, <1>2, PTL DEF ApiSpec

\* The client of the KBS never has a token for another key than its own: with
\* any number of the agent's GetToken requests beside each other, late ones,
\* and handlers that are dropped in the middle of a call.
THEOREM TokenAlwaysMatches == ApiSpec => []TokenMatchesKey
<1>1. HubInv => TokenMatchesKey
  BY DEF HubInv, TokenInv
<1>. QED
  BY <1>1, HubInvariance, PTL

\* The shared client's answer is for who waits for it: the waiting request holds
\* the mutex, alone, and the call in progress has its resource's path.
THEOREM CallBelongsToItsHolder == ApiSpec => []MutexInv
<1>1. HubInv => MutexInv
  BY DEF HubInv
<1>. QED
  BY <1>1, HubInvariance, PTL

\* The hub binds its socket only with every credential of its configuration in
\* place, and none of them changes afterwards.
THEOREM ServesOnlyWithCredentials == ApiSpec => []ServesWithCredentials
<1>1. HubInv => ServesWithCredentials
  BY DEF HubInv, BootInv, ServesWithCredentials, InPlace, Credentials
<1>. QED
  BY <1>1, HubInvariance, PTL

-----------------------------------------------------------------------------
(* The answers.  The invariants.                                            *)

\* The call in progress was lost to expired tokens as often as it was tried
\* again, unless the KBS refuses the resource, and it ends with a result.
CallPcs == {"idle", "update", "awaitUpdate", "get", "renew", "awaitRenew"}
Enough(n) == call.losses + n >= call.attempt
CallInv ==
    /\ call.pc \in CallPcs
    /\ call.attempt \in Nat /\ call.losses \in Nat
    /\ call.pc = "idle" /\ owner # None => call.out \in Outs
    /\ call.out = "notFound" => call.res \in Absent
    /\ call.res \notin Denied =>
          /\ call.pc \in {"update", "awaitUpdate"} => call.attempt = 1
          /\ call.pc = "get" => call.attempt = 1 \/ Enough(IF token.live THEN 2 ELSE 1)
          /\ call.pc \in {"renew", "awaitRenew"} => Enough(1)
          /\ call.out = "unauthorized" => call.losses >= GetAttempts - 1

\* The process: who serves has the client and the credential files of the
\* scene, and only who serves has requests.
Busy(r) == r.pc \notin {"new", "done", "panicked"}
ProcessInv ==
    /\ req[Boot].pc \in BootPcs \cup {"new"}
    /\ Busy(req[Boot]) \/ hub = "serving" =>
          params = SetConfigurationEnvs(scene) /\ CdhConfigNew(scene) # Err
    /\ hub # "ended" =>
          files = [f \in DOMAIN files |-> files[f]] /\ DOMAIN files \subseteq DOMAIN Credentials
    /\ req[Boot].pc \in {"resolve", "secret", "held"} \/ hub = "serving" => client # None
    /\ client # None => client = ClientOf(scene) /\ client # Err
    /\ server = "up" /\ "cdh" \in Routes(scene) => hub = "serving"
    /\ \A p \in Clients : Busy(req[p]) => hub = "serving"

\* A request's record r, for what is asked (a) in a scene (s).  What it has got
\* are the values of its first references, and what is to do are the next ones.
RefsOf(s, a, r) == References(a, s.imageConfig, r.stage)
Reached(r) == Len(r.got) + Len(r.todo)
KindOK(s, a, r) ==
    /\ a.kind \in {"resource", "rest", "unseal", "unwrap", "oss", "luks", "pull"}
    /\ a.kind = "rest" => Forwarded(s, a)
    /\ r.pc \in {"resolve", "getter", "secret", "held", "kms", "image", "command"}
    /\ a.kind = "pull" => r.stage \in (IF r.pc = "image" THEN {"none", "made"} ELSE {"init", "pulling"})
    /\ a.kind # "pull" => r.stage = "none" /\ r.pc # "image"
    /\ r.pc = "image" => r.got = << >>
    /\ r.pc = "command" => a.kind \in {"oss", "luks"} /\ r.todo = << >>
LengthOK(s, a, r) ==
    /\ a.kind = "oss" =>
          /\ Reached(r) = 2 \/ (Reached(r) = 3 /\ a.encrypted)
          /\ ~r.tmp => Reached(r) = 2
          /\ r.tmp /\ r.pc # "command" => Reached(r) = 3
          /\ r.pc = "command" => r.tmp
          /\ Reached(r) = 3 => Len(r.got) >= 2
    /\ a.kind # "oss" /\ r.pc # "image" => Reached(r) = Len(RefsOf(s, a, r))
GotOK(s, a, r) ==
    /\ IsList(r.got) /\ IsList(r.todo)
    /\ \A i \in 1..Len(r.got) : /\ HasValue(s, a, r.stage, RefsOf(s, a, r)[i])
                                /\ r.got[i] = ValueOf(s, a, r.stage, RefsOf(s, a, r)[i])
    /\ \A i \in 1..Len(r.todo) : r.todo[i] = RefsOf(s, a, r)[Len(r.got) + i]
WaitOK(s, a, r) ==
    LET plan == Meant(s, a.kind, r.stage, Head(r.todo))
    IN /\ r.pc \in {"getter", "secret", "held", "kms"} => r.todo # << >>
       /\ r.pc \in {"getter", "secret", "held"} => plan.ask = "kbs" /\ plan.url = r.arg
       /\ r.pc = "held" => ClientOf(s) = "cc"
       /\ r.pc = "kms" => plan.ask = "kms" /\ plan.answer = r.arg
DoneOK(a, r) ==
    r.pc = "done" =>
        IF r.out.ok THEN r.out.value = a.want /\ (a.kind = "rest" => r.out.value # Err)
        ELSE a.want = Err \/ r.blame
StageOK(s, a, r) ==
    /\ r.stage \in {"made", "pulling"} => a.kind = "pull" /\ AllHave(s, a, "init")
    /\ r.pc = "new" => r = Fresh
RecordOK(s, a, r) ==
    /\ StageOK(s, a, r) /\ DoneOK(a, r)
    /\ Busy(r) => KindOK(s, a, r) /\ LengthOK(s, a, r) /\ GotOK(s, a, r) /\ WaitOK(s, a, r)

\* What a request has left in the guest: the mounted bucket, the key file.
OnBucket(p) == \E o \in mounts : o.fs = "ossfs" /\ o.at = OssfsDir(p) /\ o.by = p
LeftOK(p) ==
    /\ Ask(p).kind = "oss" /\ Busy(req[p]) /\ Reached(req[p]) = 3 => OnBucket(p)
    /\ Ask(p).kind = "luks" /\ Busy(req[p]) =>
          /\ p \in DOMAIN keyfiles
          /\ req[p].pc = "command" => keyfiles[p] = req[p].got[1]
RestOK(p) ==
    /\ rest[p].pc = "waiting" /\ Uses(p) => req[p].pc = "new"
    /\ rest[p].pc = "called" => Uses(p) /\ (~ToAgent(p) => req[p].pc # "new")
    /\ rest[p].status = 200 => Uses(p)
    /\ rest[p].status = 200 /\ ~ToAgent(p) => req[p].pc = "done" /\ req[p].out.ok

AnswerInv ==
    /\ CallInv /\ ProcessInv /\ MountsBacked
    /\ \A m \in mounts : m.by \in Clients
    /\ rest = [p \in Clients |-> rest[p]]
    /\ \A p \in Clients : rest[p] = [pc |-> rest[p].pc, status |-> rest[p].status]
    /\ \A p \in Clients : RecordOK(scene, Ask(p), req[p]) /\ LeftOK(p) /\ RestOK(p)

-----------------------------------------------------------------------------
(* A call that ends as unauthorized lost a token at every attempt.          *)

\* The KBS client's attempts, losses and result are all that CallInv reads.
LEMMA CallStays ==
    ASSUME CallInv, call' = call, token' = token, owner' = owner \/ owner' = None
    PROVE  CallInv'
BY DEF CallInv, Enough

LEMMA CallDropped ==
    ASSUME CallInv, call' = NoCall, owner' = None
    PROVE  CallInv'
<1>1. /\ call'.pc = "idle" /\ call'.attempt = 1 /\ call'.losses = 0 /\ call'.out = None /\ call'.res = None
  BY DEF NoCall
<1>2. None \notin Outs
  BY TokenClientAssumption
<1>. QED
  BY <1>1, <1>2 DEF CallInv, CallPcs, Outs, Enough

LEMMA CallTaken ==
    ASSUME NEW r, GetResource(r)
    PROVE  CallInv'
<1>1. PICK pc : pc = IF token = None THEN "update" ELSE "get"
  OBVIOUS
<1>2. call' = [[NoCall EXCEPT !.res = r] EXCEPT !.pc = pc]
  BY <1>1 DEF GetResource, Goto
<1>3. call'.pc = pc /\ call'.attempt = 1 /\ call'.losses = 0 /\ call'.out = None
  BY <1>2 DEF NoCall
<1>4. None \notin Outs
  BY TokenClientAssumption
<1>. QED
  BY <1>1, <1>3, <1>4 DEF CallInv, CallPcs, Outs, Enough

\* The call returns with a result.
LEMMA CallResult ==
    ASSUME CallInv, IsCall(call), owner' = owner, NEW out \in Outs, Return(call, out),
           out = "notFound" => call.res \in Absent,
           out = "unauthorized" /\ call.res \notin Denied => call.losses >= GetAttempts - 1
    PROVE  CallInv'
<1>1. /\ call'.pc = "idle" /\ call'.attempt = call.attempt /\ call'.losses = call.losses
      /\ call'.out = out /\ call'.res = call.res
  BY DEF Return, IsCall, CallFields
<1>. QED
  BY <1>1 DEF CallInv, CallPcs

LEMMA CallStep ==
    ASSUME CallInv, TokenInv, owner' = owner, Update \/ Request \/ Orphan \/ TokenExpires
    PROVE  CallInv'
<1>0. IsCall(call) /\ call.attempt \in Nat /\ call.losses \in Nat
  BY DEF TokenInv, CallInv
<1>1. ASSUME NEW j \in Jobs, AskAgent(j) PROVE CallInv'
  <2>1. PICK pc : pc = IF call.pc = "update" THEN "awaitUpdate" ELSE "awaitRenew"
    OBVIOUS
  <2>2. /\ call.pc \in {"update", "renew"} /\ token' = token
        /\ call' = [[call EXCEPT !.job = j] EXCEPT !.pc = pc]
    BY <1>1, <2>1 DEF AskAgent, Goto, At
  <2>3. /\ call'.pc = pc /\ call'.attempt = call.attempt /\ call'.losses = call.losses
        /\ call'.out = call.out /\ call'.res = call.res
    BY <1>0, <2>2 DEF IsCall, CallFields
  <2>. QED
    BY <1>0, <2>1, <2>2, <2>3 DEF CallInv, CallPcs, Enough
<1>2. ASSUME NEW j \in Jobs, TokenArrives(j) PROVE CallInv'
  <2>1. token'.live = TRUE
    BY <1>2 DEF TokenArrives
  <2>2. CASE At("awaitUpdate") /\ Goto([call EXCEPT !.job = None], "get")
    <3>1. /\ call'.pc = "get" /\ call'.attempt = call.attempt /\ call'.losses = call.losses
          /\ call'.out = call.out /\ call'.res = call.res
      BY <1>0, <2>2 DEF IsCall, CallFields, Goto
    <3>. QED
      BY <1>0, <2>2, <3>1 DEF CallInv, CallPcs, Enough, At
  <2>3. CASE /\ At("awaitRenew") /\ call.attempt < GetAttempts
             /\ Goto([call EXCEPT !.job = None, !.attempt = @ + 1], "get")
    <3>1. PICK n : n = call.attempt + 1
      OBVIOUS
    <3>2. call' = [[call EXCEPT !.job = None, !.attempt = n] EXCEPT !.pc = "get"]
      BY <1>0, <2>3, <3>1 DEF Goto, IsCall, CallFields
    <3>3. /\ call'.pc = "get" /\ call'.attempt = n /\ call'.losses = call.losses
          /\ call'.out = call.out /\ call'.res = call.res
      BY <1>0, <3>2 DEF IsCall, CallFields
    <3>4. call.res \notin Denied => call.losses + 1 >= call.attempt
      BY <2>3 DEF CallInv, Enough, At
    <3>5. call.res \notin Denied => call'.losses + 2 >= call'.attempt
      BY <1>0, <3>1, <3>3, <3>4
    <3>6. call'.attempt \in Nat /\ call'.losses \in Nat
      BY <1>0, <3>1, <3>3
    <3>. QED
      BY <2>1, <2>3, <3>3, <3>5, <3>6 DEF CallInv, CallPcs, Enough, At
  <2>4. CASE At("awaitRenew") /\ call.attempt >= GetAttempts /\ Return(call, "unauthorized")
    <3>1. call.res \notin Denied => call.losses + 1 >= call.attempt
      BY <2>4 DEF CallInv, Enough, At
    <3>2. call.res \notin Denied => call.losses >= GetAttempts - 1
      BY <1>0, <2>4, <3>1, TokenClientAssumption
    <3>3. "unauthorized" \in Outs
      BY DEF Outs
    <3>. QED
      BY <1>0, <2>4, <3>2, <3>3, CallResult
  <2>. QED
    BY <1>2, <2>2, <2>3, <2>4 DEF TokenArrives
<1>3. ASSUME NEW j \in Jobs, TokenError(j) \/ TokenTimeout(j) PROVE CallInv'
  <2>1. Return(call, "getTokenFailed") /\ "getTokenFailed" \in Outs
    BY <1>3 DEF TokenError, TokenTimeout, Outs
  <2>. QED
    BY <1>0, <2>1, CallResult
<1>4. ASSUME NEW j \in Jobs, OrphanEnds(j) PROVE CallInv'
  BY <1>4, CallStays DEF OrphanEnds
<1>5. CASE GetOk
  <2>1. PICK out \in {"resource", "decryptError"} : Return(call, out)
    BY <1>5 DEF GetOk
  <2>2. out \in Outs
    BY <2>1 DEF Outs
  <2>. QED
    BY <1>0, <2>1, <2>2, CallResult
<1>6. CASE GetUnauthorized
  <2>1. /\ call'.pc = "renew" /\ call'.attempt = call.attempt /\ call'.losses = call.losses
        /\ call'.out = call.out /\ call'.res = call.res
    BY <1>0, <1>6 DEF GetUnauthorized, Goto, IsCall, CallFields
  <2>2. call.pc = "get" /\ token \in Tokens /\ (call.res \notin Denied => ~token.live)
    BY <1>6 DEF GetUnauthorized, Authorized, At, TokenInv
  <2>3. call.res \notin Denied => call.losses + 1 >= call.attempt
    BY <1>0, <2>2 DEF CallInv, Enough
  <2>. QED
    BY <1>0, <2>1, <2>2, <2>3 DEF CallInv, CallPcs, Enough
<1>7. CASE GetNotFound
  <2>1. Return(call, "notFound") /\ "notFound" \in Outs /\ call.res \in Absent
    BY <1>7 DEF GetNotFound, Outs
  <2>. QED
    BY <1>0, <2>1, CallResult
<1>8. CASE GetFails
  <2>1. Return(call, "httpError") /\ "httpError" \in Outs
    BY <1>8 DEF GetFails, Outs
  <2>. QED
    BY <1>0, <2>1, CallResult
<1>9. CASE TokenExpires
  <2>1. token \in Tokens /\ token.live /\ token'.live = FALSE
    BY <1>9 DEF TokenExpires, TokenInv, Tokens
  <2>2. PICK n : n = IF call.pc = "idle" THEN call.losses ELSE call.losses + 1
    OBVIOUS
  <2>3. call' = [call EXCEPT !.losses = n]
    BY <1>0, <1>9, <2>2 DEF TokenExpires, At, IsCall, CallFields
  <2>4. /\ call'.pc = call.pc /\ call'.attempt = call.attempt /\ call'.losses = n
        /\ call'.out = call.out /\ call'.res = call.res
    BY <1>0, <2>3 DEF IsCall, CallFields
  <2>5. n \in Nat /\ n >= call.losses /\ (call.pc # "idle" => n = call.losses + 1)
    BY <1>0, <2>2
  <2>6. /\ call.losses + 2 >= call.attempt /\ call.pc # "idle" => n + 1 >= call.attempt
        /\ call.losses + 1 >= call.attempt => n + 1 >= call.attempt
        /\ call.losses >= GetAttempts - 1 => n >= GetAttempts - 1
    BY <1>0, <2>5, TokenClientAssumption
  <2>. QED
    BY <1>0, <2>1, <2>4, <2>5, <2>6 DEF CallInv, CallPcs, Enough
<1>. QED
  BY <1>1, <1>2, <1>3, <1>4, <1>5, <1>6, <1>7, <1>8, <1>9 DEF Update, Request, Orphan

-----------------------------------------------------------------------------
(* Lists, and the references of a request.                                  *)

LEMMA ListLength ==
    ASSUME NEW s, IsList(s)
    PROVE  Len(s) \in Nat /\ DOMAIN s = 1..Len(s) /\ (s = << >> <=> Len(s) = 0)
<1>1. PICK S : s \in Seq(S)
  BY DEF IsList
<1>. QED
  BY <1>1, EmptySeq

LEMMA EmptyList == IsList(<< >>) /\ Len(<< >>) = 0
BY DEF IsList

LEMMA OneList ==
    ASSUME NEW x
    PROVE  IsList(<<x>>) /\ Len(<<x>>) = 1 /\ <<x>>[1] = x
BY DEF IsList

LEMMA ListIs ==
    ASSUME NEW s, NEW n \in Nat, s = [i \in 1..n |-> s[i]]
    PROVE  IsList(s) /\ Len(s) = n
<1>1. PICK S : S = {s[i] : i \in 1..n}
  OBVIOUS
<1>2. s \in [1..n -> S] /\ DOMAIN s = 1..n
  BY <1>1
<1>3. s \in Seq(S) /\ Len(s) = n
  BY <1>2
<1>. QED
  BY <1>1, <1>2, <1>3 DEF IsList

LEMMA ListAppend ==
    ASSUME NEW s, IsList(s), NEW v
    PROVE  /\ IsList(Append(s, v)) /\ Len(Append(s, v)) = Len(s) + 1
           /\ \A i \in 1..Len(s) : Append(s, v)[i] = s[i]
           /\ Append(s, v)[Len(s) + 1] = v
<1>1. PICK S : S = {s[i] : i \in DOMAIN s} \cup {v}
  OBVIOUS
<1>2. Len(s) \in Nat /\ DOMAIN s = 1..Len(s)
  BY ListLength
<1>3. s \in Seq(S) /\ v \in S
  <2>1. \A i \in 1..Len(s) : s[i] \in S
    BY <1>1, <1>2
  <2>2. s = [i \in 1..Len(s) |-> s[i]]
    BY <1>2 DEF IsList
  <2>. QED
    BY <1>1, <1>2, <2>1, <2>2
<1>4. PICK t : t = Append(s, v)
  OBVIOUS
<1>5. /\ t \in Seq(S) /\ Len(t) = Len(s) + 1 /\ \A i \in 1..Len(s) : t[i] = s[i]
      /\ t[Len(s) + 1] = v
  BY <1>3, <1>4, AppendProperties
<1>6. t = [i \in 1..Len(t) |-> t[i]] /\ Len(t) \in Nat
  BY <1>5
<1>7. IsList(t)
  BY <1>6, ListIs
<1>. QED
  BY <1>4, <1>5, <1>7

LEMMA ListTail ==
    ASSUME NEW s, IsList(s), s # << >>
    PROVE  /\ IsList(Tail(s)) /\ Len(Tail(s)) = Len(s) - 1 /\ Len(s) > 0 /\ Head(s) = s[1]
           /\ \A i \in 1..Len(Tail(s)) : Tail(s)[i] = s[i + 1]
<1>1. PICK S : s \in Seq(S)
  BY DEF IsList
<1>2. Len(s) \in Nat /\ Len(s) > 0
  BY <1>1, EmptySeq
<1>3. PICK t : t = Tail(s)
  OBVIOUS
<1>4. /\ t \in Seq(S) /\ Len(t) = Len(s) - 1
      /\ \A i \in 1..Len(t) : t[i] = s[i + 1]
  BY <1>1, <1>2, <1>3
<1>5. t = [i \in 1..Len(t) |-> t[i]] /\ Len(t) \in Nat
  BY <1>4
<1>6. IsList(t)
  BY <1>5, ListIs
<1>7. Head(s) = s[1]
  BY <1>1, <1>2
<1>. QED
  BY <1>2, <1>3, <1>4, <1>6, <1>7

\* Only the building of the image client resolves its references differently.
LEMMA StageSame ==
    ASSUME NEW s, NEW a, NEW stage, stage # "init" \/ a.kind # "pull"
    PROVE  /\ \A ref : HasValue(s, a, stage, ref) = HasValue(s, a, "none", ref)
           /\ \A ref : ValueOf(s, a, stage, ref) = ValueOf(s, a, "none", ref)
           /\ \A c : References(a, c, stage) = References(a, c, "none")
<1>1. ASSUME NEW ref PROVE Meant(s, a.kind, stage, ref) = Meant(s, a.kind, "none", ref)
  BY DEF Meant, PlanOf, PullPlan
<1>. QED
  BY <1>1 DEF HasValue, ValueOf, References

LEMMA BuildSame ==
    ASSUME NEW s, NEW a, NEW b, a.kind = "pull", b.kind = "pull", AllHave(s, a, "init")
    PROVE  AllHave(s, b, "init")
<1>1. References(a, s.imageConfig, "init") = s.imageConfig /\ References(b, s.imageConfig, "init") = s.imageConfig
  BY DEF References
<1>2. \A ref : HasValue(s, a, "init", ref) => HasValue(s, b, "init", ref)
  BY DEF HasValue
<1>. QED
  BY <1>1, <1>2 DEF AllHave

\* What the scenes are assumed to ask for.
LEMMA AskedRight ==
    ASSUME NEW s \in Scenes, NEW p \in Clients
    PROVE  WantsRight(s, p) /\ IsList(s.imageConfig)
BY ApiServerAssumption

Kinds == {"resource", "rest", "unseal", "unwrap", "oss", "luks", "pull"}
LEMMA WantIs ==
    ASSUME NEW s \in Scenes, NEW p \in Clients, NEW a, a = s.ask[p], a.kind \in Kinds,
           ClientOf(s) # Err, a.kind = "rest" => Forwarded(s, a)
    PROVE  /\ a.want = Wanted(s, a)
           /\ a.kind # "rest" => WellAsked(s, p, a)
BY AskedRight DEF WantsRight, Kinds

\* The references are a list: one for most, two or three for a bucket.
LEMMA ReferencesList ==
    ASSUME NEW s \in Scenes, NEW p \in Clients, NEW a, a = s.ask[p], a.kind \in Kinds, NEW stage
    PROVE  LET refs == References(a, s.imageConfig, stage)
           IN /\ IsList(refs)
              /\ a.kind \in {"resource", "rest", "unseal", "unwrap", "luks"} => Len(refs) = 1
              /\ a.kind = "oss" => /\ Len(refs) = IF a.encrypted THEN 3 ELSE 2
                                   /\ IsList(a.refs) /\ Len(a.refs) = 2
                                   /\ refs[1] = a.refs[1] /\ refs[2] = a.refs[2]
                                   /\ a.encrypted => refs[3] = a.encPasswd
<1>1. IsList(s.imageConfig) /\ (a.kind # "rest" => WellAsked(s, p, a))
  BY AskedRight DEF WantsRight, Kinds
<1>2. CASE a.kind = "rest"
  BY <1>2, OneList DEF References
<1>3. CASE a.kind = "oss"
  <2>1. IsList(a.refs) /\ Len(a.refs) = 2
    BY <1>1, <1>3 DEF WellAsked
  <2>2. CASE a.encrypted
    <3>1. References(a, s.imageConfig, stage) = Append(a.refs, a.encPasswd)
      BY <1>3, <2>2 DEF References
    <3>2. PICK l, x, t : l = a.refs /\ x = a.encPasswd /\ t = Append(l, x)
      OBVIOUS
    <3>3. IsList(l) /\ Len(l) = 2
      BY <2>1, <3>2
    <3>4. /\ IsList(Append(l, x)) /\ Len(Append(l, x)) = Len(l) + 1
          /\ \A i \in 1..Len(l) : Append(l, x)[i] = l[i]
          /\ Append(l, x)[Len(l) + 1] = x
      BY <3>3, ListAppend
    <3>5. IsList(t) /\ Len(t) = 2 + 1 /\ (\A i \in 1..2 : t[i] = l[i]) /\ t[2 + 1] = x
      BY <3>2, <3>3, <3>4
    <3>6. t[1] = a.refs[1] /\ t[2] = a.refs[2] /\ t[3] = a.encPasswd /\ Len(t) = 3
      BY <3>2, <3>5
    <3>. QED
      BY <1>3, <2>1, <2>2, <3>1, <3>2, <3>5, <3>6
  <2>3. CASE ~a.encrypted
    <3>1. References(a, s.imageConfig, stage) = a.refs
      BY <1>3, <2>3 DEF References
    <3>. QED
      BY <1>3, <2>1, <2>3, <3>1
  <2>. QED
    BY <2>2, <2>3
<1>4. CASE a.kind = "pull"
  <2>1. IsList(a.refs)
    BY <1>1, <1>4 DEF WellAsked
  <2>. QED
    BY <1>1, <1>4, <2>1 DEF References
<1>5. CASE a.kind \in {"resource", "unseal", "unwrap", "luks"}
  <2>1. IsList(a.refs) /\ Len(a.refs) = 1 /\ References(a, s.imageConfig, stage) = a.refs
    BY <1>1, <1>5 DEF WellAsked, References
  <2>. QED
    BY <1>5, <2>1
<1>. QED
  BY <1>2, <1>3, <1>4, <1>5 DEF Kinds

-----------------------------------------------------------------------------
(* How a record goes on.                                                    *)

\* A failure is right where the request wants an error, or another party failed.
LEMMA FailedOK ==
    ASSUME NEW s, NEW a, NEW r, IsReq(r), RecordOK(s, a, r), NEW cause, cause \/ a.want = Err,
           NEW n, n = Failed(r, cause)
    PROVE  RecordOK(s, a, n) /\ ~Busy(n) /\ n.pc = "done"
<1>1. PICK b : b = (r.blame \/ cause)
  OBVIOUS
<1>2. n = [[r EXCEPT !.pc = "done", !.out = [ok |-> FALSE], !.tmp = FALSE, !.arg = None] EXCEPT !.blame = b]
  BY <1>1 DEF Failed, EndedWith, IsReq, ReqFields
<1>3. n.pc = "done" /\ n.stage = r.stage /\ n.out = [ok |-> FALSE] /\ n.blame = b
  BY <1>2 DEF IsReq, ReqFields
<1>4. n.out.ok = FALSE
  BY <1>3
<1>5. a.want = Err \/ n.blame
  BY <1>1, <1>3
<1>. QED
  BY <1>3, <1>4, <1>5 DEF RecordOK, DoneOK, StageOK, Busy

LEMMA AnsweredOK ==
    ASSUME NEW s, NEW a, NEW r, IsReq(r), RecordOK(s, a, r), NEW v, v = a.want, a.kind = "rest" => v # Err,
           NEW n, n = Answered(r, v)
    PROVE  RecordOK(s, a, n) /\ ~Busy(n) /\ n.pc = "done"
<1>1. n = [r EXCEPT !.pc = "done", !.out = [ok |-> TRUE, value |-> v], !.tmp = FALSE, !.arg = None]
  BY DEF Answered, EndedWith
<1>2. n.pc = "done" /\ n.stage = r.stage /\ n.out = [ok |-> TRUE, value |-> v]
  BY <1>1 DEF IsReq, ReqFields
<1>3. n.out.ok = TRUE /\ n.out.value = v
  BY <1>2
<1>. QED
  BY <1>2, <1>3 DEF RecordOK, DoneOK, StageOK, Busy

\* A panic answers nothing.
LEMMA PanickedOK ==
    ASSUME NEW s, NEW a, NEW r, IsReq(r), RecordOK(s, a, r), NEW n,
           n = [EndedWith(r, None) EXCEPT !.pc = "panicked"]
    PROVE  RecordOK(s, a, n) /\ ~Busy(n)
<1>1. n.pc = "panicked" /\ n.stage = r.stage
  BY DEF EndedWith, IsReq, ReqFields
<1>. QED
  BY <1>1 DEF RecordOK, DoneOK, StageOK, Busy

\* A record at work for a client of a scene.
AtWork(s, p, a, r) ==
    /\ s \in Scenes /\ p \in Clients /\ a = s.ask[p] /\ ClientOf(s) # Err
    /\ IsReq(r) /\ RecordOK(s, a, r) /\ Busy(r)

LEMMA WorkParts ==
    ASSUME NEW s, NEW p, NEW a, NEW r, AtWork(s, p, a, r)
    PROVE  /\ KindOK(s, a, r) /\ LengthOK(s, a, r) /\ GotOK(s, a, r) /\ WaitOK(s, a, r) /\ StageOK(s, a, r)
           /\ a.kind \in Kinds /\ s \in Scenes /\ p \in Clients /\ a = s.ask[p] /\ IsReq(r)
BY DEF AtWork, RecordOK, KindOK, Kinds

LEMMA WorkWant ==
    ASSUME NEW s, NEW p, NEW a, NEW r, AtWork(s, p, a, r)
    PROVE  a.want = Wanted(s, a)
<1>1. s \in Scenes /\ p \in Clients /\ a = s.ask[p] /\ a.kind \in Kinds /\ KindOK(s, a, r)
  BY WorkParts
<1>2. ClientOf(s) # Err
  BY DEF AtWork
<1>3. a.kind = "rest" => Forwarded(s, a)
  BY <1>1 DEF KindOK
<1>. QED
  BY <1>1, <1>2, <1>3, WantIs

LEMMA WorkLengths ==
    ASSUME NEW s, NEW p, NEW a, NEW r, AtWork(s, p, a, r)
    PROVE  /\ Len(r.got) \in Nat /\ Len(r.todo) \in Nat /\ Len(RefsOf(s, a, r)) \in Nat
           /\ r.pc # "image" => Len(r.got) + Len(r.todo) <= Len(RefsOf(s, a, r))
<1>1. Len(r.got) \in Nat /\ Len(r.todo) \in Nat
  BY WorkParts, ListLength DEF GotOK
<1>2. PICK refs : refs = RefsOf(s, a, r)
  OBVIOUS
<1>3. IsList(refs) /\ (a.kind = "oss" => Len(refs) = IF a.encrypted THEN 3 ELSE 2)
  <2>1. PICK stage : stage = r.stage
    OBVIOUS
  <2>2. refs = References(a, s.imageConfig, stage)
    BY <1>2, <2>1 DEF RefsOf
  <2>. QED
    BY <2>2, WorkParts, ReferencesList
<1>4. Len(refs) \in Nat
  BY <1>3, ListLength
<1>5. PICK k, m : k = Reached(r) /\ m = Len(refs)
  OBVIOUS
<1>6. k \in Nat /\ m \in Nat
  <2>1. PICK g, l : g = Len(r.got) /\ l = Len(r.todo)
    OBVIOUS
  <2>2. g \in Nat /\ l \in Nat /\ k = g + l
    BY <1>1, <1>5, <2>1 DEF Reached
  <2>3. k \in Nat
    BY <2>2
  <2>. QED
    BY <1>4, <1>5, <2>3
<1>7. r.pc # "image" => k <= m
  <2>1. CASE a.kind = "oss"
    <3>1. k = 2 \/ (k = 3 /\ a.encrypted)
      BY <1>5, <2>1, WorkParts DEF LengthOK
    <3>2. m = IF a.encrypted THEN 3 ELSE 2
      BY <1>3, <1>5, <2>1
    <3>. QED
      BY <3>1, <3>2
  <2>2. CASE a.kind # "oss"
    <3>1. r.pc # "image" => k = m
      BY <1>2, <1>5, <2>2, WorkParts DEF LengthOK
    <3>. QED
      BY <1>6, <3>1
  <2>. QED
    BY <2>1, <2>2
<1>. QED
  BY <1>1, <1>2, <1>4, <1>5, <1>7 DEF Reached

\* The head of what is to do is the next reference.
LEMMA HeadIs ==
    ASSUME NEW s, NEW p, NEW a, NEW r, AtWork(s, p, a, r), r.pc # "image", r.todo # << >>
    PROVE  /\ Head(r.todo) = RefsOf(s, a, r)[Len(r.got) + 1]
           /\ Len(r.got) + 1 \in 1..Len(RefsOf(s, a, r))
           /\ Len(r.todo) > 0
<1>1. IsList(r.todo) /\ \A i \in 1..Len(r.todo) : r.todo[i] = RefsOf(s, a, r)[Len(r.got) + i]
  BY WorkParts DEF GotOK
<1>2. Len(r.todo) > 0 /\ Head(r.todo) = r.todo[1]
  <2>1. PICK t : t = r.todo
    OBVIOUS
  <2>2. IsList(t) /\ t # << >>
    BY <1>1, <2>1
  <2>3. Len(t) > 0 /\ Head(t) = t[1]
    BY <2>2, ListTail
  <2>. QED
    BY <2>1, <2>3
<1>3. 1 \in 1..Len(r.todo)
  BY <1>2, WorkLengths
<1>4. Head(r.todo) = RefsOf(s, a, r)[Len(r.got) + 1]
  BY <1>1, <1>2, <1>3
<1>5. Len(r.got) + 1 \in 1..Len(RefsOf(s, a, r))
  <2>1. PICK g, k, m : g = Len(r.got) /\ k = Len(r.todo) /\ m = Len(RefsOf(s, a, r))
    OBVIOUS
  <2>2. g \in Nat /\ k \in Nat /\ m \in Nat /\ g + k <= m /\ k > 0
    BY <1>2, <2>1, WorkLengths
  <2>3. g + 1 \in 1..m
    BY <2>2
  <2>. QED
    BY <2>1, <2>3
<1>. QED
  BY <1>2, <1>4, <1>5

\* A reference without a value: the request wants an error.
LEMMA NoValue ==
    ASSUME NEW s, NEW p, NEW a, NEW r, AtWork(s, p, a, r), r.pc # "image", r.todo # << >>,
           ~HasValue(s, a, r.stage, Head(r.todo))
    PROVE  a.want = Err
<1>1. PICK refs, k : refs = RefsOf(s, a, r) /\ k = Len(r.got) + 1
  OBVIOUS
<1>2. k \in 1..Len(refs) /\ ~HasValue(s, a, r.stage, refs[k])
  BY <1>1, HeadIs
<1>3. ~AllHave(s, a, r.stage)
  BY <1>1, <1>2 DEF AllHave, RefsOf
<1>4. a.want = Wanted(s, a)
  BY WorkWant
<1>5. CASE a.kind = "pull" /\ r.stage = "init"
  BY <1>3, <1>4, <1>5 DEF Wanted
<1>6. CASE ~(a.kind = "pull" /\ r.stage = "init")
  <2>1. ~AllHave(s, a, "none")
    <3>1. PICK stage : stage = r.stage
      OBVIOUS
    <3>2. stage # "init" \/ a.kind # "pull"
      BY <1>6, <3>1
    <3>3. /\ References(a, s.imageConfig, stage) = References(a, s.imageConfig, "none")
          /\ \A ref : HasValue(s, a, stage, ref) = HasValue(s, a, "none", ref)
      BY <3>2, StageSame
    <3>. QED
      BY <1>1, <1>2, <3>1, <3>3 DEF AllHave, RefsOf
  <2>. QED
    BY <1>4, <2>1 DEF Wanted
<1>. QED
  BY <1>5, <1>6

\* A value was got: it is the reference's.
Advanced(r, v) == [r EXCEPT !.pc = "resolve", !.todo = Tail(@), !.got = Append(@, v), !.arg = None]
LEMMA NextOK ==
    ASSUME NEW s, NEW p, NEW a, NEW r, AtWork(s, p, a, r),
           r.pc \in {"resolve", "getter", "secret", "held", "kms"}, r.todo # << >>,
           HasValue(s, a, r.stage, Head(r.todo)), NEW v, v = ValueOf(s, a, r.stage, Head(r.todo)),
           NEW n, n = Advanced(r, v)
    PROVE  RecordOK(s, a, n) /\ n.pc = "resolve" /\ Reached(n) = Reached(r)
<1>1. PICK got, todo, stage, refs : /\ got = r.got /\ todo = r.todo /\ stage = r.stage
                                    /\ refs = References(a, s.imageConfig, stage)
  OBVIOUS
<1>2. /\ n.pc = "resolve" /\ n.todo = Tail(todo) /\ n.got = Append(got, v) /\ n.stage = stage
      /\ n.tmp = r.tmp
  BY <1>1, WorkParts DEF IsReq, ReqFields, Advanced
<1>3. refs = RefsOf(s, a, r) /\ refs = RefsOf(s, a, n)
  BY <1>1, <1>2 DEF RefsOf
<1>4. /\ IsList(got) /\ IsList(todo) /\ todo # << >>
      /\ \A i \in 1..Len(got) : HasValue(s, a, stage, refs[i]) /\ got[i] = ValueOf(s, a, stage, refs[i])
      /\ \A i \in 1..Len(todo) : todo[i] = refs[Len(got) + i]
  <2>1. GotOK(s, a, r)
    BY WorkParts
  <2>. QED
    BY <1>1, <1>3, <2>1 DEF GotOK
<1>5. Len(got) \in Nat /\ Len(todo) \in Nat /\ Len(todo) > 0
  BY <1>1, WorkLengths, HeadIs
<1>6. /\ IsList(Append(got, v)) /\ Len(Append(got, v)) = Len(got) + 1
      /\ \A i \in 1..Len(got) : Append(got, v)[i] = got[i]
      /\ Append(got, v)[Len(got) + 1] = v
  BY <1>4, ListAppend
<1>7. /\ IsList(Tail(todo)) /\ Len(Tail(todo)) = Len(todo) - 1
      /\ \A i \in 1..Len(Tail(todo)) : Tail(todo)[i] = todo[i + 1]
  BY <1>4, ListTail
<1>8. HasValue(s, a, stage, refs[Len(got) + 1]) /\ v = ValueOf(s, a, stage, refs[Len(got) + 1])
  BY ZenonT(40), <1>1, <1>3, HeadIs
<1>9. GotOK(s, a, n)
  <2>1. ASSUME NEW i \in 1..Len(n.got)
        PROVE  HasValue(s, a, stage, refs[i]) /\ n.got[i] = ValueOf(s, a, stage, refs[i])
    <3>1. CASE i = Len(got) + 1
      BY <1>2, <1>6, <1>8, <3>1
    <3>2. CASE i # Len(got) + 1
      <4>1. i \in 1..Len(got)
        BY <1>2, <1>5, <1>6, <3>2
      <4>. QED
        BY <1>2, <1>4, <1>6, <4>1
    <3>. QED
      BY <3>1, <3>2
  <2>2. ASSUME NEW i \in 1..Len(n.todo) PROVE n.todo[i] = refs[Len(n.got) + i]
    <3>1. i + 1 \in 1..Len(todo) /\ Len(got) + (i + 1) = (Len(got) + 1) + i
      <4>1. PICK g, k : g = Len(got) /\ k = Len(todo)
        OBVIOUS
      <4>2. g \in Nat /\ k \in Nat /\ i \in 1..(k - 1)
        BY <1>2, <1>5, <1>7, <4>1
      <4>3. i + 1 \in 1..k /\ g + (i + 1) = (g + 1) + i
        BY <4>2
      <4>. QED
        BY <4>1, <4>3
    <3>2. n.todo[i] = todo[i + 1]
      BY <1>2, <1>7
    <3>3. todo[i + 1] = refs[Len(got) + (i + 1)]
      BY <1>4, <3>1
    <3>. QED
      BY <1>2, <1>6, <3>1, <3>2, <3>3
  <2>. QED
    BY ZenonT(40), <1>2, <1>3, <1>6, <1>7, <2>1, <2>2 DEF GotOK
<1>10. Reached(n) = Reached(r) /\ Len(n.got) >= Len(r.got)
  <2>1. PICK g, k : g = Len(got) /\ k = Len(todo)
    OBVIOUS
  <2>2. Len(n.got) = g + 1 /\ Len(n.todo) = k - 1 /\ Len(r.got) = g /\ Len(r.todo) = k
    BY <1>1, <1>2, <1>6, <1>7, <2>1
  <2>3. (g + 1) + (k - 1) = g + k /\ g + 1 >= g
    BY <1>5, <2>1
  <2>. QED
    BY <2>2, <2>3 DEF Reached
<1>11. LengthOK(s, a, n)
  <2>1. LengthOK(s, a, r) /\ r.pc # "command" /\ r.pc # "image"
    BY WorkParts
  <2>2. Len(r.got) >= 2 => Len(n.got) >= 2
    BY <1>1, <1>2, <1>5, <1>6
  <2>. QED
    BY <1>2, <1>3, <1>10, <2>1, <2>2 DEF LengthOK
<1>12. KindOK(s, a, n)
  <2>1. KindOK(s, a, r) /\ r.pc # "command" /\ r.pc # "image"
    BY WorkParts
  <2>. QED
    BY <1>1, <1>2, <2>1 DEF KindOK
<1>13. StageOK(s, a, n) /\ DoneOK(a, n) /\ WaitOK(s, a, n)
  BY <1>1, <1>2, WorkParts DEF StageOK, DoneOK, WaitOK
<1>. QED
  BY <1>2, <1>9, <1>10, <1>11, <1>12, <1>13 DEF RecordOK

\* The request asks another party, and waits.
Sent(r, pc, x) == [r EXCEPT !.pc = pc, !.arg = x]
LEMMA WaitsOK ==
    ASSUME NEW s, NEW p, NEW a, NEW r, AtWork(s, p, a, r), r.pc \in {"resolve", "getter", "secret"},
           NEW pc \in {"getter", "secret", "held", "kms"}, NEW x,
           NEW n, n = Sent(r, pc, x), WaitOK(s, a, n)
    PROVE  RecordOK(s, a, n) /\ n.pc = pc /\ Reached(n) = Reached(r)
<1>1. n.pc = pc /\ n.todo = r.todo /\ n.got = r.got /\ n.stage = r.stage /\ n.tmp = r.tmp
  BY WorkParts DEF IsReq, ReqFields, Sent
<1>2. RefsOf(s, a, n) = RefsOf(s, a, r) /\ Reached(n) = Reached(r)
  BY <1>1 DEF RefsOf, Reached
<1>3. GotOK(s, a, n) /\ LengthOK(s, a, n) /\ KindOK(s, a, n)
  BY <1>1, <1>2, WorkParts DEF GotOK, LengthOK, KindOK
<1>4. StageOK(s, a, n) /\ DoneOK(a, n)
  BY <1>1, WorkParts DEF StageOK, DoneOK
<1>. QED
  BY <1>1, <1>2, <1>3, <1>4 DEF RecordOK

\* With everything resolved, every reference has its value.
LEMMA ResolvedHas ==
    ASSUME NEW s, NEW p, NEW a, NEW r, AtWork(s, p, a, r), r.todo = << >>,
           Reached(r) = Len(RefsOf(s, a, r))
    PROVE  /\ AllHave(s, a, r.stage) /\ Len(r.got) = Len(RefsOf(s, a, r)) /\ IsList(r.got)
           /\ \A i \in 1..Len(r.got) : r.got[i] = ValueOf(s, a, r.stage, RefsOf(s, a, r)[i])
<1>1. /\ IsList(r.got)
      /\ \A i \in 1..Len(r.got) : /\ HasValue(s, a, r.stage, RefsOf(s, a, r)[i])
                                  /\ r.got[i] = ValueOf(s, a, r.stage, RefsOf(s, a, r)[i])
  <2>1. GotOK(s, a, r)
    BY WorkParts
  <2>. QED
    BY <2>1 DEF GotOK
<1>2. Len(r.got) = Len(RefsOf(s, a, r))
  <2>1. PICK g : g = Len(r.got)
    OBVIOUS
  <2>2. Len(r.todo) = 0
    BY EmptyList
  <2>3. g \in Nat /\ Len(RefsOf(s, a, r)) = g + 0
    BY <2>1, <2>2, WorkLengths DEF Reached
  <2>4. g + 0 = g
    BY <2>3
  <2>. QED
    BY <2>1, <2>3, <2>4
<1>3. AllHave(s, a, r.stage)
  BY <1>1, <1>2 DEF AllHave, RefsOf
<1>. QED
  BY <1>1, <1>2, <1>3

\* What the request wants then.
LEMMA WantOutcome ==
    ASSUME NEW s, NEW p, NEW a, NEW r, AtWork(s, p, a, r), r.todo = << >>,
           Reached(r) = Len(RefsOf(s, a, r)), r.stage # "init", r.pc # "image"
    PROVE  /\ a.want = Outcome(s, a)
           /\ RefsOf(s, a, r) = References(a, s.imageConfig, "none")
           /\ \A i \in 1..Len(r.got) : r.got[i] = ValueOf(s, a, "none", RefsOf(s, a, r)[i])
<1>1. /\ AllHave(s, a, r.stage)
      /\ \A i \in 1..Len(r.got) : r.got[i] = ValueOf(s, a, r.stage, RefsOf(s, a, r)[i])
  BY ResolvedHas
<1>2. PICK stage : stage = r.stage
  OBVIOUS
<1>3. /\ \A ref : HasValue(s, a, stage, ref) = HasValue(s, a, "none", ref)
      /\ \A ref : ValueOf(s, a, stage, ref) = ValueOf(s, a, "none", ref)
      /\ References(a, s.imageConfig, stage) = References(a, s.imageConfig, "none")
  <2>1. stage # "init"
    BY <1>2
  <2>. QED
    BY <2>1, StageSame
<1>4. AllHave(s, a, "none")
  BY <1>1, <1>2, <1>3 DEF AllHave
<1>5. a.kind = "pull" => AllHave(s, a, "init")
  <2>1. CASE a.kind = "pull"
    <3>1. r.stage = "pulling"
      BY <2>1, WorkParts DEF KindOK
    <3>. QED
      BY <3>1, WorkParts DEF StageOK
  <2>. QED
    BY <2>1
<1>6. a.want = Wanted(s, a)
  BY WorkWant
<1>. QED
  BY <1>1, <1>2, <1>3, <1>4, <1>5, <1>6 DEF Wanted, RefsOf

\* get_resource, unseal_secret, un_wrap_key: the answer is what is wanted.
LEMMA AnswerIs ==
    ASSUME NEW s, NEW p, NEW a, NEW r, AtWork(s, p, a, r), r.todo = << >>, r.pc = "resolve",
           a.kind \in {"resource", "rest", "unseal", "unwrap"}, NEW v,
           v = IF a.kind = "unwrap"
               THEN (IF a.refs[1].provider = "kbs" THEN Packets!UnwrapPacket(a.refs[1], r.got[1]) ELSE r.got[1])
               ELSE r.got[1]
    PROVE  v = a.want
<1>1. Reached(r) = Len(RefsOf(s, a, r)) /\ r.stage = "none"
  BY WorkParts DEF LengthOK, KindOK
<1>2. PICK refs, got : refs = RefsOf(s, a, r) /\ got = r.got
  OBVIOUS
<1>3. /\ a.want = Outcome(s, a) /\ refs = References(a, s.imageConfig, "none")
      /\ \A i \in 1..Len(got) : got[i] = ValueOf(s, a, "none", refs[i])
  BY <1>1, <1>2, WantOutcome
<1>4. Len(got) = 1
  <2>1. Len(got) = Len(refs)
    BY <1>1, <1>2, ResolvedHas
  <2>2. Len(refs) = 1
    BY <1>3, WorkParts, ReferencesList
  <2>. QED
    BY <2>1, <2>2
<1>5. PICK first : first = got[1]
  OBVIOUS
<1>6. first = ValueOf(s, a, "none", refs[1])
  BY <1>3, <1>4, <1>5
<1>7. CASE a.kind = "unwrap"
  <2>1. refs = a.refs
    BY <1>3, <1>7 DEF References
  <2>2. Outcome(s, a) = IF refs[1].provider = "kbs" THEN Packets!UnwrapPacket(refs[1], first) ELSE first
    BY <1>3, <1>6, <1>7 DEF Outcome
  <2>. QED
    BY <1>2, <1>3, <1>5, <1>7, <2>1, <2>2
<1>8. CASE a.kind # "unwrap"
  <2>1. Outcome(s, a) = first
    BY <1>3, <1>6, <1>8 DEF Outcome
  <2>. QED
    BY <1>2, <1>3, <1>5, <1>8, <2>1
<1>. QED
  BY <1>7, <1>8

\* A pull: the image, if every layer's key opens it.
LEMMA PullIs ==
    ASSUME NEW s, NEW p, NEW a, NEW r, AtWork(s, p, a, r), r.todo = << >>, r.pc = "resolve",
           r.stage = "pulling"
    PROVE  a.want = IF \A i \in DOMAIN a.refs : Packets!UnwrapPacket(a.refs[i], r.got[i]) # Err
                    THEN a.image ELSE Err
<1>1. a.kind = "pull"
  BY WorkParts DEF KindOK
<1>2. Reached(r) = Len(RefsOf(s, a, r))
  BY <1>1, WorkParts DEF LengthOK
<1>3. PICK refs, got : refs = RefsOf(s, a, r) /\ got = r.got
  OBVIOUS
<1>4. /\ a.want = Outcome(s, a) /\ refs = References(a, s.imageConfig, "none")
      /\ \A i \in 1..Len(got) : got[i] = ValueOf(s, a, "none", refs[i])
  BY <1>2, <1>3, WantOutcome
<1>5. Len(got) = Len(refs)
  BY <1>2, <1>3, ResolvedHas
<1>6. refs = a.refs
  BY <1>1, <1>4 DEF References
<1>7. DOMAIN refs = 1..Len(refs)
  <2>1. IsList(refs)
    BY <1>4, WorkParts, ReferencesList
  <2>. QED
    BY <2>1, ListLength
<1>8. a.want = IF \A i \in 1..Len(refs) :
                     Packets!UnwrapPacket(refs[i], ValueOf(s, a, "none", refs[i])) # Err
               THEN a.image ELSE Err
  BY <1>1, <1>4 DEF Outcome
<1>9. ASSUME NEW i \in 1..Len(refs)
      PROVE  Packets!UnwrapPacket(a.refs[i], r.got[i])
                 = Packets!UnwrapPacket(refs[i], ValueOf(s, a, "none", refs[i]))
  <2>1. r.got[i] = ValueOf(s, a, "none", refs[i]) /\ a.refs[i] = refs[i]
    BY <1>3, <1>4, <1>5, <1>6
  <2>. QED
    BY <2>1
<1>. QED
  BY <1>6, <1>7, <1>8, <1>9

\* A mount: the mount point.
LEMMA TargetIs ==
    ASSUME NEW s, NEW p, NEW a, NEW r, AtWork(s, p, a, r), r.pc = "command",
           a.kind = "oss" => Len(r.got) = IF a.encrypted THEN 3 ELSE 2
    PROVE  a.want = a.target
<1>1. a.kind \in {"oss", "luks"} /\ r.todo = << >> /\ r.stage = "none"
  BY WorkParts DEF KindOK
<1>2. PICK refs : refs = RefsOf(s, a, r) /\ refs = References(a, s.imageConfig, "none")
  BY <1>1 DEF RefsOf
<1>3. Reached(r) = Len(refs)
  <2>1. CASE a.kind = "oss"
    <3>1. Len(refs) = IF a.encrypted THEN 3 ELSE 2
      BY <1>2, <2>1, WorkParts, ReferencesList
    <3>2. Len(r.todo) = 0
      BY <1>1, EmptyList
    <3>3. Len(r.got) + 0 = Len(r.got)
      BY WorkLengths
    <3>. QED
      BY <2>1, <3>1, <3>2, <3>3 DEF Reached
  <2>2. CASE a.kind = "luks"
    <3>1. LengthOK(s, a, r)
      BY WorkParts
    <3>. QED
      BY <1>2, <2>2, <3>1 DEF LengthOK
  <2>. QED
    BY <1>1, <2>1, <2>2
<1>4. a.want = Outcome(s, a)
  BY <1>1, <1>2, <1>3, WantOutcome
<1>. QED
  BY <1>1, <1>4 DEF Outcome

-----------------------------------------------------------------------------
(* Mounts.                                                                  *)

\* What MountsBacked says of a mount m, by somebody who asks for a, among all.
Backed(a, m, all) ==
    /\ m.fs = "gocryptfs" => \E o \in all : o.fs = "ossfs" /\ o.at = m.over /\ o.by = m.by
    /\ m.at = a.target =>
           m.fs = IF a.kind = "luks" THEN "luks" ELSE IF a.encrypted THEN "gocryptfs" ELSE "ossfs"
    /\ m.with = (CASE m.fs = "gocryptfs" -> SubSeq(a.plain, 3, 3)
                   [] m.fs = "ossfs" -> SubSeq(a.plain, 1, 2)
                   [] OTHER -> a.plain)

LEMMA BackedAll == MountsBacked <=> \A m \in mounts : Backed(Ask(m.by), m, mounts)
BY DEF MountsBacked, Backed

\* Parts of a list of secrets.
LEMMA FirstTwo ==
    ASSUME NEW s, IsList(s), Len(s) = 2, NEW x, NEW y, s[1] = x, s[2] = y
    PROVE  SubSeq(s, 1, 2) = <<x, y>>
<1>1. PICK S : s \in Seq(S)
  BY DEF IsList
<1>2. SubSeq(s, 1, 2) = [i \in 1..2 |-> s[i]]
  BY <1>1
<1>3. [i \in 1..2 |-> s[i]] = [i \in 1..2 |-> IF i = 1 THEN x ELSE y]
  OBVIOUS
<1>4. [i \in 1..2 |-> IF i = 1 THEN x ELSE y] = <<x, y>>
  OBVIOUS
<1>. QED
  BY <1>2, <1>3, <1>4

LEMMA Third ==
    ASSUME NEW s, IsList(s), Len(s) = 3, NEW x, s[3] = x
    PROVE  SubSeq(s, 3, 3) = <<x>>
<1>1. PICK S : s \in Seq(S)
  BY DEF IsList
<1>2. SubSeq(s, 3, 3) = [i \in 1..1 |-> s[i + 2]]
  BY <1>1
<1>3. [i \in 1..1 |-> s[i + 2]] = [i \in 1..1 |-> x]
  OBVIOUS
<1>4. [i \in 1..1 |-> x] = <<x>>
  OBVIOUS
<1>. QED
  BY <1>2, <1>3, <1>4

\* The mounts that a command makes.
LEMMA OssfsBacked ==
    ASSUME NEW s, NEW p, NEW a, NEW r, AtWork(s, p, a, r), r.pc = "command", a.kind = "oss",
           Len(r.got) = 2, NEW m, NEW all,
           m = [fs |-> "ossfs", at |-> IF a.encrypted THEN [tmp |-> p] ELSE a.target, over |-> None,
                by |-> p, with |-> SubSeq(r.got, 1, 2)]
    PROVE  Backed(a, m, all)
<1>1. PICK refs, got : refs = References(a, s.imageConfig, "none") /\ got = r.got
  OBVIOUS
<1>2. refs = References(a, << >>, "none")
  BY <1>1 DEF References
<1>3. /\ IsList(got) /\ r.stage = "none"
      /\ \A i \in 1..2 : HasValue(s, a, "none", refs[i]) /\ got[i] = ValueOf(s, a, "none", refs[i])
  <2>1. r.stage = "none" /\ GotOK(s, a, r)
    BY WorkParts DEF KindOK
  <2>. QED
    BY <1>1, <2>1 DEF GotOK, RefsOf
<1>4. WellAsked(s, p, a)
  BY WorkParts, WantIs DEF AtWork
<1>5. a.target # [tmp |-> p]
  BY <1>4 DEF WellAsked
<1>6. SubSeq(a.plain, 1, 2) = <<ValueOf(s, a, "none", refs[1]), ValueOf(s, a, "none", refs[2])>>
  BY <1>2, <1>3, <1>4 DEF WellAsked
<1>7. SubSeq(got, 1, 2) = SubSeq(a.plain, 1, 2)
  <2>1. PICK x, y : x = ValueOf(s, a, "none", refs[1]) /\ y = ValueOf(s, a, "none", refs[2])
    OBVIOUS
  <2>2. got[1] = x /\ got[2] = y /\ Len(got) = 2
    BY <1>1, <1>3, <2>1
  <2>3. SubSeq(got, 1, 2) = <<x, y>>
    BY <1>3, <2>2, FirstTwo
  <2>. QED
    BY <1>6, <2>1, <2>3
<1>8. m.fs = "ossfs" /\ m.with = SubSeq(got, 1, 2) /\ m.at = IF a.encrypted THEN [tmp |-> p] ELSE a.target
  BY <1>1
<1>9. m.with = SubSeq(a.plain, 1, 2)
  BY <1>7, <1>8
<1>. QED
  BY <1>5, <1>8, <1>9 DEF Backed

LEMMA GocryptfsBacked ==
    ASSUME NEW s, NEW p, NEW a, NEW r, AtWork(s, p, a, r), r.pc = "command", a.kind = "oss",
           Len(r.got) = 3, a.encrypted, NEW m, NEW all, NEW dir,
           \E o \in all : o.fs = "ossfs" /\ o.at = dir /\ o.by = p,
           m = [fs |-> "gocryptfs", at |-> a.target, over |-> dir, by |-> p, with |-> SubSeq(r.got, 3, 3)]
    PROVE  Backed(a, m, all)
<1>1. PICK refs, got : refs = References(a, s.imageConfig, "none") /\ got = r.got
  OBVIOUS
<1>2. refs = References(a, << >>, "none")
  BY <1>1 DEF References
<1>3. /\ IsList(got)
      /\ \A i \in 1..3 : HasValue(s, a, "none", refs[i]) /\ got[i] = ValueOf(s, a, "none", refs[i])
  <2>1. r.stage = "none" /\ GotOK(s, a, r)
    BY WorkParts DEF KindOK
  <2>. QED
    BY <1>1, <2>1 DEF GotOK, RefsOf
<1>4. WellAsked(s, p, a)
  BY WorkParts, WantIs DEF AtWork
<1>5. SubSeq(a.plain, 3, 3) = <<ValueOf(s, a, "none", refs[3])>>
  BY <1>2, <1>3, <1>4 DEF WellAsked
<1>6. SubSeq(got, 3, 3) = SubSeq(a.plain, 3, 3)
  <2>1. PICK x : x = ValueOf(s, a, "none", refs[3])
    OBVIOUS
  <2>2. got[3] = x /\ Len(got) = 3
    BY <1>1, <1>3, <2>1
  <2>3. SubSeq(got, 3, 3) = <<x>>
    BY <1>3, <2>2, Third
  <2>. QED
    BY <1>5, <2>1, <2>3
<1>7. m.fs = "gocryptfs" /\ m.with = SubSeq(got, 3, 3) /\ m.over = dir /\ m.by = p
  BY <1>1
<1>8. m.with = SubSeq(a.plain, 3, 3)
  BY <1>6, <1>7
<1>. QED
  BY <1>7, <1>8 DEF Backed

LEMMA LuksBacked ==
    ASSUME NEW s, NEW p, NEW a, NEW r, AtWork(s, p, a, r), r.pc = "command", a.kind = "luks",
           NEW m, NEW all,
           m = [fs |-> "luks", at |-> a.target, over |-> None, by |-> p, with |-> <<r.got[1]>>]
    PROVE  Backed(a, m, all)
<1>1. r.stage = "none" /\ r.todo = << >>
  BY WorkParts DEF KindOK
<1>2. PICK refs : refs = RefsOf(s, a, r) /\ refs = References(a, s.imageConfig, "none") /\ refs = a.refs
  BY <1>1 DEF RefsOf, References
<1>3. Len(refs) = 1 /\ Reached(r) = Len(refs)
  <2>1. LengthOK(s, a, r)
    BY WorkParts
  <2>2. Reached(r) = Len(refs)
    BY <1>2, <2>1 DEF LengthOK
  <2>3. Len(refs) = 1
    BY <1>2, WorkParts, ReferencesList
  <2>. QED
    BY <2>2, <2>3
<1>4. r.got[1] = ValueOf(s, a, "none", refs[1]) /\ AllHave(s, a, "none")
  <2>1. /\ AllHave(s, a, r.stage) /\ Len(r.got) = Len(RefsOf(s, a, r))
        /\ \A i \in 1..Len(r.got) : r.got[i] = ValueOf(s, a, r.stage, RefsOf(s, a, r)[i])
    <3>1. Reached(r) = Len(RefsOf(s, a, r)) /\ r.todo = << >>
      BY <1>1, <1>2, <1>3
    <3>. QED
      BY <3>1, ResolvedHas
  <2>2. Len(r.got) = 1
    BY <1>2, <1>3, <2>1
  <2>3. 1 \in 1..Len(r.got)
    BY <2>2
  <2>. QED
    BY <1>1, <1>2, <2>1, <2>3
<1>5. HasValue(s, a, "none", refs[1])
  BY <1>2, <1>3, <1>4 DEF AllHave
<1>6. a.plain = <<r.got[1]>>
  <2>1. WellAsked(s, p, a)
    BY WorkParts, WantIs DEF AtWork
  <2>. QED
    BY <1>2, <1>4, <1>5, <2>1 DEF WellAsked
<1>. QED
  BY <1>6 DEF Backed

-----------------------------------------------------------------------------
(* The steps of a client's request.                                         *)

\* Who serves has every credential's file and no other.
LEMMA FilesAre ==
    ASSUME BootInv, ProcessInv, hub = "serving"
    PROVE  files = CredentialFiles(scene)
<1>1. DOMAIN files = DOMAIN Credentials
  BY DEF BootInv, ProcessInv, InPlace
<1>2. \A f \in DOMAIN Credentials : files[f] = scene.published[f]
  BY DEF BootInv, InPlace
<1>3. files = [f \in DOMAIN files |-> files[f]]
  BY DEF ProcessInv
<1>4. files = [f \in DOMAIN Credentials |-> scene.published[f]]
  BY <1>1, <1>2, <1>3
<1>. QED
  BY <1>4 DEF CredentialFiles, Credentials

LEMMA ServesRight ==
    ASSUME HubInv, AnswerInv, NEW p \in Clients, Busy(req[p])
    PROVE  /\ AtWork(scene, p, Ask(p), req[p]) /\ hub = "serving"
           /\ client # None /\ client = ClientOf(scene) /\ client # Err
           /\ \A ref : Plan(p, ref) = Meant(scene, Ask(p).kind, req[p].stage, ref)
<1>1. hub = "serving"
  BY DEF AnswerInv, ProcessInv
<1>2. client # None /\ client = ClientOf(scene) /\ client # Err
  BY <1>1 DEF AnswerInv, ProcessInv
<1>3. scene \in Scenes /\ IsReq(req[p]) /\ p # Boot
  BY BootOnly DEF HubInv, BootInv, ReqInv
<1>4. AtWork(scene, p, Ask(p), req[p])
  BY <1>2, <1>3 DEF AtWork, AnswerInv, Ask
<1>5. files = CredentialFiles(scene)
  BY <1>1, FilesAre DEF HubInv, AnswerInv
<1>6. ASSUME NEW ref PROVE Plan(p, ref) = Meant(scene, Ask(p).kind, req[p].stage, ref)
  BY <1>3, <1>5 DEF Plan, Meant
<1>. QED
  BY <1>1, <1>2, <1>4, <1>6

\* A step of a request that mounts nothing.
PlainStep(p) ==
    /\ RecordOK(scene, Ask(p), req'[p]) /\ req'[p].pc # "new"
    /\ UNCHANGED <<mounts, keyfiles>>
    /\ Busy(req'[p]) => Busy(req[p]) /\ Reached(req'[p]) = Reached(req[p]) /\ req'[p].pc # "command"

LEMMA FailsRight ==
    ASSUME HubInv, AnswerInv, NEW p \in Clients, NEW cause, Fails(p, cause),
           cause \/ Ask(p).want = Err, UNCHANGED <<mounts, keyfiles>>
    PROVE  PlainStep(p)
<1>1. IsReq(req[p]) /\ req = [q \in Procs |-> req[q]] /\ p \in Procs /\ RecordOK(scene, Ask(p), req[p])
  BY BootOnly DEF HubInv, ReqInv, AnswerInv
<1>2. PICK r, n : r = req[p] /\ n = Failed(r, cause) /\ req' = [req EXCEPT ![p] = n]
  BY <1>1 DEF Fails
<1>3. req'[p] = n
  BY <1>1, <1>2
<1>4. PICK s, a : s = scene /\ a = Ask(p)
  OBVIOUS
<1>5. RecordOK(s, a, n) /\ ~Busy(n) /\ n.pc = "done"
  <2>1. IsReq(r) /\ RecordOK(s, a, r) /\ (cause \/ a.want = Err)
    BY <1>1, <1>2, <1>4
  <2>. QED
    BY <1>2, <2>1, FailedOK
<1>. QED
  BY <1>3, <1>4, <1>5 DEF PlainStep

\* The value of the next reference arrives.
LEMMA GotRight ==
    ASSUME HubInv, AnswerInv, NEW p \in Clients, Busy(req[p]), req[p].todo # << >>,
           req[p].pc \in {"resolve", "getter", "secret", "held", "kms"}, NEW v, Got(p, v),
           NEW plan, plan = Meant(scene, Ask(p).kind, req[p].stage, Head(req[p].todo)),
           Denotes(scene, plan), v = Denoted(scene, plan), UNCHANGED <<mounts, keyfiles>>
    PROVE  PlainStep(p)
<1>1. IsReq(req[p]) /\ req = [q \in Procs |-> req[q]] /\ p \in Procs /\ p # Boot
  BY BootOnly DEF HubInv, ReqInv
<1>2. PICK s, a, r : s = scene /\ a = Ask(p) /\ r = req[p]
  OBVIOUS
<1>3. AtWork(s, p, a, r)
  BY <1>2, ServesRight
<1>4. HasValue(s, a, r.stage, Head(r.todo)) <=> (a.kind = "oss" => IsText(v))
  BY <1>2 DEF HasValue
<1>5. v = ValueOf(s, a, r.stage, Head(r.todo))
  BY <1>2 DEF ValueOf
<1>6. CASE a.kind = "oss" /\ ~IsText(v)
  <2>1. a.want = Err
    BY <1>2, <1>3, <1>4, <1>6, NoValue
  <2>2. Fails(p, FALSE)
    BY <1>1, <1>2, <1>6 DEF Got
  <2>. QED
    BY <1>2, <2>1, <2>2, FailsRight
<1>7. CASE ~(a.kind = "oss" /\ ~IsText(v))
  <2>1. PICK n : n = Advanced(r, v) /\ req' = [req EXCEPT ![p] = n]
    BY <1>1, <1>2, <1>7 DEF Got, Advanced
  <2>2. req'[p] = n
    BY <1>1, <2>1
  <2>3. RecordOK(s, a, n) /\ n.pc = "resolve" /\ Reached(n) = Reached(r)
    BY <1>2, <1>3, <1>4, <1>5, <1>7, <2>1, NextOK
  <2>. QED
    BY <1>2, <2>2, <2>3 DEF PlainStep
<1>. QED
  BY <1>6, <1>7

\* The next reference has no value.
LEMMA LacksRight ==
    ASSUME HubInv, AnswerInv, NEW p \in Clients, Busy(req[p]), req[p].todo # << >>, req[p].pc # "image",
           NEW plan, plan = Meant(scene, Ask(p).kind, req[p].stage, Head(req[p].todo)),
           ~Denotes(scene, plan)
    PROVE  Ask(p).want = Err
<1>1. PICK s, a, r : s = scene /\ a = Ask(p) /\ r = req[p]
  OBVIOUS
<1>2. AtWork(s, p, a, r)
  BY <1>1, ServesRight
<1>3. ~HasValue(s, a, r.stage, Head(r.todo))
  BY <1>1 DEF HasValue
<1>4. r.todo # << >> /\ r.pc # "image"
  BY <1>1
<1>5. a.want = Err
  BY <1>2, <1>3, <1>4, NoValue
<1>. QED
  BY <1>1, <1>5

\* The request goes on to wait for another party.
LEMMA WaitsRight ==
    ASSUME HubInv, AnswerInv, NEW p \in Clients, Busy(req[p]), req[p].pc \in {"resolve", "getter", "secret"},
           NEW pc \in {"getter", "secret", "held", "kms"}, NEW x,
           NEW n, n = Sent(req[p], pc, x), req' = [req EXCEPT ![p] = n],
           WaitOK(scene, Ask(p), n), UNCHANGED <<mounts, keyfiles>>
    PROVE  PlainStep(p)
<1>1. req = [q \in Procs |-> req[q]] /\ p \in Procs
  BY BootOnly DEF HubInv, ReqInv
<1>2. PICK s, a, r : s = scene /\ a = Ask(p) /\ r = req[p]
  OBVIOUS
<1>3. AtWork(s, p, a, r)
  BY <1>2, ServesRight
<1>4. r.pc \in {"resolve", "getter", "secret"} /\ n = Sent(r, pc, x) /\ WaitOK(s, a, n)
  BY <1>2
<1>5. RecordOK(s, a, n) /\ n.pc = pc /\ Reached(n) = Reached(r)
  BY <1>3, <1>4, WaitsOK
<1>6. req'[p] = n
  BY <1>1
<1>. QED
  BY <1>2, <1>5, <1>6 DEF PlainStep

\* Resolve: a reference's value is at hand, is asked for, or there is none.
LEMMA ResolveRight ==
    ASSUME HubInv, AnswerInv, NEW p \in Clients, Resolve(p)
    PROVE  PlainStep(p)
<1>1. /\ req[p].pc = "resolve" /\ req[p].todo # << >> /\ Busy(req[p]) /\ UNCHANGED <<mounts, keyfiles>>
      /\ IsReq(req[p]) /\ req = [q \in Procs |-> req[q]] /\ p \in Procs /\ p # Boot
  BY BootOnly DEF Resolve, Busy, HubInv, ReqInv
<1>2. PICK plan : /\ plan = Plan(p, Head(req[p].todo))
                  /\ plan = Meant(scene, Ask(p).kind, req[p].stage, Head(req[p].todo))
  BY <1>1, ServesRight
<1>3. CASE plan.ask = "value"
  <2>1. Got(p, plan.answer)
    BY <1>1, <1>2, <1>3 DEF Resolve
  <2>2. Denotes(scene, plan) /\ plan.answer = Denoted(scene, plan)
    BY <1>3 DEF Denotes, Denoted
  <2>. QED
    BY <1>1, <1>2, <2>1, <2>2, GotRight
<1>4. ASSUME NEW pc \in {"getter", "kms"}, NEW x, req' = [req EXCEPT ![p].pc = pc, ![p].arg = x],
             pc = "getter" => plan.ask = "kbs" /\ plan.url = x,
             pc = "kms" => plan.ask = "kms" /\ plan.answer = x
      PROVE  PlainStep(p)
  <2>1. PICK r, n : r = req[p] /\ n = Sent(r, pc, x)
    OBVIOUS
  <2>2. n.pc = pc /\ n.arg = x /\ n.todo = r.todo /\ n.stage = r.stage
    BY <1>1, <2>1 DEF Sent, IsReq, ReqFields
  <2>3. WaitOK(scene, Ask(p), n)
    BY <1>1, <1>2, <1>4, <2>1, <2>2 DEF WaitOK
  <2>4. req' = [req EXCEPT ![p] = n]
    BY <1>1, <1>4, <2>1 DEF Sent
  <2>. QED
    BY <1>1, <2>1, <2>3, <2>4, WaitsRight
<1>5. CASE plan.ask = "kbs"
  <2>1. req' = [req EXCEPT ![p].pc = "getter", ![p].arg = plan.url]
    BY <1>1, <1>2, <1>5 DEF Resolve
  <2>. QED
    BY <1>4, <1>5, <2>1
<1>6. CASE plan.ask = "kms"
  <2>1. req' = [req EXCEPT ![p].pc = "kms", ![p].arg = plan.answer]
    BY <1>1, <1>2, <1>6 DEF Resolve
  <2>. QED
    BY <1>4, <1>6, <2>1
<1>7. CASE plan.ask \notin {"value", "kbs", "kms"}
  <2>1. Fails(p, FALSE)
    BY <1>1, <1>2, <1>7 DEF Resolve
  <2>2. Ask(p).want = Err
    <3>1. ~Denotes(scene, plan) /\ req[p].pc # "image"
      BY <1>1, <1>7 DEF Denotes
    <3>. QED
      BY <1>1, <1>2, <3>1, LacksRight
  <2>. QED
    BY <1>1, <2>1, <2>2, FailsRight
<1>. QED
  BY <1>3, <1>5, <1>6, <1>7

\* What a request that asks the KBS waits for.
LEMMA WaitsForKbs ==
    ASSUME HubInv, AnswerInv, NEW p \in Clients, req[p].pc \in {"getter", "secret", "held"}
    PROVE  /\ Busy(req[p]) /\ req[p].todo # << >>
           /\ \E plan : /\ plan = Meant(scene, Ask(p).kind, req[p].stage, Head(req[p].todo))
                        /\ plan.ask = "kbs" /\ plan.url = req[p].arg
           /\ req[p].pc = "held" => ClientOf(scene) = "cc"
<1>1. Busy(req[p])
  BY DEF Busy
<1>2. WaitOK(scene, Ask(p), req[p])
  BY <1>1, ServesRight, WorkParts
<1>. QED
  BY <1>1, <1>2 DEF WaitOK

\* The client of the KBS is there: whoever serves has it.
LEMMA GetterRight ==
    ASSUME HubInv, AnswerInv, NEW p \in Clients, NewGetter(p) \/ NewGetterFails(p) \/ GetSecret(p)
    PROVE  PlainStep(p)
<1>1. /\ req[p].pc \in {"getter", "secret"} /\ Busy(req[p]) /\ UNCHANGED <<mounts, keyfiles>>
      /\ IsReq(req[p]) /\ req = [q \in Procs |-> req[q]] /\ p \in Procs /\ p # Boot
  BY BootOnly DEF NewGetter, NewGetterFails, GetSecret, LegalUri, Busy, HubInv, ReqInv
<1>2. client # None /\ client # Err /\ client = ClientOf(scene)
  BY <1>1, ServesRight
<1>3. PICK pc \in {"secret", "held"} : /\ req' = [req EXCEPT ![p].pc = pc]
                                       /\ pc = "held" => client = "cc"
  BY <1>1, <1>2 DEF NewGetter, NewGetterFails, GetSecret
<1>4. PICK r, n : r = req[p] /\ n = Sent(r, pc, r.arg)
  OBVIOUS
<1>5. n.pc = pc /\ n.arg = r.arg /\ n.todo = r.todo /\ n.stage = r.stage
  BY <1>1, <1>4 DEF Sent, IsReq, ReqFields
<1>6. req' = [req EXCEPT ![p] = n]
  <2>1. n = [r EXCEPT !.pc = pc]
    BY <1>1, <1>4 DEF Sent, IsReq, ReqFields
  <2>. QED
    BY <1>1, <1>3, <1>4, <2>1
<1>7. WaitOK(scene, Ask(p), n)
  <2>1. r.todo # << >> /\ LET plan == Meant(scene, Ask(p).kind, r.stage, Head(r.todo))
                          IN plan.ask = "kbs" /\ plan.url = r.arg
    BY <1>1, <1>4, WaitsForKbs
  <2>. QED
    BY <1>2, <1>3, <1>5, <2>1 DEF WaitOK
<1>. QED
  BY <1>1, <1>4, <1>6, <1>7, WaitsRight

\* Without a value the request fails, with one it goes on.
LEMMA KbsAnswers ==
    ASSUME HubInv, AnswerInv, NEW p \in Clients, req[p].pc \in {"secret", "held"},
           UNCHANGED <<mounts, keyfiles>>, NEW v,
           \/ Fails(p, FALSE) /\ ~KbsHas(scene, req[p].arg)
           \/ Got(p, v) /\ KbsHas(scene, req[p].arg) /\ v = KbsValue(scene, req[p].arg)
    PROVE  PlainStep(p)
<1>1. Busy(req[p]) /\ req[p].todo # << >>
  BY WaitsForKbs
<1>2. PICK plan : /\ plan = Meant(scene, Ask(p).kind, req[p].stage, Head(req[p].todo))
                  /\ plan.ask = "kbs" /\ plan.url = req[p].arg
  BY WaitsForKbs
<1>3. CASE Fails(p, FALSE) /\ ~KbsHas(scene, req[p].arg)
  <2>1. ~Denotes(scene, plan) /\ req[p].pc # "image"
    BY <1>2, <1>3 DEF Denotes
  <2>2. Ask(p).want = Err
    BY <1>1, <1>2, <2>1, LacksRight
  <2>. QED
    BY <1>3, <2>2, FailsRight
<1>4. CASE Got(p, v) /\ KbsHas(scene, req[p].arg) /\ v = KbsValue(scene, req[p].arg)
  <2>1. Denotes(scene, plan) /\ v = Denoted(scene, plan)
    BY <1>2, <1>4 DEF Denotes, Denoted
  <2>. QED
    BY <1>1, <1>2, <1>4, <2>1, GotRight
<1>. QED
  BY <1>3, <1>4

LEMMA SecretRight ==
    ASSUME HubInv, AnswerInv, NEW p \in Clients, IllegalUri(p) \/ GetOffline(p)
    PROVE  PlainStep(p)
<1>1. req[p].pc = "secret" /\ UNCHANGED <<mounts, keyfiles>>
  BY DEF IllegalUri, GetOffline, LegalUri
<1>2. client = ClientOf(scene)
  BY <1>1, WaitsForKbs, ServesRight
<1>3. CASE IllegalUri(p)
  <2>1. Fails(p, FALSE) /\ ~KbsHas(scene, req[p].arg)
    BY <1>3 DEF IllegalUri, KbsHas
  <2>. QED
    BY <1>1, <2>1, KbsAnswers
<1>4. CASE GetOffline(p)
  <2>1. PICK v : v = OfflineFsGet(scene, PathOf(p))
    OBVIOUS
  <2>2. ResourceUriTryFrom(req[p].arg) # Err /\ ClientOf(scene) = "offline"
    BY <1>2, <1>4 DEF GetOffline, LegalUri
  <2>3. CASE v = Err
    <3>1. Fails(p, FALSE) /\ ~KbsHas(scene, req[p].arg)
      BY <1>4, <2>1, <2>2, <2>3 DEF GetOffline, KbsHas, PathOf
    <3>. QED
      BY <1>1, <3>1, KbsAnswers
  <2>4. CASE v # Err
    <3>1. Got(p, v)
      BY <1>4, <2>1, <2>4 DEF GetOffline
    <3>2. KbsHas(scene, req[p].arg) /\ v = KbsValue(scene, req[p].arg)
      BY <2>1, <2>2, <2>4 DEF KbsHas, KbsValue, PathOf
    <3>. QED
      BY <1>1, <3>1, <3>2, KbsAnswers
  <2>. QED
    BY <2>3, <2>4
<1>. QED
  BY <1>3, <1>4

\* The call of the KBS returns to the request that holds the client.
LEMMA ReturnsRight ==
    ASSUME HubInv, AnswerInv, NEW p \in Clients, ClientReturns(p)
    PROVE  PlainStep(p)
<1>1. req[p].pc = "held" /\ call.pc = "idle" /\ CallReturns(p) /\ UNCHANGED <<mounts, keyfiles>>
  BY DEF ClientReturns, At
<1>2. ClientOf(scene) = "cc"
  BY <1>1, WaitsForKbs
<1>3. owner = p /\ call.res = PathOf(p) /\ ResourceUriTryFrom(req[p].arg) # Err /\ p # None
  <2>1. p \in Procs
    BY BootOnly
  <2>. QED
    BY <1>1, <2>1, DataHubAssumption DEF HubInv, MutexInv, CallIsFor, Procs
<1>4. call.out \in Outs /\ call.out # "decryptError"
  BY <1>1, <1>3 DEF AnswerInv, CallInv, HubInv, TokenInv, TokenMatchesKey
<1>5. CASE call.out = "resource"
  <2>1. PICK v : v = Content[call.res]
    OBVIOUS
  <2>2. Got(p, v)
    BY <1>1, <1>5, <2>1 DEF CallReturns
  <2>3. KbsHas(scene, req[p].arg) /\ v = KbsValue(scene, req[p].arg)
    BY <1>2, <1>3, <1>5, <2>1 DEF KbsHas, KbsValue, PathOf, HubInv, TokenInv
  <2>. QED
    BY <1>1, <2>2, <2>3, KbsAnswers
<1>6. CASE call.out \in {"getTokenFailed", "httpError"}
           \/ (call.out = "unauthorized" /\ call.losses >= GetAttempts - 1)
  <2>1. PICK cause : cause = TRUE /\ Fails(p, cause)
    BY <1>1, <1>6 DEF CallReturns
  <2>. QED
    BY <1>1, <2>1, FailsRight
<1>7. CASE call.out = "notFound" \/ (call.out = "unauthorized" /\ ~(call.losses >= GetAttempts - 1))
  <2>1. Fails(p, FALSE)
    BY <1>1, <1>7 DEF CallReturns
  <2>2. call.res \in Absent \cup Denied
    BY <1>7 DEF AnswerInv, CallInv
  <2>3. ~KbsHas(scene, req[p].arg)
    BY <1>2, <1>3, <2>2 DEF KbsHas, PathOf
  <2>. QED
    BY <1>1, <2>1, <2>3, KbsAnswers
<1>. QED
  BY <1>4, <1>5, <1>6, <1>7 DEF Outs

LEMMA KmsRight ==
    ASSUME HubInv, AnswerInv, NEW p \in Clients, KmsAnswers(p) \/ KmsFails(p)
    PROVE  PlainStep(p)
<1>1. req[p].pc = "kms" /\ Busy(req[p]) /\ UNCHANGED <<mounts, keyfiles>>
  BY DEF KmsAnswers, KmsFails, Busy
<1>2. WaitOK(scene, Ask(p), req[p])
  BY <1>1, ServesRight, WorkParts
<1>3. PICK plan : /\ plan = Meant(scene, Ask(p).kind, req[p].stage, Head(req[p].todo))
                  /\ plan.ask = "kms" /\ plan.answer = req[p].arg
  BY <1>1, <1>2 DEF WaitOK
<1>4. req[p].todo # << >>
  BY <1>1, <1>2 DEF WaitOK
<1>5. CASE KmsFails(p)
  <2>1. PICK cause : cause = TRUE /\ Fails(p, cause)
    BY <1>5 DEF KmsFails
  <2>. QED
    BY <1>1, <2>1, FailsRight
<1>6. CASE KmsAnswers(p) /\ req[p].arg = Err
  <2>1. Fails(p, FALSE)
    BY <1>6 DEF KmsAnswers
  <2>2. ~Denotes(scene, plan) /\ req[p].pc # "image"
    BY <1>1, <1>3, <1>6 DEF Denotes
  <2>3. Ask(p).want = Err
    BY <1>1, <1>3, <1>4, <2>2, LacksRight
  <2>. QED
    BY <1>1, <2>1, <2>3, FailsRight
<1>7. CASE KmsAnswers(p) /\ req[p].arg # Err
  <2>1. PICK v : v = req[p].arg /\ Got(p, v)
    BY <1>7 DEF KmsAnswers
  <2>2. Denotes(scene, plan) /\ v = Denoted(scene, plan)
    BY <1>3, <1>7, <2>1 DEF Denotes, Denoted
  <2>. QED
    BY <1>1, <1>3, <1>4, <2>1, <2>2, GotRight
<1>. QED
  BY <1>5, <1>6, <1>7

\* A panic, and a pull's failure that is another party's.
LEMMA EndsRight ==
    ASSUME HubInv, AnswerInv, NEW p \in Clients, GetSev(p) \/ PullFails(p)
    PROVE  PlainStep(p)
<1>1. UNCHANGED <<mounts, keyfiles>>
  BY DEF GetSev, PullFails
<1>2. CASE PullFails(p)
  <2>1. PICK cause : cause = TRUE /\ Fails(p, cause)
    BY <1>2 DEF PullFails
  <2>. QED
    BY <1>1, <2>1, FailsRight
<1>3. CASE GetSev(p)
  <2>1. IsReq(req[p]) /\ req = [q \in Procs |-> req[q]] /\ p \in Procs /\ RecordOK(scene, Ask(p), req[p])
    BY BootOnly DEF HubInv, ReqInv, AnswerInv
  <2>2. PICK r, n : /\ r = req[p] /\ req' = [req EXCEPT ![p] = n]
                    /\ n = [EndedWith(r, None) EXCEPT !.pc = "panicked"]
    BY <1>3, <2>1 DEF GetSev
  <2>3. PICK s, a : s = scene /\ a = Ask(p)
    OBVIOUS
  <2>4. IsReq(r) /\ RecordOK(s, a, r)
    BY <2>1, <2>2, <2>3
  <2>5. RecordOK(s, a, n) /\ ~Busy(n)
    BY <2>2, <2>4, PanickedOK
  <2>6. req'[p] = n /\ n.pc # "new"
    <3>1. n.pc = "panicked"
      BY <2>2, <2>4 DEF EndedWith, IsReq, ReqFields
    <3>. QED
      BY <2>1, <2>2, <3>1
  <2>. QED
    BY <1>1, <2>3, <2>5, <2>6 DEF PlainStep
<1>. QED
  BY <1>2, <1>3

\* A step that ends with an answer that is wanted, or with an error that is.
LEMMA ConcludesRight ==
    ASSUME HubInv, AnswerInv, NEW p \in Clients, NEW v, v = Ask(p).want,
           req' = [req EXCEPT ![p] = IF v = Err THEN Failed(req[p], FALSE) ELSE Answered(req[p], v)]
    PROVE  RecordOK(scene, Ask(p), req'[p]) /\ ~Busy(req'[p]) /\ req'[p].pc = "done"
<1>1. IsReq(req[p]) /\ req = [q \in Procs |-> req[q]] /\ p \in Procs /\ RecordOK(scene, Ask(p), req[p])
  BY BootOnly DEF HubInv, ReqInv, AnswerInv
<1>2. PICK s, a, r : s = scene /\ a = Ask(p) /\ r = req[p]
  OBVIOUS
<1>3. PICK n : n = (IF v = Err THEN Failed(r, FALSE) ELSE Answered(r, v)) /\ req' = [req EXCEPT ![p] = n]
  BY <1>2
<1>4. req'[p] = n
  BY <1>1, <1>3
<1>5. IsReq(r) /\ RecordOK(s, a, r) /\ v = a.want
  BY <1>1, <1>2
<1>6. RecordOK(s, a, n) /\ ~Busy(n) /\ n.pc = "done"
  <2>1. CASE v = Err
    <3>1. n = Failed(r, FALSE) /\ a.want = Err
      BY <1>3, <1>5, <2>1
    <3>. QED
      BY <1>5, <3>1, FailedOK
  <2>2. CASE v # Err
    <3>1. n = Answered(r, v)
      BY <1>3, <2>2
    <3>. QED
      BY <1>5, <2>2, <3>1, AnsweredOK
  <2>. QED
    BY <2>1, <2>2
<1>. QED
  BY <1>2, <1>4, <1>6

LEMMA AnswerRight ==
    ASSUME HubInv, AnswerInv, NEW p \in Clients, Answer(p)
    PROVE  PlainStep(p)
<1>1. /\ req[p].pc = "resolve" /\ req[p].todo = << >> /\ Busy(req[p]) /\ UNCHANGED <<mounts, keyfiles>>
      /\ Ask(p).kind \in {"resource", "rest", "unseal", "unwrap"}
  BY DEF Answer, Resolved, Busy
<1>2. PICK s, a, r : s = scene /\ a = Ask(p) /\ r = req[p]
  OBVIOUS
<1>3. PICK v : v = IF Ask(p).kind = "unwrap" THEN Opened(p) ELSE req[p].got[1]
  OBVIOUS
<1>4. v = a.want
  <2>1. AtWork(s, p, a, r)
    BY <1>1, <1>2, ServesRight
  <2>2. v = IF a.kind = "unwrap"
            THEN (IF a.refs[1].provider = "kbs" THEN Packets!UnwrapPacket(a.refs[1], r.got[1]) ELSE r.got[1])
            ELSE r.got[1]
    BY <1>2, <1>3 DEF Opened
  <2>. QED
    BY <1>1, <1>2, <2>1, <2>2, AnswerIs
<1>5. req' = [req EXCEPT ![p] = IF v = Err THEN Failed(req[p], FALSE) ELSE Answered(req[p], v)]
  BY <1>3 DEF Answer
<1>6. RecordOK(scene, Ask(p), req'[p]) /\ ~Busy(req'[p]) /\ req'[p].pc = "done"
  BY <1>2, <1>4, <1>5, ConcludesRight
<1>. QED
  BY <1>1, <1>6 DEF PlainStep

LEMMA PullReturnsRight ==
    ASSUME HubInv, AnswerInv, NEW p \in Clients, PullReturns(p)
    PROVE  PlainStep(p)
<1>1. /\ req[p].pc = "resolve" /\ req[p].todo = << >> /\ Busy(req[p]) /\ UNCHANGED <<mounts, keyfiles>>
      /\ req[p].stage = "pulling"
  BY DEF PullReturns, Resolved, Busy
<1>2. PICK s, a, r : s = scene /\ a = Ask(p) /\ r = req[p]
  OBVIOUS
<1>3. PICK open : open = \A i \in DOMAIN a.refs : Packets!UnwrapPacket(a.refs[i], r.got[i]) # Err
  OBVIOUS
<1>4. a.want = IF open THEN a.image ELSE Err
  <2>1. AtWork(s, p, a, r)
    BY <1>1, <1>2, ServesRight
  <2>2. r.todo = << >> /\ r.pc = "resolve" /\ r.stage = "pulling"
    BY <1>1, <1>2
  <2>3. a.want = IF \A i \in DOMAIN a.refs : Packets!UnwrapPacket(a.refs[i], r.got[i]) # Err
                 THEN a.image ELSE Err
    BY <2>1, <2>2, PullIs
  <2>. QED
    BY <1>3, <2>3
<1>5. IsReq(r) /\ req = [q \in Procs |-> req[q]] /\ p \in Procs /\ RecordOK(s, a, r)
  BY <1>2, BootOnly DEF HubInv, ReqInv, AnswerInv
<1>6. PICK n : /\ req' = [req EXCEPT ![p] = n]
               /\ n = IF open THEN Answered(r, a.image) ELSE Failed(r, FALSE)
  BY <1>2, <1>3 DEF PullReturns
<1>7. RecordOK(s, a, n) /\ ~Busy(n) /\ n.pc = "done"
  <2>0. a.kind # "rest"
    BY <1>1, <1>2 , <1>5 DEF RecordOK, StageOK
  <2>1. CASE open
    <3>1. PICK v : v = a.image /\ v = a.want /\ n = Answered(r, v)
      BY <1>4, <1>6, <2>1
    <3>. QED
      BY <1>5, <2>0, <3>1, AnsweredOK
  <2>2. CASE ~open
    <3>1. n = Failed(r, FALSE) /\ a.want = Err
      BY <1>4, <1>6, <2>2
    <3>. QED
      BY <1>5, <3>1, FailedOK
  <2>. QED
    BY <2>1, <2>2
<1>8. req'[p] = n
  BY <1>5, <1>6
<1>. QED
  BY <1>1, <1>2, <1>7, <1>8 DEF PlainStep

-----------------------------------------------------------------------------
(* A request begins to resolve, and the steps around the image client.      *)

\* Nothing is resolved yet: the references of the stage are to do.
LEMMA EntersOK ==
    ASSUME NEW s \in Scenes, NEW p \in Clients, NEW a, a = s.ask[p], a.kind \in Kinds,
           a.kind = "rest" => Forwarded(s, a), NEW n, NEW refs, NEW stage,
           n.pc = "resolve", n.todo = refs, n.got = << >>, n.stage = stage,
           a.kind = "pull" => stage \in {"init", "pulling"}, a.kind # "pull" => stage = "none",
           stage = "pulling" => AllHave(s, a, "init"), a.kind = "oss" => n.tmp = FALSE,
           refs = IF a.kind = "oss" THEN a.refs ELSE References(a, s.imageConfig, stage)
    PROVE  RecordOK(s, a, n) /\ Busy(n) /\ (a.kind = "oss" => Reached(n) = 2)
<1>1. PICK all : all = References(a, s.imageConfig, stage) /\ all = RefsOf(s, a, n)
  BY DEF RefsOf
<1>2. /\ IsList(all)
      /\ a.kind = "oss" => /\ IsList(a.refs) /\ Len(a.refs) = 2
                           /\ all[1] = a.refs[1] /\ all[2] = a.refs[2]
  <2>1. PICK t : t = References(a, s.imageConfig, stage)
    OBVIOUS
  <2>2. /\ IsList(t)
        /\ a.kind = "oss" => IsList(a.refs) /\ Len(a.refs) = 2 /\ t[1] = a.refs[1] /\ t[2] = a.refs[2]
    BY <2>1, ReferencesList
  <2>. QED
    BY <1>1, <2>1, <2>2
<1>3. IsList(refs) /\ Len(refs) \in Nat /\ Len(n.got) = 0 /\ IsList(n.got)
  BY <1>1, <1>2, ListLength, EmptyList
<1>4. \A i \in 1..Len(refs) : refs[i] = all[i]
  <2>1. CASE a.kind = "oss"
    <3>1. Len(refs) = 2 /\ refs = a.refs
      BY <1>2, <2>1
    <3>. QED
      BY <1>2, <2>1, <3>1
  <2>2. CASE a.kind # "oss"
    BY <1>1, <2>2
  <2>. QED
    BY <2>1, <2>2
<1>5. Reached(n) = Len(refs)
  <2>1. PICK k \in Nat : k = Len(refs)
    BY <1>3
  <2>2. Len(n.got) = 0 /\ Len(n.todo) = k
    BY <1>3, <2>1
  <2>. QED
    BY <2>1, <2>2 DEF Reached
<1>6. KindOK(s, a, n)
  BY DEF KindOK, Kinds
<1>7. LengthOK(s, a, n) /\ (a.kind = "oss" => Reached(n) = 2)
  <2>1. CASE a.kind = "oss"
    <3>1. Reached(n) = 2
      BY <1>2, <1>5, <2>1
    <3>. QED
      BY <2>1, <3>1 DEF LengthOK
  <2>2. CASE a.kind # "oss"
    <3>1. Reached(n) = Len(RefsOf(s, a, n))
      BY <1>1, <1>5, <2>2
    <3>. QED
      BY <2>2, <3>1 DEF LengthOK
  <2>. QED
    BY <2>1, <2>2
<1>8. GotOK(s, a, n)
  <2>1. ASSUME NEW i \in 1..Len(n.todo) PROVE n.todo[i] = RefsOf(s, a, n)[Len(n.got) + i]
    <3>1. i \in Nat /\ Len(n.got) + i = i
      BY <1>3
    <3>. QED
      BY <1>1, <1>4, <3>1
  <2>. QED
    BY <1>3, <2>1 DEF GotOK
<1>9. WaitOK(s, a, n) /\ DoneOK(a, n) /\ StageOK(s, a, n)
  BY DEF WaitOK, DoneOK, StageOK
<1>. QED
  BY <1>6, <1>7, <1>8, <1>9 DEF RecordOK, Busy

\* Before and between the references of a pull.
LEMMA ImageOK ==
    ASSUME NEW s, NEW a, a.kind = "pull", NEW n, n.pc = "image", n.todo = << >>, n.got = << >>,
           n.stage = "none" \/ (n.stage = "made" /\ AllHave(s, a, "init"))
    PROVE  RecordOK(s, a, n) /\ Busy(n)
<1>1. GotOK(s, a, n)
  BY EmptyList DEF GotOK
<1>2. KindOK(s, a, n) /\ LengthOK(s, a, n) /\ WaitOK(s, a, n) /\ DoneOK(a, n) /\ StageOK(s, a, n)
  BY DEF KindOK, LengthOK, WaitOK, DoneOK, StageOK
<1>. QED
  BY <1>1, <1>2 DEF RecordOK, Busy

\* What any step of a client's request keeps: its record, its mounts and what
\* it leaves are right, and others' key files stay.
GoodStep(p) ==
    /\ RecordOK(scene, Ask(p), req'[p]) /\ req'[p].pc # "new"
    /\ mounts \subseteq mounts' /\ \A m \in mounts' \ mounts : m.by = p /\ Backed(Ask(p), m, mounts')
    /\ \A q \in Clients : q # p /\ q \in DOMAIN keyfiles => q \in DOMAIN keyfiles' /\ keyfiles'[q] = keyfiles[q]
    /\ Busy(req'[p]) => hub = "serving"
    /\ LeftOK(p)'

FilesStay(p) ==
    \A q \in Clients : q # p /\ q \in DOMAIN keyfiles => q \in DOMAIN keyfiles' /\ keyfiles'[q] = keyfiles[q]

\* A mount or a key file is needed only by what the request goes on to do.
LEMMA LeftNothing ==
    ASSUME NEW p \in Clients, scene' = scene,
           ~Busy(req'[p]) \/ Ask(p).kind \notin {"oss", "luks"}
                          \/ (Ask(p).kind = "oss" /\ Reached(req'[p]) # 3)
    PROVE  LeftOK(p)'
BY DEF LeftOK, Ask

LEMMA LeftStays ==
    ASSUME NEW p \in Clients, LeftOK(p), scene' = scene, UNCHANGED keyfiles, mounts \subseteq mounts',
           Busy(req'[p]) => Busy(req[p]) /\ Reached(req'[p]) = Reached(req[p]),
           req'[p].pc = "command" /\ Ask(p).kind = "luks" => req[p].pc = "command" /\ req'[p].got = req[p].got
    PROVE  LeftOK(p)'
<1>1. Ask(p)' = Ask(p) /\ OssfsDir(p)' = OssfsDir(p)
  BY DEF Ask, OssfsDir, Encrypted
<1>2. OnBucket(p) => OnBucket(p)'
  BY <1>1 DEF OnBucket
<1>. QED
  BY <1>1, <1>2 DEF LeftOK

LEMMA PlainIsGood ==
    ASSUME HubInv, AnswerInv, NEW p \in Clients, PlainStep(p), scene' = scene
    PROVE  GoodStep(p)
<1>1. UNCHANGED <<mounts, keyfiles>> /\ LeftOK(p)
  BY DEF PlainStep, AnswerInv
<1>2. /\ Busy(req'[p]) => Busy(req[p]) /\ Reached(req'[p]) = Reached(req[p])
      /\ req'[p].pc # "command"
  BY DEF PlainStep, Busy
<1>3. LeftOK(p)'
  BY <1>1, <1>2, LeftStays
<1>4. Busy(req'[p]) => hub = "serving"
  BY <1>2 DEF AnswerInv, ProcessInv
<1>. QED
  BY <1>1, <1>3, <1>4 DEF PlainStep, GoodStep

LEMMA EntersGood ==
    ASSUME HubInv, AnswerInv, NEW p \in Clients, Receive(p)
    PROVE  GoodStep(p)
<1>1. /\ hub = "serving" /\ req[p].pc = "new" /\ UNCHANGED <<mounts, scene>>
      /\ Ask(p).kind \notin {"rest", "cli", "otherVolume", "pull"}
      /\ req = [q \in Procs |-> req[q]] /\ p \in Procs /\ scene \in Scenes
  BY BootOnly DEF Receive, HubInv, ReqInv, BootInv
<1>2. PICK s, a : s = scene /\ a = Ask(p)
  OBVIOUS
<1>3. a = s.ask[p] /\ a.kind \in {"resource", "unseal", "unwrap", "oss", "luks"} /\ s \in Scenes
  <2>1. WantsRight(s, p) /\ a = s.ask[p]
    BY <1>1, <1>2, AskedRight DEF Ask
  <2>. QED
    BY <1>1, <1>2, <2>1 DEF WantsRight
<1>4. req[p] = Fresh
  BY <1>1 DEF AnswerInv, RecordOK, StageOK
<1>5. PICK n : n = [Fresh EXCEPT !.pc = "resolve", !.todo = a.refs] /\ req'[p] = n
  BY <1>1, <1>2, <1>4 DEF Receive
<1>6. n.pc = "resolve" /\ n.todo = a.refs /\ n.got = << >> /\ n.stage = "none" /\ n.tmp = FALSE
  BY <1>5 DEF Fresh
<1>7. a.refs = IF a.kind = "oss" THEN a.refs ELSE References(a, s.imageConfig, "none")
  BY <1>3 DEF References
<1>8. RecordOK(s, a, n) /\ Busy(n) /\ (a.kind = "oss" => Reached(n) = 2)
  BY <1>3, <1>6, <1>7, EntersOK DEF Kinds
<1>9. /\ \A q \in Clients : q # p /\ q \in DOMAIN keyfiles => q \in DOMAIN keyfiles' /\ keyfiles'[q] = keyfiles[q]
      /\ a.kind = "luks" => p \in DOMAIN keyfiles'
  BY <1>2 DEF Receive, KeyFile
<1>10. LeftOK(p)'
  BY <1>1, <1>2, <1>5, <1>6, <1>8, <1>9 DEF LeftOK, Ask
<1>. QED
  BY <1>1, <1>2, <1>5, <1>6, <1>8, <1>9, <1>10 DEF GoodStep

\* A volume of another kind, and secret_cli, which is a process of its own.
LEMMA EndsAtOnce ==
    ASSUME HubInv, AnswerInv, NEW p \in Clients, ReceiveOtherVolume(p) \/ SecretCli(p)
    PROVE  PlainStep(p)
<1>1. UNCHANGED <<mounts, keyfiles>> /\ scene \in Scenes
  BY DEF ReceiveOtherVolume, SecretCli, HubInv, BootInv
<1>2. PICK s, a : s = scene /\ a = Ask(p)
  OBVIOUS
<1>3. WantsRight(s, p) /\ a = s.ask[p]
  BY <1>1, <1>2, AskedRight DEF Ask
<1>4. CASE ReceiveOtherVolume(p)
  <2>1. Fails(p, FALSE) /\ a.kind = "otherVolume"
    BY <1>2, <1>4 DEF ReceiveOtherVolume
  <2>2. a.want = Err
    BY <1>3, <2>1 DEF WantsRight
  <2>. QED
    BY <1>1, <1>2, <2>1, <2>2, FailsRight
<1>5. CASE SecretCli(p)
  <2>1. PICK v : v = CliResult(CliUnseal(a.refs[1], a.keyPath, s.vault, a.exists))
    OBVIOUS
  <2>2. /\ req' = [req EXCEPT ![p] = IF v = Err THEN Failed(req[p], FALSE) ELSE Answered(req[p], v)]
        /\ a.kind = "cli"
    BY <1>2, <1>5, <2>1 DEF SecretCli
  <2>3. v = Ask(p).want
    BY <1>2, <1>3, <2>1, <2>2 DEF WantsRight
  <2>4. RecordOK(scene, Ask(p), req'[p]) /\ ~Busy(req'[p]) /\ req'[p].pc = "done"
    BY <2>2, <2>3, ConcludesRight
  <2>. QED
    BY <1>1, <2>4 DEF PlainStep
<1>. QED
  BY <1>4, <1>5

\* A step of a pull around the image client leaves nothing in the guest.
LEMMA PullGood ==
    ASSUME HubInv, AnswerInv, NEW p \in Clients, Ask(p).kind = "pull", NEW n, req' = [req EXCEPT ![p] = n],
           RecordOK(scene, Ask(p), n), n.pc # "new", hub = "serving", UNCHANGED <<mounts, keyfiles, scene>>
    PROVE  GoodStep(p)
<1>1. req'[p] = n
  BY BootOnly DEF HubInv, ReqInv
<1>2. LeftOK(p)'
  BY LeftNothing
<1>. QED
  BY <1>1, <1>2 DEF GoodStep

LEMMA ImageGood ==
    ASSUME HubInv, AnswerInv, NEW p \in Clients,
           ReceivePull(p) \/ InitializeImageClient(p) \/ ImageClientReady(p) \/ LockImageClient(p)
    PROVE  GoodStep(p)
<1>1. /\ UNCHANGED <<mounts, keyfiles, scene>> /\ scene \in Scenes
      /\ IsReq(req[p]) /\ req = [q \in Procs |-> req[q]] /\ p \in Procs
  BY BootOnly DEF ReceivePull, InitializeImageClient, ImageClientReady, LockImageClient, HubInv, ReqInv, BootInv
<1>2. PICK s, a, r : s = scene /\ a = Ask(p) /\ r = req[p]
  OBVIOUS
<1>3. a = s.ask[p] /\ s \in Scenes /\ IsReq(r)
  BY <1>1, <1>2 DEF Ask
<1>4. CASE ReceivePull(p)
  <2>1. r = Fresh /\ a.kind = "pull" /\ hub = "serving"
    BY <1>2, <1>4 DEF ReceivePull, AnswerInv, RecordOK, StageOK
  <2>2. PICK n : n = [r EXCEPT !.pc = "image"] /\ req' = [req EXCEPT ![p] = n]
    BY <1>1, <1>2, <1>4 DEF ReceivePull
  <2>3. n.pc = "image" /\ n.todo = << >> /\ n.got = << >> /\ n.stage = "none"
    BY <2>1, <2>2 DEF Fresh
  <2>4. RecordOK(s, a, n)
    BY <2>1, <2>3, ImageOK
  <2>. QED
    BY <1>1, <1>2, <2>1, <2>2, <2>3, <2>4, PullGood
<1>5. CASE ~ReceivePull(p)
  <2>1. Busy(r)
    BY <1>2, <1>5 DEF InitializeImageClient, ImageClientReady, LockImageClient, Resolved, Busy
  <2>2. AtWork(s, p, a, r) /\ hub = "serving"
    BY <1>2, <2>1, ServesRight
  <2>3. KindOK(s, a, r) /\ LengthOK(s, a, r)
    BY <2>2, WorkParts
  <2>4. CASE ImageClientReady(p)
    <3>1. r.pc = "resolve" /\ r.todo = << >> /\ r.stage = "init"
      BY <1>2, <2>4 DEF ImageClientReady, Resolved
    <3>2. a.kind = "pull"
      BY <2>3, <3>1 DEF KindOK
    <3>3. PICK n : /\ n = [r EXCEPT !.pc = "image", !.stage = "made", !.got = << >>]
                   /\ req' = [req EXCEPT ![p] = n]
      BY <1>1, <1>2, <2>4 DEF ImageClientReady
    <3>4. n.pc = "image" /\ n.todo = << >> /\ n.got = << >> /\ n.stage = "made"
      BY <1>3, <3>1, <3>3 DEF IsReq, ReqFields
    <3>5. AllHave(s, a, "init")
      <4>1. Reached(r) = Len(RefsOf(s, a, r))
        BY <2>3, <3>1, <3>2 DEF LengthOK
      <4>2. AllHave(s, a, r.stage)
        BY <2>2, <3>1, <4>1, ResolvedHas
      <4>. QED
        BY <3>1, <4>2
    <3>6. RecordOK(s, a, n)
      BY <3>2, <3>4, <3>5, ImageOK
    <3>. QED
      BY <1>1, <1>2, <2>2, <3>2, <3>3, <3>4, <3>6, PullGood
  <2>5. ASSUME NEW stage \in {"init", "pulling"}, NEW refs, r.pc = "image",
               refs = References(a, s.imageConfig, stage),
               req' = [req EXCEPT ![p].pc = "resolve", ![p].stage = stage, ![p].todo = refs],
               stage = "pulling" => AllHave(s, a, "init")
        PROVE  GoodStep(p)
    <3>1. a.kind = "pull" /\ r.got = << >>
      BY <2>3, <2>5 DEF KindOK
    <3>2. PICK n : /\ n = [r EXCEPT !.pc = "resolve", !.stage = stage, !.todo = refs]
                   /\ req' = [req EXCEPT ![p] = n]
      BY <1>1, <1>2, <2>5
    <3>3. n.pc = "resolve" /\ n.todo = refs /\ n.got = << >> /\ n.stage = stage
      BY <1>3, <3>1, <3>2 DEF IsReq, ReqFields
    <3>4. RecordOK(s, a, n)
      BY <1>3, <2>5, <3>1, <3>3, EntersOK DEF Kinds
    <3>. QED
      BY <1>1, <1>2, <2>2, <3>1, <3>2, <3>3, <3>4, PullGood
  <2>6. CASE InitializeImageClient(p)
    <3>1. r.pc = "image"
      BY <1>2, <2>6 DEF InitializeImageClient
    <3>2. References(a, s.imageConfig, "init") = s.imageConfig
      BY <2>3, <3>1 DEF KindOK, References
    <3>. QED
      BY <1>2, <2>5, <2>6, <3>1, <3>2 DEF InitializeImageClient
  <2>7. CASE LockImageClient(p)
    <3>1. r.pc = "image" /\ a.kind = "pull"
      BY <1>2, <2>3, <2>7 DEF LockImageClient, KindOK
    <3>2. References(a, s.imageConfig, "pulling") = a.refs
      BY <3>1 DEF References
    <3>3. AllHave(s, a, "init")
      <4>1. PICK q \in Clients : req[q].stage \in {"made", "pulling"}
        BY <2>7 DEF LockImageClient, ImageClientMade
      <4>2. PICK b : b = Ask(q)
        OBVIOUS
      <4>3. b.kind = "pull" /\ AllHave(s, b, "init")
        BY <1>2, <4>1, <4>2 DEF AnswerInv, RecordOK, StageOK
      <4>. QED
        BY <3>1, <4>3, BuildSame
    <3>. QED
      BY <1>2, <2>5, <2>7, <3>1, <3>2, <3>3 DEF LockImageClient
  <2>. QED
    BY <1>5, <2>4, <2>6, <2>7
<1>. QED
  BY <1>4, <1>5

-----------------------------------------------------------------------------
(* The commands that mount.                                                 *)

\* What the command of a bucket has been given.
LEMMA CommandHas ==
    ASSUME NEW s, NEW p, NEW a, NEW r, AtWork(s, p, a, r), r.pc = "command"
    PROVE  /\ a.kind \in {"oss", "luks"} /\ r.todo = << >> /\ r.stage = "none"
           /\ Reached(r) = Len(r.got) /\ Len(r.got) \in Nat
           /\ a.kind = "oss" => r.tmp /\ (Len(r.got) = 2 \/ (Len(r.got) = 3 /\ a.encrypted))
<1>1. a.kind \in {"oss", "luks"} /\ r.todo = << >> /\ r.stage = "none"
  BY WorkParts DEF KindOK
<1>2. PICK g : g = Len(r.got)
  OBVIOUS
<1>3. g \in Nat /\ Len(r.todo) = 0
  BY <1>1, <1>2, WorkLengths, EmptyList
<1>4. Reached(r) = g
  BY <1>2, <1>3 DEF Reached
<1>5. LengthOK(s, a, r)
  BY WorkParts
<1>6. a.kind = "oss" => r.tmp /\ (Reached(r) = 2 \/ (Reached(r) = 3 /\ a.encrypted))
  BY <1>5 DEF LengthOK
<1>. QED
  BY <1>1, <1>2, <1>3, <1>4, <1>6

\* With everything resolved, the command is started.
LEMMA CommandOK ==
    ASSUME NEW s, NEW p, NEW a, NEW r, AtWork(s, p, a, r), r.pc = "resolve", r.todo = << >>,
           a.kind \in {"oss", "luks"}, NEW n, n.pc = "command", n.todo = r.todo, n.got = r.got,
           n.stage = r.stage, a.kind = "oss" => n.tmp
    PROVE  RecordOK(s, a, n) /\ Busy(n) /\ Reached(n) = Reached(r)
<1>1. /\ KindOK(s, a, r) /\ LengthOK(s, a, r) /\ GotOK(s, a, r) /\ StageOK(s, a, r)
  BY WorkParts
<1>2. RefsOf(s, a, n) = RefsOf(s, a, r) /\ Reached(n) = Reached(r)
  BY DEF RefsOf, Reached
<1>3. GotOK(s, a, n)
  BY <1>1, <1>2 DEF GotOK
<1>4. KindOK(s, a, n) /\ WaitOK(s, a, n) /\ DoneOK(a, n) /\ StageOK(s, a, n)
  BY <1>1 DEF KindOK, WaitOK, DoneOK, StageOK
<1>5. LengthOK(s, a, n)
  BY <1>1, <1>2 DEF LengthOK
<1>. QED
  BY <1>2, <1>3, <1>4, <1>5 DEF RecordOK, Busy

\* A mounted bucket that is encrypted: the password is to be resolved.
LEMMA PasswordOK ==
    ASSUME NEW s, NEW p, NEW a, NEW r, AtWork(s, p, a, r), r.pc = "command", a.kind = "oss",
           a.encrypted, Len(r.got) = 2, NEW n, n.pc = "resolve", n.todo = <<a.encPasswd>>, n.got = r.got,
           n.stage = r.stage, n.tmp = r.tmp
    PROVE  RecordOK(s, a, n) /\ Busy(n) /\ Reached(n) = 3
<1>1. /\ KindOK(s, a, r) /\ GotOK(s, a, r) /\ StageOK(s, a, r) /\ r.tmp /\ r.stage = "none"
  BY WorkParts, CommandHas
<1>2. PICK refs : refs = RefsOf(s, a, r) /\ refs = RefsOf(s, a, n) /\ refs = References(a, s.imageConfig, "none")
  BY <1>1 DEF RefsOf
<1>3. refs[3] = a.encPasswd
  BY <1>2, WorkParts, ReferencesList
<1>4. IsList(n.todo) /\ Len(n.todo) = 1 /\ n.todo[1] = a.encPasswd
  BY OneList
<1>5. Reached(n) = 3 /\ Len(n.got) = 2
  <2>1. PICK g, k : g = Len(n.got) /\ k = Len(n.todo)
    OBVIOUS
  <2>2. g = 2 /\ k = 1
    BY <1>4, <2>1
  <2>3. Reached(n) = g + k
    BY <2>1 DEF Reached
  <2>. QED
    BY <2>1, <2>2, <2>3
<1>6. GotOK(s, a, n)
  <2>1. ASSUME NEW i \in 1..Len(n.todo) PROVE n.todo[i] = RefsOf(s, a, n)[Len(n.got) + i]
    <3>1. i = 1
      BY <1>4
    <3>2. Len(n.got) + i = 3
      <4>1. PICK g : g = Len(n.got)
        OBVIOUS
      <4>2. g = 2
        BY <1>5, <4>1
      <4>3. g + i = 3
        BY <3>1, <4>2
      <4>. QED
        BY <4>1, <4>3
    <3>. QED
      BY <1>2, <1>3, <1>4, <3>1, <3>2
  <2>2. /\ IsList(n.got)
        /\ \A i \in 1..Len(n.got) : /\ HasValue(s, a, n.stage, RefsOf(s, a, n)[i])
                                    /\ n.got[i] = ValueOf(s, a, n.stage, RefsOf(s, a, n)[i])
    BY <1>1, <1>2 DEF GotOK
  <2>. QED
    BY <1>4, <2>1, <2>2 DEF GotOK
<1>7. KindOK(s, a, n) /\ WaitOK(s, a, n) /\ DoneOK(a, n) /\ StageOK(s, a, n)
  BY <1>1 DEF KindOK, WaitOK, DoneOK, StageOK
<1>8. LengthOK(s, a, n)
  BY <1>1, <1>5 DEF LengthOK
<1>. QED
  BY <1>5, <1>6, <1>7, <1>8 DEF RecordOK, Busy

\* What a command mounts is backed, also when its handler is dropped.
LEMMA CommandMounts ==
    ASSUME HubInv, AnswerInv, NEW p \in Clients, req[p].pc = "command", NEW m \in GoesOn(p),
           NEW all, mounts \subseteq all
    PROVE  m.by = p /\ Backed(Ask(p), m, all)
<1>1. PICK s, a, r : s = scene /\ a = Ask(p) /\ r = req[p]
  OBVIOUS
<1>2. AtWork(s, p, a, r) /\ r.pc = "command" /\ Busy(req[p])
  <2>1. Busy(req[p])
    BY DEF Busy
  <2>. QED
    BY <1>1, <2>1, ServesRight
<1>3. /\ a.kind \in {"oss", "luks"} /\ Reached(r) = Len(r.got)
      /\ a.kind = "oss" => Len(r.got) = 2 \/ (Len(r.got) = 3 /\ a.encrypted)
  BY <1>2, CommandHas
<1>4. LeftOK(p)
  BY DEF AnswerInv
<1>5. CASE a.kind = "luks"
  <2>1. m = [fs |-> "luks", at |-> a.target, over |-> None, by |-> p, with |-> <<r.got[1]>>]
    <3>1. keyfiles[p] = r.got[1]
      BY <1>1, <1>2, <1>4, <1>5 DEF LeftOK
    <3>2. m = LuksMount(p)
      BY <1>1, <1>2, <1>5 DEF GoesOn
    <3>. QED
      BY <1>1, <3>1, <3>2 DEF LuksMount
  <2>2. Backed(a, m, all)
    BY <1>2, <1>5, <2>1, LuksBacked
  <2>. QED
    BY <1>1, <2>1, <2>2
<1>6. CASE a.kind = "oss" /\ OnGocryptfs(p)
  <2>1. PICK dir : dir = OssfsDir(p)
    OBVIOUS
  <2>2. m = [fs |-> "gocryptfs", at |-> a.target, over |-> dir, by |-> p, with |-> SubSeq(r.got, 3, 3)]
    <3>1. m = GocryptfsMount(p)
      BY <1>1, <1>2, <1>6 DEF GoesOn
    <3>. QED
      BY <1>1, <2>1, <3>1 DEF GocryptfsMount
  <2>3. Len(r.got) = 3 /\ a.encrypted
    BY <1>1, <1>6 DEF OnGocryptfs, Encrypted
  <2>4. \E o \in all : o.fs = "ossfs" /\ o.at = dir /\ o.by = p
    <3>1. Reached(req[p]) = 3
      BY <1>1, <1>3, <2>3
    <3>2. OnBucket(p)
      BY <1>1, <1>2, <1>4, <1>6, <3>1 DEF LeftOK
    <3>. QED
      BY <2>1, <3>2 DEF OnBucket
  <2>5. Backed(a, m, all)
    BY <1>2, <1>6, <2>2, <2>3, <2>4, GocryptfsBacked
  <2>. QED
    BY <1>1, <2>2, <2>5
<1>7. CASE a.kind = "oss" /\ ~OnGocryptfs(p)
  <2>1. m = [fs |-> "ossfs", at |-> IF a.encrypted THEN [tmp |-> p] ELSE a.target, over |-> None,
             by |-> p, with |-> SubSeq(r.got, 1, 2)]
    <3>1. m = OssfsMount(p)
      BY <1>1, <1>2, <1>7 DEF GoesOn
    <3>. QED
      BY <1>1, <3>1 DEF OssfsMount, OssfsDir, Encrypted
  <2>2. Len(r.got) = 2
    BY <1>1, <1>3, <1>7 DEF OnGocryptfs, Encrypted
  <2>3. Backed(a, m, all)
    BY <1>2, <1>7, <2>1, <2>2, OssfsBacked
  <2>. QED
    BY <1>1, <2>1, <2>3
<1>. QED
  BY <1>3, <1>5, <1>6, <1>7

\* The passwords and the key are written, and the command is started.
LEMMA CommandGood ==
    ASSUME HubInv, AnswerInv, NEW p \in Clients,
           WriteOssfsPasswd(p) \/ WriteGocryptfsPasswd(p) \/ WriteStorageKey(p)
    PROVE  GoodStep(p)
<1>1. /\ UNCHANGED <<mounts, scene>> /\ req[p].pc = "resolve" /\ req[p].todo = << >> /\ Busy(req[p])
      /\ IsReq(req[p]) /\ req = [q \in Procs |-> req[q]] /\ p \in Procs
      /\ Ask(p).kind \in {"oss", "luks"} /\ LeftOK(p)
  BY BootOnly DEF WriteOssfsPasswd, WriteGocryptfsPasswd, WriteStorageKey, Resolved, Busy, HubInv, ReqInv, AnswerInv
<1>2. PICK s, a, r : s = scene /\ a = Ask(p) /\ r = req[p]
  OBVIOUS
<1>3. AtWork(s, p, a, r) /\ hub = "serving"
  BY <1>1, <1>2, ServesRight
<1>4. LengthOK(s, a, r)
  BY <1>3, WorkParts
<1>5. PICK n : n = req'[p]
  OBVIOUS
<1>6. /\ n.pc = "command" /\ n.todo = r.todo /\ n.got = r.got /\ n.stage = r.stage
      /\ a.kind = "oss" => n.tmp
  <2>1. CASE WriteOssfsPasswd(p)
    <3>1. n = [r EXCEPT !.pc = "command", !.tmp = TRUE]
      BY <1>1, <1>2, <1>5, <2>1 DEF WriteOssfsPasswd
    <3>2. n.tmp = TRUE
      BY <1>1, <1>2, <3>1 DEF IsReq, ReqFields
    <3>. QED
      BY <1>1, <1>2, <3>1, <3>2 DEF IsReq, ReqFields
  <2>2. CASE WriteGocryptfsPasswd(p) \/ WriteStorageKey(p)
    <3>1. n = [r EXCEPT !.pc = "command"] /\ (a.kind = "oss" => r.tmp)
      BY <1>1, <1>2, <1>5, <2>2 DEF WriteGocryptfsPasswd, WriteStorageKey
    <3>2. n.tmp = r.tmp
      BY <1>1, <1>2, <3>1 DEF IsReq, ReqFields
    <3>. QED
      BY <1>1, <1>2, <3>1, <3>2 DEF IsReq, ReqFields
  <2>. QED
    BY <2>1, <2>2
<1>7. RecordOK(s, a, n) /\ Busy(n) /\ Reached(n) = Reached(r)
  BY <1>1, <1>2, <1>3, <1>6, CommandOK
<1>8. /\ \A q \in Clients : q # p /\ q \in DOMAIN keyfiles => q \in DOMAIN keyfiles' /\ keyfiles'[q] = keyfiles[q]
      /\ LeftOK(p)'
  <2>1. CASE WriteOssfsPasswd(p)
    <3>1. keyfiles' = keyfiles /\ a.kind = "oss" /\ ~r.tmp
      BY <1>2, <2>1 DEF WriteOssfsPasswd
    <3>2. Reached(r) = 2
      BY <1>4, <3>1 DEF LengthOK
    <3>3. Reached(req'[p]) # 3
      BY <1>5, <1>7, <3>2
    <3>. QED
      BY <1>1, <1>2, <3>1, <3>3, LeftNothing
  <2>2. CASE WriteGocryptfsPasswd(p)
    <3>1. keyfiles' = keyfiles /\ a.kind = "oss"
      BY <1>2, <2>2 DEF WriteGocryptfsPasswd
    <3>. QED
      BY <1>1, <1>2, <1>5, <1>7, <3>1, LeftStays
  <2>3. CASE WriteStorageKey(p)
    <3>1. keyfiles' = KeyFile(p, r.got[1]) /\ a.kind = "luks"
      BY <1>2, <2>3 DEF WriteStorageKey
    <3>2. p \in DOMAIN keyfiles' /\ keyfiles'[p] = req'[p].got[1]
      BY <1>5, <1>6, <3>1 DEF KeyFile
    <3>3. Ask(p)'.kind = "luks"
      BY <1>1, <1>2, <3>1 DEF Ask
    <3>4. LeftOK(p)'
      BY <3>2, <3>3 DEF LeftOK
    <3>. QED
      BY <3>1, <3>4 DEF KeyFile
  <2>. QED
    BY <2>1, <2>2, <2>3
<1>. QED
  BY <1>1, <1>2, <1>3, <1>5, <1>6, <1>7, <1>8 DEF GoodStep

\* The request is answered with the mount point.
LEMMA MountAnswers ==
    ASSUME HubInv, AnswerInv, NEW p \in Clients, req[p].pc = "command",
           Ask(p).kind = "oss" => Len(req[p].got) = IF Ask(p).encrypted THEN 3 ELSE 2,
           req' = [req EXCEPT ![p] = Answered(req[p], Ask(p).target)]
    PROVE  RecordOK(scene, Ask(p), req'[p]) /\ ~Busy(req'[p]) /\ req'[p].pc = "done"
<1>1. Busy(req[p]) /\ IsReq(req[p]) /\ req = [q \in Procs |-> req[q]] /\ p \in Procs
  BY BootOnly DEF Busy, HubInv, ReqInv
<1>2. PICK s, a, r : s = scene /\ a = Ask(p) /\ r = req[p]
  OBVIOUS
<1>3. AtWork(s, p, a, r)
  BY <1>1, <1>2, ServesRight
<1>4. r.pc = "command" /\ (a.kind = "oss" => Len(r.got) = IF a.encrypted THEN 3 ELSE 2)
  BY <1>2
<1>5. PICK v : v = a.target
  OBVIOUS
<1>6. a.want = v /\ a.kind # "rest"
  BY <1>3, <1>4, <1>5, TargetIs, CommandHas
<1>7. PICK n : n = Answered(r, v) /\ req'[p] = n
  BY <1>1, <1>2, <1>5
<1>8. IsReq(r) /\ RecordOK(s, a, r)
  BY <1>3 DEF AtWork
<1>9. RecordOK(s, a, n) /\ ~Busy(n) /\ n.pc = "done"
  BY <1>6, <1>7, <1>8, AnsweredOK
<1>. QED
  BY <1>2, <1>7, <1>9

LEMMA MountGood ==
    ASSUME HubInv, AnswerInv, NEW p \in Clients, MountOssfs(p) \/ MountGocryptfs(p) \/ MountLuks(p)
    PROVE  GoodStep(p)
<1>1. /\ UNCHANGED scene /\ req[p].pc = "command" /\ Busy(req[p]) /\ FilesStay(p)
      /\ IsReq(req[p]) /\ req = [q \in Procs |-> req[q]] /\ p \in Procs
  BY BootOnly DEF MountOssfs, MountGocryptfs, MountLuks, Busy, HubInv, ReqInv, FilesStay, Removed
<1>2. PICK s, a, r : s = scene /\ a = Ask(p) /\ r = req[p]
  OBVIOUS
<1>3. AtWork(s, p, a, r) /\ hub = "serving" /\ r.pc = "command"
  BY <1>1, <1>2, ServesRight
<1>4. /\ a.kind = "oss" => Len(r.got) = 2 \/ (Len(r.got) = 3 /\ a.encrypted)
  BY <1>3, CommandHas
<1>5. PICK m : m \in GoesOn(p) /\ mounts' = mounts \cup {m}
               /\ (MountOssfs(p) => m = OssfsMount(p))
  <2>1. CASE MountOssfs(p)
    BY <1>1, <2>1 DEF MountOssfs, GoesOn
  <2>2. CASE MountGocryptfs(p)
    BY <1>1, <2>2 DEF MountGocryptfs, MountOssfs, GoesOn
  <2>3. CASE MountLuks(p)
    BY <1>1, <2>3 DEF MountLuks, MountOssfs, GoesOn
  <2>. QED
    BY <2>1, <2>2, <2>3
<1>6. mounts \subseteq mounts' /\ \A o \in mounts' \ mounts : o.by = p /\ Backed(Ask(p), o, mounts')
  <2>1. PICK all : all = mounts'
    OBVIOUS
  <2>2. m.by = p /\ Backed(Ask(p), m, all)
    BY <1>1, <1>5, <2>1, CommandMounts
  <2>. QED
    BY <1>5, <2>1, <2>2
<1>7. CASE MountOssfs(p) /\ a.encrypted
  <2>1. Len(r.got) = 2 /\ a.kind = "oss"
    BY <1>2, <1>4, <1>7 DEF MountOssfs, OnGocryptfs, Encrypted
  <2>2. PICK n : n = [r EXCEPT !.pc = "resolve", !.todo = <<a.encPasswd>>] /\ req'[p] = n
    BY <1>1, <1>2, <1>7 DEF MountOssfs, Encrypted
  <2>3. n.pc = "resolve" /\ n.todo = <<a.encPasswd>> /\ n.got = r.got /\ n.stage = r.stage /\ n.tmp = r.tmp
    BY <1>1, <1>2, <2>2 DEF IsReq, ReqFields
  <2>4. RecordOK(s, a, n) /\ Busy(n) /\ Reached(n) = 3
    BY <1>3, <1>7, <2>1, <2>3, PasswordOK
  <2>5. OnBucket(p)'
    <3>1. OssfsDir(p)' = OssfsDir(p)
      BY <1>1 DEF OssfsDir, Encrypted, Ask
    <3>2. m \in mounts' /\ m.fs = "ossfs" /\ m.at = OssfsDir(p) /\ m.by = p
      BY <1>5, <1>7 DEF OssfsMount
    <3>. QED
      BY <3>1, <3>2 DEF OnBucket
  <2>6. LeftOK(p)'
    <3>1. Ask(p)'.kind = "oss"
      BY <1>1, <1>2, <2>1 DEF Ask
    <3>. QED
      BY <2>5, <3>1 DEF LeftOK
  <2>. QED
    BY <1>1, <1>2, <1>3, <1>6, <2>2, <2>3, <2>4, <2>6 DEF GoodStep, FilesStay
<1>8. CASE ~(MountOssfs(p) /\ a.encrypted)
  <2>1. req' = [req EXCEPT ![p] = Answered(req[p], Ask(p).target)]
    BY <1>1, <1>2, <1>8 DEF MountOssfs, MountGocryptfs, MountLuks, Encrypted
  <2>2. a.kind = "oss" => Len(r.got) = IF a.encrypted THEN 3 ELSE 2
    BY <1>2, <1>4, <1>8 DEF MountOssfs, MountGocryptfs, MountLuks, OnGocryptfs, Encrypted
  <2>3. RecordOK(scene, Ask(p), req'[p]) /\ ~Busy(req'[p]) /\ req'[p].pc = "done"
    BY <1>1, <1>2, <2>1, <2>2, MountAnswers
  <2>4. LeftOK(p)'
    BY <1>1, <2>3, LeftNothing
  <2>. QED
    BY <1>1, <1>6, <2>3, <2>4 DEF GoodStep, FilesStay
<1>. QED
  BY <1>7, <1>8

\* A command that fails leaves the request's key file or not, and no other's
\* is touched.
LEMMA CommandFailsGood ==
    ASSUME HubInv, AnswerInv, NEW p \in Clients, CommandFails(p)
    PROVE  GoodStep(p)
<1>1. /\ UNCHANGED <<mounts, scene>> /\ FilesStay(p)
      /\ IsReq(req[p]) /\ req = [q \in Procs |-> req[q]] /\ p \in Procs /\ RecordOK(scene, Ask(p), req[p])
  BY BootOnly DEF CommandFails, HubInv, ReqInv, AnswerInv, FilesStay, Removed
<1>2. PICK s, a, r, cause : s = scene /\ a = Ask(p) /\ r = req[p] /\ cause = TRUE
  OBVIOUS
<1>3. PICK n : n = Failed(r, cause) /\ req'[p] = n
  BY <1>1, <1>2 DEF CommandFails, Fails
<1>4. RecordOK(s, a, n) /\ ~Busy(n) /\ n.pc = "done"
  <2>1. IsReq(r) /\ RecordOK(s, a, r) /\ cause
    BY <1>1, <1>2
  <2>. QED
    BY <1>3, <2>1, FailedOK
<1>5. LeftOK(p)'
  BY <1>1, <1>3, <1>4, LeftNothing
<1>. QED
  BY <1>1, <1>2, <1>3, <1>4, <1>5 DEF GoodStep, FilesStay

\* Nobody waits any more: the request itself goes on as before.
LEMMA LateOK ==
    ASSUME NEW s, NEW a, NEW r, IsReq(r), RecordOK(s, a, r), r.pc \notin {"new", "done", "panicked"},
           NEW n, n = [r EXCEPT !.late = TRUE]
    PROVE  RecordOK(s, a, n) /\ n.pc = r.pc /\ n.got = r.got /\ Reached(n) = Reached(r) /\ Busy(n) /\ Busy(r)
<1>1. /\ n.pc = r.pc /\ n.stage = r.stage /\ n.todo = r.todo /\ n.got = r.got /\ n.tmp = r.tmp
      /\ n.arg = r.arg
  BY DEF IsReq, ReqFields
<1>2. RefsOf(s, a, n) = RefsOf(s, a, r) /\ Reached(n) = Reached(r) /\ Busy(n) /\ Busy(r)
  BY <1>1 DEF RefsOf, Reached, Busy
<1>3. KindOK(s, a, r) /\ LengthOK(s, a, r) /\ GotOK(s, a, r) /\ WaitOK(s, a, r) /\ StageOK(s, a, r)
  BY <1>2 DEF RecordOK
<1>4. KindOK(s, a, n) /\ LengthOK(s, a, n) /\ WaitOK(s, a, n)
  BY <1>1, <1>2, <1>3 DEF KindOK, LengthOK, WaitOK
<1>5. GotOK(s, a, n)
  BY <1>1, <1>2, <1>3 DEF GotOK
<1>6. StageOK(s, a, n) /\ DoneOK(a, n)
  BY <1>1, <1>3 DEF StageOK, DoneOK
<1>. QED
  BY <1>1, <1>2, <1>4, <1>5, <1>6 DEF RecordOK

\* The caller gives up; the handler may be dropped, and its command goes on.
LEMMA LateGood ==
    ASSUME HubInv, AnswerInv, NEW p \in Clients, CallerTimesOut(p) \/ DropHandler(p)
    PROVE  GoodStep(p)
<1>1. /\ UNCHANGED scene /\ FilesStay(p)
      /\ IsReq(req[p]) /\ req = [q \in Procs |-> req[q]] /\ p \in Procs
      /\ RecordOK(scene, Ask(p), req[p]) /\ LeftOK(p)
  <2>1. keyfiles' = keyfiles \/ keyfiles' = Removed(p)
    BY DEF CallerTimesOut, DropHandler
  <2>2. FilesStay(p)
    BY <2>1 DEF FilesStay, Removed
  <2>. QED
    BY <2>2, BootOnly DEF CallerTimesOut, DropHandler, HubInv, ReqInv, AnswerInv
<1>2. PICK s, a, r : s = scene /\ a = Ask(p) /\ r = req[p]
  OBVIOUS
<1>3. CASE CallerTimesOut(p)
  <2>1. PICK n : n = [r EXCEPT !.late = TRUE] /\ req'[p] = n
    BY <1>1, <1>2, <1>3 DEF CallerTimesOut
  <2>2. r.pc \notin {"new", "done", "panicked"} /\ UNCHANGED <<mounts, keyfiles>> /\ IsReq(r) /\ RecordOK(s, a, r)
    BY <1>1, <1>2, <1>3 DEF CallerTimesOut, Ended
  <2>3. /\ RecordOK(s, a, n) /\ n.pc = r.pc /\ n.got = r.got /\ Reached(n) = Reached(r) /\ Busy(n) /\ Busy(r)
    BY <2>1, <2>2, LateOK
  <2>4. LeftOK(p)'
    <3>1. /\ Busy(req[p]) /\ Reached(req'[p]) = Reached(req[p]) /\ mounts \subseteq mounts'
          /\ req'[p].pc = req[p].pc /\ req'[p].got = req[p].got
      BY <1>2, <2>1, <2>2, <2>3
    <3>. QED
      BY <1>1, <2>2, <3>1, LeftStays
  <2>5. hub = "serving"
    BY <1>2, <2>3 DEF AnswerInv, ProcessInv
  <2>. QED
    BY <1>1, <1>2, <2>1, <2>2, <2>3, <2>4, <2>5 DEF GoodStep, FilesStay
<1>4. CASE DropHandler(p)
  <2>1. PICK n : n = Failed(r, TRUE) /\ req'[p] = n
    BY <1>1, <1>2, <1>4 DEF DropHandler
  <2>2. RecordOK(s, a, n) /\ ~Busy(n) /\ n.pc = "done"
    <3>1. IsReq(r) /\ RecordOK(s, a, r)
      BY <1>1, <1>2
    <3>2. PICK cause : cause = TRUE
      OBVIOUS
    <3>3. n = Failed(r, cause) /\ cause
      BY <2>1, <3>2
    <3>. QED
      BY <3>1, <3>3, FailedOK
  <2>3. mounts \subseteq mounts' /\ \A m \in mounts' \ mounts : m.by = p /\ Backed(Ask(p), m, mounts')
    <3>1. PICK more \in SUBSET GoesOn(p) : mounts' = mounts \cup more
      BY <1>4 DEF DropHandler
    <3>2. PICK all : all = mounts'
      OBVIOUS
    <3>3. ASSUME NEW m \in more PROVE m.by = p /\ Backed(Ask(p), m, all)
      <4>1. m \in GoesOn(p) /\ mounts \subseteq all
        BY <3>1, <3>2
      <4>2. req[p].pc = "command"
        BY <4>1 DEF GoesOn
      <4>. QED
        BY <4>1, <4>2, CommandMounts
    <3>. QED
      BY <3>1, <3>2, <3>3
  <2>4. LeftOK(p)'
    BY <1>1, <2>1, <2>2, LeftNothing
  <2>. QED
    BY <1>1, <1>2, <2>1, <2>2, <2>3, <2>4 DEF GoodStep, FilesStay
<1>. QED
  BY <1>3, <1>4

\* Every step of a client's request.
LEMMA ServiceGood ==
    ASSUME HubInv, AnswerInv, NEW p \in Clients, Service(p)
    PROVE  GoodStep(p)
<1>1. scene' = scene
  <2>1. p \in Procs /\ ReqInv
    BY BootOnly DEF HubInv
  <2>. QED
    BY <2>1, ServiceMoves DEF Moves
<1>2. CASE PlainStep(p)
  BY <1>1, <1>2, PlainIsGood
<1>. QED
  BY <1>2, ResolveRight, GetterRight, SecretRight, ReturnsRight, KmsRight, EndsRight, AnswerRight,
     PullReturnsRight, EntersGood, EndsAtOnce, ImageGood, CommandGood, CommandFailsGood, MountGood DEF Service

-----------------------------------------------------------------------------
(* All of it: the answers.                                                  *)

\* What a step must show of the others: they stay, with what they have left.
Others(q) ==
    /\ req'[q] = req[q] /\ rest'[q] = rest[q]
    /\ q \in DOMAIN keyfiles => q \in DOMAIN keyfiles' /\ keyfiles'[q] = keyfiles[q]
RestShape ==
    /\ rest = [q \in Clients |-> rest[q]]
    /\ \A q \in Clients : rest[q] = [pc |-> rest[q].pc, status |-> rest[q].status]

LEMMA OthersRight ==
    ASSUME AnswerInv, NEW q \in Clients, Others(q), scene' = scene, mounts \subseteq mounts'
    PROVE  RecordOK(scene, Ask(q), req'[q]) /\ LeftOK(q)' /\ RestOK(q)'
<1>1. RecordOK(scene, Ask(q), req[q]) /\ LeftOK(q) /\ RestOK(q) /\ req'[q] = req[q] /\ rest'[q] = rest[q]
  BY DEF AnswerInv, Others
<1>2. Ask(q)' = Ask(q) /\ OssfsDir(q)' = OssfsDir(q)
  BY DEF Ask, OssfsDir, Encrypted
<1>3. OnBucket(q) => OnBucket(q)'
  BY <1>2 DEF OnBucket
<1>4. LeftOK(q)'
  BY <1>1, <1>2, <1>3 DEF LeftOK, Others
<1>5. Uses(q)' = Uses(q) /\ ToAgent(q)' = ToAgent(q)
  BY <1>2 DEF Uses, ToAgent, Split
<1>6. RestOK(q)'
  BY <1>1, <1>5 DEF RestOK
<1>. QED
  BY <1>1, <1>4, <1>6

LEMMA AnswerFrame ==
    ASSUME AnswerInv, CallInv', ProcessInv', RestShape', scene' = scene, mounts \subseteq mounts',
           \A m \in mounts' \ mounts : m.by \in Clients /\ Backed(Ask(m.by), m, mounts'),
           \A q \in Clients : Others(q) \/ (RecordOK(scene, Ask(q), req'[q]) /\ LeftOK(q)' /\ RestOK(q)')
    PROVE  AnswerInv'
<1>1. ASSUME NEW q \in Clients PROVE RecordOK(scene, Ask(q), req[q])' /\ LeftOK(q)' /\ RestOK(q)'
  <2>1. RecordOK(scene, Ask(q), req'[q]) /\ LeftOK(q)' /\ RestOK(q)'
    BY OthersRight
  <2>2. PICK s, a, r : s = scene /\ a = Ask(q) /\ r = req'[q]
    OBVIOUS
  <2>3. s = scene' /\ a = Ask(q)' /\ RecordOK(s, a, r)
    BY <2>1, <2>2 DEF Ask
  <2>. QED
    BY <2>1, <2>2, <2>3
<1>2. ASSUME NEW m \in mounts' PROVE m.by \in Clients /\ Backed(Ask(m.by)', m, mounts')
  <2>1. Ask(m.by)' = Ask(m.by)
    BY DEF Ask
  <2>2. CASE m \in mounts
    <3>1. m.by \in Clients /\ Backed(Ask(m.by), m, mounts)
      BY <2>2, BackedAll DEF AnswerInv
    <3>2. PICK a, all, more : a = Ask(m.by) /\ all = mounts /\ more = mounts'
      OBVIOUS
    <3>3. Backed(a, m, all) /\ all \subseteq more
      BY <3>1, <3>2
    <3>4. Backed(a, m, more)
      BY <3>3 DEF Backed
    <3>. QED
      BY <2>1, <3>1, <3>2, <3>4
  <2>3. CASE m \notin mounts
    BY <2>1, <2>3
  <2>. QED
    BY <2>2, <2>3
<1>3. MountsBacked'
  BY <1>2 DEF MountsBacked, Backed
<1>. QED
  BY <1>1, <1>2, <1>3 DEF AnswerInv, RestShape

\* A request's step is of one that has begun, or begins and is not the REST
\* server's.
LEMMA ServiceActive ==
    ASSUME AnswerInv, NEW p \in Clients, Service(p) \/ CallerTimesOut(p) \/ DropHandler(p)
    PROVE  req[p].pc \notin {"done", "panicked"} /\ (req[p].pc = "new" => ~Uses(p))
<1>1. CASE DropHandler(p)
  <2>1. req[p].late /\ req[p].pc \notin {"done", "panicked"}
    BY <1>1 DEF DropHandler, Ended
  <2>2. req[p].pc = "new" => req[p] = Fresh
    BY DEF AnswerInv, RecordOK, StageOK
  <2>. QED
    BY <2>1, <2>2 DEF Fresh
<1>2. CASE CallerTimesOut(p)
  BY <1>2 DEF CallerTimesOut, Ended
<1>3. CASE Service(p)
  BY <1>3 DEF Uses, Service, Receive, ReceiveOtherVolume, Resolve, NewGetter, NewGetterFails, IllegalUri,
       GetSecret, ClientReturns, GetOffline, GetSev, LegalUri, KmsAnswers, KmsFails, Answer, SecretCli,
       ReceivePull, InitializeImageClient, ImageClientReady, LockImageClient, PullReturns, PullFails,
       WriteOssfsPasswd, MountOssfs, WriteGocryptfsPasswd, MountGocryptfs, WriteStorageKey, MountLuks,
       CommandFails, Resolved
<1>. QED
  BY <1>1, <1>2, <1>3

\* The call of the KBS.
LEMMA ServiceCall ==
    ASSUME CallInv, NEW p, Service(p) \/ CallerTimesOut(p) \/ DropHandler(p)
    PROVE  CallInv'
<1>1. CASE UNCHANGED tokenVars /\ (owner' = owner \/ owner' = None)
  BY <1>1, CallStays DEF tokenVars
<1>2. CASE GetSecret(p)
  <2>1. \E r : GetResource(r)
    BY <1>2 DEF GetSecret
  <2>. QED
    BY <2>1, CallTaken
<1>3. CASE DropHandler(p)
  <2>1. CASE owner = p
    BY <1>3, <2>1, CallDropped DEF DropHandler
  <2>2. CASE owner # p
    BY <1>3, <2>2, CallStays DEF DropHandler
  <2>. QED
    BY <2>1, <2>2
<1>4. CASE ClientReturns(p)
  BY <1>1, <1>4 DEF ClientReturns
<1>. QED
  BY <1>1, <1>2, <1>3, <1>4 DEF Service, Receive, ReceiveOtherVolume, Resolve, NewGetter, NewGetterFails,
       IllegalUri, GetOffline, GetSev, KmsAnswers, KmsFails, Answer, SecretCli,
       ReceivePull, InitializeImageClient, ImageClientReady, LockImageClient, PullReturns, PullFails,
       WriteOssfsPasswd, MountOssfs, WriteGocryptfsPasswd, MountGocryptfs, WriteStorageKey, MountLuks,
       CommandFails, CallerTimesOut

\* The process stays as it is, for whoever serves.
LEMMA ServiceProcess ==
    ASSUME NEW p, Service(p) \/ CallerTimesOut(p) \/ DropHandler(p)
    PROVE  params' = params /\ (client' = client \/ (client = None /\ NewGetter(p)))
BY DEF Service, Receive, ReceiveOtherVolume, Resolve, NewGetter, NewGetterFails, IllegalUri,
       GetSecret, ClientReturns, GetOffline, GetSev, KmsAnswers, KmsFails, Answer, SecretCli,
       ReceivePull, InitializeImageClient, ImageClientReady, LockImageClient, PullReturns, PullFails,
       WriteOssfsPasswd, MountOssfs, WriteGocryptfsPasswd, MountGocryptfs, WriteStorageKey, MountLuks,
       CommandFails, CallerTimesOut, DropHandler

\* What the process is configured with is the scene's.
LEMMA SceneStays ==
    ASSUME scene' = scene
    PROVE  /\ CdhConfigNew(scene)' = CdhConfigNew(scene) /\ ClientOf(scene)' = ClientOf(scene)
           /\ SetConfigurationEnvs(scene)' = SetConfigurationEnvs(scene) /\ Credentials' = Credentials
           /\ Routes(scene)' = Routes(scene) /\ \A p : Ask(p)' = Ask(p)
<1>1. PICK s : s = scene /\ s = scene'
  OBVIOUS
<1>. QED
  BY <1>1 DEF CdhConfigNew, ClientOf, SetConfigurationEnvs, Credentials, Routes, Ask, RealClientNew, OfflineFsNew,
              AaKbcParamsNew, AaKbcParamsTryFrom, GetValue, OfflineFiles

LEMMA ProcessStays ==
    ASSUME ProcessInv, UNCHANGED <<scene, hub, params, files, client, server>>, req'[Boot] = req[Boot],
           \A q \in Clients : Busy(req'[q]) => hub = "serving"
    PROVE  ProcessInv'
<1>1. /\ CdhConfigNew(scene)' = CdhConfigNew(scene) /\ ClientOf(scene)' = ClientOf(scene)
      /\ SetConfigurationEnvs(scene)' = SetConfigurationEnvs(scene) /\ Credentials' = Credentials
      /\ Routes(scene)' = Routes(scene)
  BY SceneStays
<1>. QED
  BY <1>1 DEF ProcessInv

\* A step of a client's request.
LEMMA ClientAnswers ==
    ASSUME HubInv, AnswerInv, NEW p \in Clients, Service(p) \/ CallerTimesOut(p) \/ DropHandler(p),
           UNCHANGED restVars
    PROVE  AnswerInv'
<1>1. GoodStep(p)
  BY ServiceGood, LateGood
<1>2. Moves(p) /\ p \in Procs /\ p # Boot /\ Boot \in Procs
  <2>1. p \in Procs /\ ReqInv
    BY BootOnly DEF HubInv
  <2>. QED
    BY <2>1, ServiceMoves, LateMoves, BootOnly DEF Procs
<1>3. /\ UNCHANGED <<scene, hub, files, server, rest>>
      /\ \A q \in Procs : q # p => req'[q] = req[q]
  BY <1>2 DEF Moves, Touches, restVars
<1>4. req[p].pc \notin {"done", "panicked"} /\ (req[p].pc = "new" => ~Uses(p))
  BY ServiceActive
<1>5. CallInv'
  BY ServiceCall DEF AnswerInv
<1>6. ProcessInv'
  <2>1. params' = params /\ client' = client
    <3>1. CASE NewGetter(p) /\ client = None
      <4>1. Busy(req[p])
        BY <3>1 DEF NewGetter, Busy
      <4>. QED
        BY <3>1, <4>1, ServesRight
    <3>. QED
      BY <3>1, ServiceProcess
  <2>2. \A q \in Clients : Busy(req'[q]) => hub = "serving"
    BY <1>1, <1>3, BootOnly DEF GoodStep, AnswerInv, ProcessInv
  <2>. QED
    BY <1>2, <1>3, <2>1, <2>2, ProcessStays DEF AnswerInv
<1>7. RestOK(p)'
  <2>1. RestOK(p) /\ req'[p].pc # "new" /\ rest'[p] = rest[p]
    BY <1>1, <1>3 DEF AnswerInv, GoodStep
  <2>2. Uses(p)' = Uses(p) /\ ToAgent(p)' = ToAgent(p)
    BY <1>3, SceneStays DEF Uses, ToAgent, Split
  <2>. QED
    BY <1>4, <2>1, <2>2 DEF RestOK
<1>8. RestShape'
  BY <1>3 DEF AnswerInv, RestShape
<1>9. \A q \in Clients : Others(q) \/ (RecordOK(scene, Ask(q), req'[q]) /\ LeftOK(q)' /\ RestOK(q)')
  BY <1>1, <1>3, <1>7, BootOnly DEF Others, GoodStep
<1>10. mounts \subseteq mounts' /\ \A m \in mounts' \ mounts : m.by \in Clients /\ Backed(Ask(m.by), m, mounts')
  BY <1>1 DEF GoodStep
<1>. QED
  BY <1>3, <1>5, <1>6, <1>8, <1>9, <1>10, AnswerFrame

\* A step that is not of a client's request.
LEMMA QuietAnswers ==
    ASSUME AnswerInv, CallInv', ProcessInv', UNCHANGED <<scene, mounts, keyfiles, rest>>,
           \A q \in Clients : req'[q] = req[q]
    PROVE  AnswerInv'
<1>1. \A q \in Clients : Others(q)
  BY DEF Others
<1>2. RestShape'
  BY DEF AnswerInv, RestShape
<1>. QED
  BY <1>1, <1>2, AnswerFrame

\* The client that is made is the scene's.
LEMMA ClientMade ==
    ASSUME NEW s, CdhConfigNew(s) # Err, NEW c, c = RealClientNew(s, SetConfigurationEnvs(s)), c # Err
    PROVE  c = ClientOf(s) /\ c # None
<1>1. c = ClientOf(s)
  BY DEF ClientOf
<1>2. c \in {"cc", "offline", "sev"}
  BY DEF RealClientNew, OfflineFsNew
<1>. QED
  BY <1>1, <1>2, DataHubAssumption

\* Boot's own steps.
LEMMA BootWorks ==
    ASSUME HubInv, AnswerInv, Service(Boot) \/ CallerTimesOut(Boot) \/ DropHandler(Boot)
    PROVE  /\ hub \in {"init", "ended"}
           /\ Service(Boot) => Busy(req[Boot])
           /\ Service(Boot) => \/ NewGetter(Boot) \/ NewGetterFails(Boot) \/ Resolve(Boot)
                               \/ IllegalUri(Boot) \/ GetSecret(Boot) \/ GetOffline(Boot)
                               \/ GetSev(Boot) \/ ClientReturns(Boot)
<1>0. Boot \notin Clients /\ req[Boot].pc \in BootPcs \cup {"new"}
  BY DataHubAssumption DEF AnswerInv, ProcessInv
<1>1. req[Boot].pc \notin {"kms", "image", "command"}
  BY <1>0 DEF BootPcs
<1>2. CASE Service(Boot)
  <2>1. \/ NewGetter(Boot) \/ NewGetterFails(Boot) \/ Resolve(Boot)
        \/ IllegalUri(Boot) \/ GetSecret(Boot) \/ GetOffline(Boot)
        \/ GetSev(Boot) \/ ClientReturns(Boot)
    BY <1>0, <1>1, <1>2 DEF Service, Receive, ReceiveOtherVolume, KmsAnswers, KmsFails, Answer, SecretCli,
       ReceivePull, InitializeImageClient, ImageClientReady, LockImageClient, PullReturns, PullFails,
       WriteOssfsPasswd, MountOssfs, WriteGocryptfsPasswd, MountGocryptfs, WriteStorageKey, MountLuks,
       CommandFails, Resolved
  <2>2. req[Boot].pc \in {"getter", "resolve", "secret", "held"}
    BY <2>1 DEF NewGetter, NewGetterFails, Resolve, IllegalUri, GetSecret, GetOffline, GetSev, ClientReturns, LegalUri
  <2>3. hub \in {"init", "ended"}
    BY <2>2 DEF HubInv, BootInv
  <2>. QED
    BY <2>1, <2>2, <2>3 DEF Busy
<1>3. CASE ~Service(Boot)
  <2>1. req[Boot].pc \notin {"done", "panicked"}
    BY <1>3 DEF CallerTimesOut, DropHandler, Ended
  <2>2. hub \in {"init", "ended"}
    BY <1>3, <2>1 DEF HubInv, BootInv, BootPcs, CallerTimesOut, DropHandler
  <2>. QED
    BY <1>3, <2>2
<1>. QED
  BY <1>2, <1>3

\* Nobody is served while Boot works.
LEMMA BootProcess ==
    ASSUME HubInv, AnswerInv, hub \in {"init", "ended"}, scene' = scene, hub' \in {hub, "ended"},
           UNCHANGED <<params, server>>, \A q \in Clients : req'[q] = req[q],
           req'[Boot].pc \in BootPcs \cup {"new"}, Busy(req'[Boot]) => Busy(req[Boot]),
           hub' # "ended" => /\ files' = [f \in DOMAIN files' |-> files'[f]]
                             /\ DOMAIN files' \subseteq DOMAIN Credentials,
           req'[Boot].pc \in {"resolve", "secret", "held"} => client' # None,
           client' # None => client' = ClientOf(scene) /\ client' # Err
    PROVE  ProcessInv'
<1>1. /\ CdhConfigNew(scene)' = CdhConfigNew(scene) /\ ClientOf(scene)' = ClientOf(scene)
      /\ SetConfigurationEnvs(scene)' = SetConfigurationEnvs(scene) /\ Credentials' = Credentials
      /\ Routes(scene)' = Routes(scene)
  BY SceneStays
<1>2. ProcessInv /\ hub' # "serving"
  BY DEF AnswerInv
<1>3. \A q \in Clients : ~Busy(req'[q])
  BY <1>2 DEF ProcessInv
<1>4. Busy(req'[Boot]) => params' = SetConfigurationEnvs(scene)' /\ CdhConfigNew(scene)' # Err
  BY <1>1, <1>2 DEF ProcessInv
<1>. QED
  BY <1>1, <1>2, <1>3, <1>4 DEF ProcessInv

LEMMA BootAnswers ==
    ASSUME HubInv, AnswerInv, Service(Boot) \/ CallerTimesOut(Boot) \/ DropHandler(Boot),
           UNCHANGED restVars
    PROVE  AnswerInv'
<1>0. /\ IsReq(req[Boot]) /\ req = [q \in Procs |-> req[q]] /\ Boot \in Procs /\ ReqInv /\ ProcessInv
      /\ rest' = rest /\ server' = server
  BY DEF HubInv, ReqInv, Procs, AnswerInv, restVars
<1>1. Moves(Boot)
  BY <1>0, ServiceMoves, LateMoves
<1>2. scene' = scene /\ \A q \in Clients : req'[q] = req[q]
  BY <1>1, BootOnly DEF Moves, Touches
<1>3. hub \in {"init", "ended"}
  BY BootWorks
<1>4. params' = params /\ (client' = client \/ (client = None /\ NewGetter(Boot)))
  BY ServiceProcess
<1>5. /\ client # None => client = ClientOf(scene) /\ client # Err
      /\ req[Boot].pc \in {"resolve", "secret", "held"} => client # None
      /\ hub # "ended" => files = [f \in DOMAIN files |-> files[f]] /\ DOMAIN files \subseteq DOMAIN Credentials
      /\ req[Boot].pc \in BootPcs \cup {"new"}
  BY <1>0 DEF ProcessInv
<1>6. CallInv'
  BY ServiceCall DEF AnswerInv
<1>7. ASSUME UNCHANGED <<mounts, keyfiles>>, ProcessInv' PROVE AnswerInv'
  BY <1>0, <1>2, <1>6, <1>7, QuietAnswers
<1>8. CASE CallerTimesOut(Boot)
  <2>1. req'[Boot].pc = req[Boot].pc
    BY <1>0, <1>8 DEF CallerTimesOut, IsReq, ReqFields
  <2>2. UNCHANGED <<hub, files, client, params, mounts, keyfiles>>
    BY <1>8 DEF CallerTimesOut
  <2>3. Busy(req'[Boot]) => Busy(req[Boot])
    BY <2>1 DEF Busy
  <2>4. ProcessInv'
    BY <1>0, <1>2, <1>3, <1>5, <2>1, <2>2, <2>3, BootProcess
  <2>. QED
    BY <1>7, <2>2, <2>4
<1>9. CASE DropHandler(Boot)
  <2>1. PICK r, n : r = req[Boot] /\ n = Failed(r, TRUE) /\ req'[Boot] = n
    BY <1>0, <1>9 DEF DropHandler
  <2>2. n.pc = "done"
    BY <1>0, <2>1, EndedShape
  <2>3. UNCHANGED <<hub, files, client, params, mounts, keyfiles>>
    <3>1. req[Boot].pc # "command"
      BY <1>5 DEF BootPcs
    <3>2. GoesOn(Boot) = {}
      BY <3>1 DEF GoesOn
    <3>3. keyfiles' = keyfiles
      BY <1>9, <3>1 DEF DropHandler
    <3>. QED
      BY <1>9, <3>2, <3>3 DEF DropHandler
  <2>4. ~Busy(req'[Boot]) /\ req'[Boot].pc \in BootPcs
    BY <2>1, <2>2 DEF Busy, BootPcs
  <2>5. ProcessInv'
    BY <1>0, <1>2, <1>3, <1>5, <2>1, <2>2, <2>3, <2>4, BootProcess
  <2>. QED
    BY <1>7, <2>3, <2>5
<1>10. ASSUME Service(Boot), NEW cause, Fails(Boot, cause), UNCHANGED <<mounts, keyfiles, client>> PROVE AnswerInv'
  <2>1. req'[Boot].pc = "done" /\ hub' = "ended"
    BY <1>0, <1>10, FailsEnds
  <2>2. ~Busy(req'[Boot]) /\ req'[Boot].pc \in BootPcs
    BY <2>1 DEF Busy, BootPcs
  <2>3. ProcessInv'
    BY <1>0, <1>2, <1>3, <1>4, <1>5, <1>10, <2>1, <2>2, BootProcess
  <2>. QED
    BY <1>7, <1>10, <2>3
<1>11. ASSUME Service(Boot), NEW v, Got(Boot, v), UNCHANGED <<mounts, keyfiles, client>>,
              req[Boot].pc \in {"secret", "held"}
       PROVE  AnswerInv'
  <2>1. req'[Boot].pc = "resolve" /\ hub' = hub /\ files' = Written(Head(req[Boot].todo), v)
    BY <1>0, <1>11, GotGoesOn
  <2>2. ASSUME hub = "init" PROVE Head(req[Boot].todo) \in DOMAIN Credentials
    <3>1. PICK todo \in Seq(DOMAIN Credentials) : todo = req[Boot].todo /\ todo # << >>
      BY <1>11, <2>2 DEF HubInv, BootInv
    <3>2. Len(todo) \in Nat /\ Len(todo) > 0
      BY <3>1, EmptySeq
    <3>. QED
      BY <3>1, <3>2
  <2>3. hub' # "ended" => /\ files' = [f \in DOMAIN files' |-> files'[f]]
                          /\ DOMAIN files' \subseteq DOMAIN Credentials
    BY <1>3, <1>5, <2>1, <2>2 DEF Written
  <2>4. Busy(req[Boot]) /\ req'[Boot].pc \in BootPcs
    BY <1>11, <2>1 DEF Busy, BootPcs
  <2>5. ProcessInv'
    BY <1>0, <1>2, <1>3, <1>4, <1>5, <1>11, <2>1, <2>3, <2>4, BootProcess
  <2>. QED
    BY <1>7, <1>11, <2>5
<1>12. ASSUME Service(Boot), UNCHANGED <<hub, files, mounts, keyfiles, params>>,
              req'[Boot].pc \in {"resolve", "secret", "held"},
              client' # None, client' = ClientOf(scene), client' # Err
       PROVE  AnswerInv'
  <2>1. Busy(req[Boot]) /\ req'[Boot].pc \in BootPcs
    BY <1>12, BootWorks DEF BootPcs
  <2>2. ProcessInv'
    BY <1>0, <1>2, <1>3, <1>5, <1>12, <2>1, BootProcess
  <2>. QED
    BY <1>7, <1>12, <2>2
<1>13. CASE Service(Boot) /\ NewGetter(Boot)
  <2>1. UNCHANGED <<files, mounts, keyfiles, params>> /\ req[Boot].pc = "getter"
    BY <1>13 DEF NewGetter
  <2>2. PICK c : c = IF client = None THEN RealClientNew(scene, params) ELSE client
    OBVIOUS
  <2>3. CASE c = Err
    BY <1>10, <1>13, <2>1, <2>2, <2>3 DEF NewGetter
  <2>4. CASE c # Err
    <3>1. client' = c /\ hub' = hub /\ req' = [req EXCEPT ![Boot].pc = "resolve"]
      BY <1>13, <2>2, <2>4 DEF NewGetter
    <3>2. req'[Boot].pc = "resolve"
      BY <1>0, <3>1 DEF IsReq, ReqFields
    <3>3. c = ClientOf(scene) /\ c # None
      <4>1. CASE client = None
        <5>1. params = SetConfigurationEnvs(scene) /\ CdhConfigNew(scene) # Err
          BY <1>0, <2>1 DEF ProcessInv, Busy
        <5>2. c = RealClientNew(scene, SetConfigurationEnvs(scene))
          BY <2>2, <4>1, <5>1
        <5>. QED
          BY <2>4, <5>1, <5>2, ClientMade
      <4>2. CASE client # None
        BY <1>5, <2>2, <4>2
      <4>. QED
        BY <4>1, <4>2
    <3>. QED
      BY <1>12, <1>13, <2>1, <2>4, <3>1, <3>2, <3>3
  <2>. QED
    BY <2>3, <2>4
<1>14. CASE Service(Boot) /\ Resolve(Boot)
  <2>1. PICK url : url = CdhConfigNew(scene).credentials[Head(req[Boot].todo)]
    OBVIOUS
  <2>2. Plan(Boot, Head(req[Boot].todo)) = AskKbs(url)
    BY <2>1 DEF Plan
  <2>3. AskKbs(url).ask = "kbs" /\ AskKbs(url).url = url
    BY DEF AskKbs
  <2>4. /\ req' = [req EXCEPT ![Boot].pc = "secret", ![Boot].arg = url]
        /\ UNCHANGED <<hub, files, mounts, keyfiles, params, client>> /\ req[Boot].pc = "resolve"
    BY <1>14, <2>2, <2>3 DEF Resolve
  <2>5. req'[Boot].pc = "secret"
    BY <1>0, <2>4 DEF IsReq, ReqFields
  <2>. QED
    BY <1>5, <1>12, <1>14, <2>4, <2>5
<1>15. CASE Service(Boot) /\ (IllegalUri(Boot) \/ NewGetterFails(Boot))
  BY <1>10, <1>15 DEF IllegalUri, NewGetterFails
<1>16. CASE Service(Boot) /\ GetSecret(Boot)
  <2>1. UNCHANGED <<hub, files, mounts, keyfiles, params, client>> /\ req[Boot].pc = "secret"
    BY <1>16 DEF GetSecret, LegalUri
  <2>2. req'[Boot].pc = "held"
    BY <1>0, <1>16 DEF GetSecret, IsReq, ReqFields
  <2>. QED
    BY <1>5, <1>12, <1>16, <2>1, <2>2
<1>17. CASE Service(Boot) /\ (GetOffline(Boot) \/ ClientReturns(Boot))
  <2>1. /\ UNCHANGED <<mounts, keyfiles, client>> /\ req[Boot].pc \in {"secret", "held"}
        /\ (\E v : Got(Boot, v)) \/ (\E cause : Fails(Boot, cause))
    BY <1>17 DEF GetOffline, ClientReturns, CallReturns, LegalUri
  <2>. QED
    BY <1>10, <1>11, <1>17, <2>1
<1>18. CASE Service(Boot) /\ GetSev(Boot)
  <2>1. PICK n : /\ req'[Boot] = n /\ n = [EndedWith(req[Boot], None) EXCEPT !.pc = "panicked"]
    BY <1>0, <1>18 DEF GetSev
  <2>2. n.pc = "panicked"
    BY <1>0, <2>1 DEF EndedWith, IsReq, ReqFields
  <2>3. UNCHANGED <<mounts, keyfiles, client, params, files>> /\ hub' = "ended"
    BY <1>18 DEF GetSev
  <2>4. ~Busy(req'[Boot]) /\ req'[Boot].pc \in BootPcs
    BY <2>1, <2>2 DEF Busy, BootPcs
  <2>5. ProcessInv'
    BY <1>0, <1>2, <1>3, <1>5, <2>1, <2>2, <2>3, <2>4, BootProcess
  <2>. QED
    BY <1>7, <2>3, <2>5
<1>. QED
  BY <1>8, <1>9, <1>13, <1>14, <1>15, <1>16, <1>17, <1>18, BootWorks

\* The start of the hub.
LEMMA StartupAnswers ==
    ASSUME HubInv, AnswerInv, Startup, UNCHANGED restVars
    PROVE  AnswerInv'
<1>0. /\ IsReq(req[Boot]) /\ req = [q \in Procs |-> req[q]] /\ Boot \in Procs /\ ReqInv /\ ProcessInv
      /\ rest' = rest /\ server' = server
  BY DEF HubInv, ReqInv, Procs, AnswerInv, restVars
<1>1. UNCHANGED <<tokenVars, scene, owner, files, client, mounts, keyfiles>>
  BY DEF Startup, StartFails, Start, Serve
<1>2. \A q \in Clients : req'[q] = req[q]
  BY <1>0, StartupMoves, BootOnly DEF Touches
<1>3. CallInv'
  BY <1>1, CallStays DEF AnswerInv, tokenVars
<1>4. /\ CdhConfigNew(scene)' = CdhConfigNew(scene) /\ ClientOf(scene)' = ClientOf(scene)
      /\ SetConfigurationEnvs(scene)' = SetConfigurationEnvs(scene) /\ Credentials' = Credentials
      /\ Routes(scene)' = Routes(scene)
  BY <1>1, SceneStays
<1>5. ProcessInv'
  <2>1. CASE StartFails
    <3>1. hub = "down" /\ hub' = "ended" /\ params' = params /\ req' = req
      BY <2>1 DEF StartFails
    <3>. QED
      BY <1>0, <1>1, <1>4, <3>1 DEF ProcessInv
  <2>2. CASE Start
    <3>1. /\ hub = "down" /\ hub' = "init" /\ params' = SetConfigurationEnvs(scene) /\ CdhConfigNew(scene) # Err
          /\ \E paths : req' = [req EXCEPT ![Boot].pc = "getter", ![Boot].todo = paths]
      BY <2>2 DEF Start
    <3>2. req'[Boot].pc = "getter"
      BY <1>0, <3>1 DEF IsReq, ReqFields
    <3>. QED
      BY <1>0, <1>1, <1>2, <1>4, <3>1, <3>2 DEF ProcessInv, BootPcs
  <2>3. CASE Serve
    <3>1. hub = "init" /\ hub' = "serving" /\ params' = params /\ req[Boot].pc = "resolve"
      BY <2>3 DEF Serve
    <3>2. req'[Boot].pc = "done"
      BY <1>0, <2>3 DEF Serve, IsReq, ReqFields
    <3>3. Busy(req[Boot])
      BY <3>1 DEF Busy
    <3>. QED
      BY <1>0, <1>1, <1>2, <1>4, <3>1, <3>2, <3>3 DEF ProcessInv, BootPcs
  <2>. QED
    BY <2>1, <2>2, <2>3 DEF Startup
<1>. QED
  BY <1>0, <1>1, <1>2, <1>3, <1>5, QuietAnswers

\* The REST server says 200 only for an answer.
LEMMA StatusIs ==
    ASSUME NEW s, NEW r
    PROVE  /\ Status(s, r) # 200
           /\ Status(s, r) = 0 => Split(r.path).root \in Routes(s) /\ Routes(s) \subseteq {"cdh", "aa"}
BY DEF Status, CdhStatus, AaStatus, Routes

\* A step of the REST server for one client.
LEMMA HttpFrame ==
    ASSUME HubInv, AnswerInv, NEW p \in Clients, UNCHANGED <<tokenVars, owner, scene, hub, params, files, client, server>>,
           UNCHANGED <<mounts, keyfiles>>, req' = [q \in Procs |-> req'[q]],
           \A q \in Procs : q # p => req'[q] = req[q], Busy(req'[p]) => hub = "serving",
           NEW pc, NEW status, rest' = [rest EXCEPT ![p] = [pc |-> pc, status |-> status]],
           RecordOK(scene, Ask(p), req'[p]), RestOK(p)', LeftOK(p)'
    PROVE  AnswerInv'
<1>1. p \in Procs /\ p # Boot /\ Boot \in Procs /\ rest = [q \in Clients |-> rest[q]]
  BY BootOnly DEF Procs, AnswerInv
<1>2. CallInv'
  BY CallStays DEF AnswerInv, tokenVars
<1>3. ProcessInv'
  <2>1. \A q \in Clients : Busy(req'[q]) => hub = "serving"
    BY BootOnly DEF AnswerInv, ProcessInv
  <2>. QED
    BY <1>1, <2>1, ProcessStays DEF AnswerInv
<1>4. rest'[p] = [pc |-> pc, status |-> status] /\ \A q \in Clients : q # p => rest'[q] = rest[q]
  BY <1>1
<1>5. RestShape'
  BY <1>1, <1>4 DEF RestShape, AnswerInv
<1>6. \A q \in Clients : Others(q) \/ (RecordOK(scene, Ask(q), req'[q]) /\ LeftOK(q)' /\ RestOK(q)')
  BY <1>1, <1>4, BootOnly DEF Others
<1>. QED
  BY <1>2, <1>3, <1>5, <1>6, AnswerFrame

LEMMA HttpAnswers ==
    ASSUME HubInv, AnswerInv, NEW p \in Clients, Http(p)
    PROVE  AnswerInv'
<1>1. /\ UNCHANGED <<tokenVars, owner, scene, hub, params, files, client, server>>
      /\ UNCHANGED <<mounts, keyfiles>>
  BY DEF Http, Route, HubReplies, AgentReplies, ReplyTimeout, hubVars
<1>2. /\ IsReq(req[p]) /\ req = [q \in Procs |-> req[q]] /\ p \in Procs /\ p # Boot
      /\ RecordOK(scene, Ask(p), req[p]) /\ LeftOK(p) /\ RestOK(p)
      /\ rest = [q \in Clients |-> rest[q]] /\ rest[p] = [pc |-> rest[p].pc, status |-> rest[p].status]
  BY BootOnly DEF HubInv, ReqInv, AnswerInv
<1>3. Uses(p)' = Uses(p) /\ ToAgent(p)' = ToAgent(p) /\ Ask(p)' = Ask(p)
  BY <1>1, SceneStays DEF Uses, ToAgent, Split
<1>4. ASSUME req' = req, NEW pc, NEW status, rest' = [rest EXCEPT ![p] = [pc |-> pc, status |-> status]],
             RestOK(p)'
      PROVE  AnswerInv'
  <2>1. LeftOK(p)'
    BY <1>1, <1>2, <1>4, LeftStays
  <2>2. Busy(req'[p]) => hub = "serving"
    BY <1>4 DEF AnswerInv, ProcessInv
  <2>. QED
    BY <1>1, <1>2, <1>4, <2>1, <2>2, HttpFrame
<1>5. CASE HubReplies(p) \/ AgentReplies(p)
  <2>1. PICK status : /\ rest' = [rest EXCEPT ![p] = [pc |-> "done", status |-> status]]
                      /\ status = 200 /\ ~ToAgent(p) => req[p].pc = "done" /\ req[p].out.ok
    BY <1>5 DEF HubReplies, AgentReplies, Reply
  <2>2. req' = req /\ rest[p].pc = "called"
    BY <1>5 DEF HubReplies, AgentReplies, Called, hubVars
  <2>3. rest'[p].pc = "done" /\ rest'[p].status = status
    BY <1>2, <2>1
  <2>4. RestOK(p)'
    BY <1>2, <1>3, <2>1, <2>2, <2>3 DEF RestOK
  <2>. QED
    BY <1>4, <2>1, <2>2, <2>4
<1>6. CASE ReplyTimeout(p)
  <2>1. rest' = [rest EXCEPT ![p] = [pc |-> "done", status |-> 500]] /\ rest[p].pc = "called"
    BY <1>6 DEF ReplyTimeout, Reply, Called
  <2>2. rest'[p].pc = "done" /\ rest'[p].status = 500
    BY <1>2, <2>1
  <2>3. RestOK(p)'
    BY <2>2 DEF RestOK
  <2>4. CASE req' = req
    BY ZenonT(40), <1>4, <2>1, <2>3, <2>4
  <2>5. CASE ~ToAgent(p) /\ ~Ended(p) /\ req' = [req EXCEPT ![p].late = TRUE]
    <3>1. PICK s, a, r, n : s = scene /\ a = Ask(p) /\ r = req[p] /\ n = [r EXCEPT !.late = TRUE]
      OBVIOUS
    <3>2. req' = [req EXCEPT ![p] = n] /\ req'[p] = n
      BY <1>2, <2>5, <3>1
    <3>3. IsReq(r) /\ RecordOK(s, a, r) /\ r.pc \notin {"new", "done", "panicked"}
      BY <1>2, <2>1, <2>5, <3>1 DEF RestOK, Ended
    <3>4. RecordOK(s, a, n) /\ n.pc = r.pc /\ n.got = r.got /\ Reached(n) = Reached(r) /\ Busy(n) /\ Busy(r)
      BY <3>1, <3>3, LateOK
    <3>5. LeftOK(p)'
      <4>1. /\ Busy(req[p]) /\ Reached(req'[p]) = Reached(req[p]) /\ mounts \subseteq mounts'
            /\ req'[p].pc = req[p].pc /\ req'[p].got = req[p].got
        BY <1>1, <3>1, <3>2, <3>4
      <4>. QED
        BY <1>1, <1>2, <4>1, LeftStays
    <3>6. hub = "serving"
      BY <3>1, <3>4 DEF AnswerInv, ProcessInv
    <3>7. RecordOK(scene, Ask(p), req'[p])
      BY <3>1, <3>2, <3>4
    <3>8. req' = [q \in Procs |-> req'[q]] /\ \A q \in Procs : q # p => req'[q] = req[q]
      BY <1>2, <3>2
    <3>9. PICK pc, status : rest' = [rest EXCEPT ![p] = [pc |-> pc, status |-> status]]
      BY ZenonT(40), <2>1
    <3>. QED
      BY <1>1, <2>3, <3>5, <3>6, <3>7, <3>8, <3>9, HttpFrame
  <2>. QED
    BY <1>6, <2>4, <2>5 DEF ReplyTimeout
<1>7. CASE Route(p)
  <2>1. PICK s, a, h, code : s = scene /\ a = Ask(p) /\ h = a.http /\ code = Status(s, h)
    OBVIOUS
  <2>2. Uses(p) /\ server = "up" /\ rest[p].pc = "waiting"
    BY <1>7 DEF Route
  <2>3. req[p].pc = "new" /\ req[p] = Fresh
    BY <1>2, <2>2 DEF RestOK, RecordOK, StageOK
  <2>4. code # 200 /\ (code = 0 => Split(h.path).root \in Routes(s) /\ Routes(s) \subseteq {"cdh", "aa"})
    BY <2>1, StatusIs
  <2>5. CASE code # 0
    <3>1. rest' = [rest EXCEPT ![p] = [pc |-> "done", status |-> code]] /\ req' = req
      BY <1>7, <2>1, <2>5 DEF Route
    <3>2. rest'[p].pc = "done" /\ rest'[p].status = code
      BY <1>2, <3>1
    <3>3. RestOK(p)'
      BY <2>4, <3>2 DEF RestOK
    <3>. QED
      BY <1>4, <3>1, <3>3
  <2>6. CASE code = 0
    <3>1. PICK status : status = rest[p].status /\ rest' = [rest EXCEPT ![p] = [pc |-> "called", status |-> status]]
      <4>1. rest' = [rest EXCEPT ![p].pc = "called"]
        BY <1>7, <2>1, <2>6 DEF Route
      <4>2. PICK x, status : x = rest[p] /\ status = x.status
        OBVIOUS
      <4>3. x = [pc |-> x.pc, status |-> x.status]
        BY <1>2, <4>2
      <4>4. [x EXCEPT !.pc = "called"] = [pc |-> "called", status |-> status]
        BY <4>2, <4>3
      <4>. QED
        BY <1>2, <4>1, <4>2, <4>4
    <3>2. rest'[p].pc = "called" /\ rest'[p].status = status
      BY <1>2, <3>1
    <3>3. status = 200 => ToAgent(p)
      BY <1>2, <2>3, <3>1 DEF RestOK
    <3>4. CASE Split(h.path).root # "cdh"
      <4>1. req' = req
        BY <1>7, <2>1, <2>6, <3>4 DEF Route
      <4>2. ToAgent(p)
        BY <2>1, <2>4, <2>6, <3>4 DEF ToAgent
      <4>3. RestOK(p)'
        BY <1>3, <2>2, <3>2, <4>2 DEF RestOK
      <4>. QED
        BY <1>4, <3>1, <4>1, <4>3
    <3>5. CASE Split(h.path).root = "cdh"
      <4>1. PICK refs : refs = <<Forward(h)>>
        OBVIOUS
      <4>2. PICK n : /\ n = [Fresh EXCEPT !.pc = "resolve", !.todo = refs]
                     /\ req' = [req EXCEPT ![p] = n] /\ req'[p] = n
        BY <1>2, <1>7, <2>1, <2>3, <2>6, <3>5, <4>1 DEF Route
      <4>3. n.pc = "resolve" /\ n.todo = refs /\ n.got = << >> /\ n.stage = "none"
        BY <4>2 DEF Fresh
      <4>4. a = s.ask[p] /\ a.kind = "rest" /\ Forwarded(s, a) /\ s \in Scenes
        BY <2>1, <2>2, <2>6, <3>5 DEF Ask, Uses, Forwarded, HubInv, BootInv
      <4>5. refs = References(a, s.imageConfig, "none")
        BY <2>1, <4>1, <4>4 DEF References
      <4>6. RecordOK(s, a, n)
        BY <4>3, <4>4, <4>5, EntersOK DEF Kinds
      <4>7. hub = "serving"
        BY <2>1, <2>2, <2>4, <2>6, <3>5 DEF AnswerInv, ProcessInv
      <4>8. LeftOK(p)'
        BY <1>1, <2>1, <4>4, LeftNothing
      <4>9. RestOK(p)'
        BY <1>3, <2>2, <3>2, <3>3, <4>2, <4>3 DEF RestOK
      <4>10. req' = [q \in Procs |-> req'[q]] /\ \A q \in Procs : q # p => req'[q] = req[q]
        BY <1>2, <4>2
      <4>11. RecordOK(scene, Ask(p), req'[p])
        BY <2>1, <4>2, <4>6
      <4>. QED
        BY <1>1, <3>1, <4>7, <4>8, <4>9, <4>10, <4>11, HttpFrame
    <3>. QED
      BY <3>4, <3>5
  <2>. QED
    BY <2>5, <2>6
<1>. QED
  BY <1>5, <1>6, <1>7 DEF Http

LEMMA AnswerStart == ApiInit => AnswerInv
<1>. SUFFICES ASSUME ApiInit PROVE AnswerInv
  OBVIOUS
<1>1. CallInv
  <2>1. call = NoCall
    BY DEF ApiInit, HubInit, Init
  <2>2. call.pc = "idle" /\ call.attempt = 1 /\ call.losses = 0 /\ call.out = None /\ owner = None
    BY <2>1 DEF NoCall, ApiInit, HubInit
  <2>3. None \notin Outs
    BY TokenClientAssumption
  <2>. QED
    BY <2>2, <2>3 DEF CallInv, CallPcs, Outs
<1>2. \A p \in Procs : req[p] = Fresh
  BY DEF ApiInit, HubInit
<1>3. Fresh.pc = "new" /\ ~Busy(Fresh) /\ Fresh.stage = "none"
  BY DEF Fresh, Busy
<1>4. ProcessInv
  <2>1. Boot \in Procs /\ hub = "down" /\ client = None /\ server = "down" /\ files = << >>
    BY DEF Procs, ApiInit, HubInit
  <2>2. files = [f \in DOMAIN files |-> files[f]] /\ DOMAIN files = {}
    BY <2>1
  <2>3. \A p \in Clients : ~Busy(req[p])
    BY <1>2, <1>3, BootOnly
  <2>. QED
    BY <1>2, <1>3, <2>1, <2>2, <2>3 DEF ProcessInv
<1>5. rest = [p \in Clients |-> [pc |-> "waiting", status |-> 0]] /\ mounts = {}
  BY DEF ApiInit, HubInit
<1>6. \A p \in Clients : rest[p].pc = "waiting" /\ rest[p].status = 0
  BY <1>5
<1>7. ASSUME NEW p \in Clients PROVE RecordOK(scene, Ask(p), req[p]) /\ LeftOK(p) /\ RestOK(p)
  <2>1. req[p] = Fresh
    BY <1>2, BootOnly
  <2>2. PICK s, a : s = scene /\ a = Ask(p)
    OBVIOUS
  <2>3. RecordOK(s, a, Fresh)
    BY <1>3 DEF RecordOK, StageOK, DoneOK
  <2>. QED
    BY <1>3, <1>6, <2>1, <2>2, <2>3 DEF LeftOK, RestOK
<1>8. MountsBacked
  BY <1>5 DEF MountsBacked
<1>. QED
  BY <1>1, <1>4, <1>5, <1>7, <1>8 DEF AnswerInv

LEMMA AnswerStep == HubInv /\ AnswerInv /\ [ApiNext]_apiVars => AnswerInv'
<1>. SUFFICES ASSUME HubInv, AnswerInv, [ApiNext]_apiVars PROVE AnswerInv'
  OBVIOUS
<1>1. CASE Startup /\ UNCHANGED restVars
  BY <1>1, StartupAnswers
<1>2. ASSUME NEW p \in Procs, Service(p) \/ CallerTimesOut(p) \/ DropHandler(p), UNCHANGED restVars
      PROVE  AnswerInv'
  <2>1. CASE p = Boot
    BY <1>2, <2>1, BootAnswers
  <2>2. CASE p \in Clients
    BY <1>2, <2>2, ClientAnswers
  <2>. QED
    BY <2>1, <2>2 DEF Procs
<1>3. ASSUME CallInv', UNCHANGED <<hubVars, rest>>, server' = server \/ ServerStart
      PROVE  AnswerInv'
  <2>1. UNCHANGED <<scene, hub, params, files, client, req, mounts, keyfiles>>
    BY <1>3 DEF hubVars
  <2>2. ProcessInv'
    <3>1. CASE server' = server
      <4>1. \A q \in Clients : Busy(req'[q]) => hub = "serving"
        BY <2>1 DEF AnswerInv, ProcessInv
      <4>. QED
        BY <2>1, <3>1, <4>1, ProcessStays DEF AnswerInv
    <3>2. CASE ServerStart
      <4>1. server' = "up" /\ "cdh" \in Routes(scene) => hub = "serving"
        BY <3>2 DEF ServerStart
      <4>2. /\ CdhConfigNew(scene)' = CdhConfigNew(scene) /\ ClientOf(scene)' = ClientOf(scene)
            /\ SetConfigurationEnvs(scene)' = SetConfigurationEnvs(scene) /\ Credentials' = Credentials
            /\ Routes(scene)' = Routes(scene)
        BY <2>1, SceneStays
      <4>. QED
        BY <2>1, <4>1, <4>2 DEF AnswerInv, ProcessInv
    <3>. QED
      BY <1>3, <3>1, <3>2
  <2>. QED
    BY <1>3, <2>1, <2>2, QuietAnswers
<1>4. CASE (Kbs \/ TokenExpires) /\ UNCHANGED hubVars /\ UNCHANGED restVars
  <2>1. Update \/ Request \/ Orphan \/ TokenExpires
    BY <1>4 DEF Kbs
  <2>2. owner' = owner /\ rest' = rest /\ server' = server
    BY <1>4 DEF hubVars, restVars
  <2>3. CallInv'
    BY <2>1, <2>2, CallStep DEF HubInv, AnswerInv
  <2>. QED
    BY <1>3, <1>4, <2>2, <2>3
<1>5. CASE ServerStart
  <2>1. UNCHANGED <<tokenVars, hubVars, rest>>
    BY <1>5 DEF ServerStart
  <2>2. CallInv'
    BY <2>1, CallStays DEF AnswerInv, tokenVars, hubVars
  <2>. QED
    BY <1>3, <1>5, <2>1, <2>2
<1>6. ASSUME NEW p \in Clients, Http(p) PROVE AnswerInv'
  BY <1>6, HttpAnswers
<1>7. CASE UNCHANGED apiVars
  <2>1. UNCHANGED <<tokenVars, hubVars, rest, server>>
    BY <1>7 DEF apiVars, restVars
  <2>2. CallInv'
    BY <2>1, CallStays DEF AnswerInv, tokenVars, hubVars
  <2>. QED
    BY <1>3, <2>1, <2>2
<1>. QED
  BY <1>1, <1>2, <1>4, <1>5, <1>6, <1>7 DEF ApiNext

LEMMA AnswerInvariance == ApiSpec => [](HubInv /\ AnswerInv)
<1>1. ApiInit => HubInv /\ AnswerInv
  BY HubStart, AnswerStart
<1>2. HubInv /\ AnswerInv /\ [ApiNext]_apiVars => (HubInv /\ AnswerInv)'
  BY HubStep, AnswerStep
<1>. QED
  BY <1>1, <1>2, PTL DEF ApiSpec

\* Every request of the hub, and every 200 of the REST server, is answered with
\* what its reference stands for, or with an error where there is nothing or
\* another party failed: for any number of requests beside each other over the
\* one client of the KBS and the one image client, with expired tokens, failed
\* handshakes, commands and key services, callers that give up and handlers
\* that are dropped.
THEOREM RequestsAlwaysAnsweredRight == ApiSpec => []RequestsAnsweredRight
<1>1. AnswerInv => RequestsAnsweredRight
  <2>. SUFFICES ASSUME AnswerInv, NEW p \in Clients
       PROVE  /\ req[p].pc = "done" =>
                     IF req[p].out.ok THEN req[p].out.value = Ask(p).want
                     ELSE Ask(p).want = Err \/ req[p].blame
              /\ (rest[p].status = 200 /\ ~ToAgent(p)) => Ask(p).want # Err /\ req[p].out.ok
    BY DEF RequestsAnsweredRight
  <2>1. DoneOK(Ask(p), req[p]) /\ RestOK(p)
    BY DEF AnswerInv, RecordOK
  <2>. QED
    BY <2>1 DEF DoneOK, RestOK, Uses
<1>. QED
  BY <1>1, AnswerInvariance, PTL

\* What secure_mount has mounted is backed by the request's own secrets and, for
\* an encrypted bucket, by its own mount of the bucket, also where the handler
\* was dropped while the command ran.
THEOREM MountsAlwaysBacked == ApiSpec => []MountsBacked
<1>1. AnswerInv => MountsBacked
  BY DEF AnswerInv
<1>. QED
  BY <1>1, AnswerInvariance, PTL

-----------------------------------------------------------------------------
(* The key files of LUKS devices.                                           *)

\* A key file is that of a request for a LUKS device which was not answered
\* with success; a device is mounted when its file is gone, at the request's
\* end.
Mounted(p) == \E m \in mounts : m.by = p
KeyOK(p) ==
    /\ p \in DOMAIN keyfiles => Ask(p).kind = "luks" /\ (req[p].pc = "done" => ~req[p].out.ok)
    /\ Mounted(p) /\ Ask(p).kind = "luks" => p \notin DOMAIN keyfiles /\ Ended(p)
KeyInv == DOMAIN keyfiles \subseteq Clients /\ \A p \in Clients : KeyOK(p)

LEMMA KeyStays ==
    ASSUME NEW q, KeyOK(q), scene' = scene, req'[q] = req[q], q \in DOMAIN keyfiles' => q \in DOMAIN keyfiles,
           Mounted(q)' => Mounted(q)
    PROVE  KeyOK(q)'
<1>1. Ask(q)' = Ask(q)
  BY DEF Ask
<1>. QED
  BY <1>1 DEF KeyOK, Ended

\* Nothing that holds the key files, the mounts and the requests' ends moves.
LEMMA KeysQuiet ==
    ASSUME KeyInv, UNCHANGED <<scene, mounts, keyfiles>>, \A q \in Clients : req'[q] = req[q]
    PROVE  KeyInv'
<1>1. \A q : Mounted(q)' => Mounted(q)
  BY DEF Mounted
<1>. QED
  BY <1>1, KeyStays DEF KeyInv

\* A step of a request for a LUKS device mounts nothing and is not answered with
\* success, or it ends the request with its key file gone.
LuksStep(p) ==
    \/ mounts' = mounts /\ (req'[p].pc # "done" \/ ~req'[p].out.ok)
    \/ p \notin DOMAIN keyfiles' /\ req'[p].pc = "done"

LEMMA LuksFails ==
    ASSUME ReqInv, NEW p \in Procs, NEW cause, Fails(p, cause)
    PROVE  ~req'[p].out.ok
<1>1. IsReq(req[p]) /\ req = [q \in Procs |-> req[q]]
  BY DEF ReqInv
<1>2. PICK r, n : r = req[p] /\ n = Failed(r, cause) /\ req' = [req EXCEPT ![p] = n]
  BY <1>1 DEF Fails
<1>3. n.out.ok = FALSE
  BY <1>1, <1>2, EndedShape DEF Failed, EndedWith, IsReq, ReqFields
<1>. QED
  BY <1>1, <1>2, <1>3

LEMMA LuksGets ==
    ASSUME ReqInv, NEW p \in Clients, Ask(p).kind = "luks", NEW v, Got(p, v)
    PROVE  req'[p].pc = "resolve"
<1>1. IsReq(req[p]) /\ req = [q \in Procs |-> req[q]] /\ p \in Procs /\ p # Boot
  BY BootOnly DEF ReqInv
<1>2. PICK r, n : /\ r = req[p] /\ req' = [req EXCEPT ![p] = n]
                  /\ n = [r EXCEPT !.pc = "resolve", !.todo = Tail(@), !.got = Append(@, v), !.arg = None]
  BY <1>1 DEF Got
<1>3. n.pc = "resolve"
  BY <1>1, <1>2 DEF IsReq, ReqFields
<1>. QED
  BY <1>1, <1>2, <1>3


LEMMA LuksMoves ==
    ASSUME HubInv, AnswerInv, NEW p \in Clients, Ask(p).kind = "luks",
           Service(p) \/ CallerTimesOut(p) \/ DropHandler(p)
    PROVE  LuksStep(p)
<1>0. IsReq(req[p]) /\ req = [q \in Procs |-> req[q]] /\ p \in Procs /\ p # Boot /\ ReqInv
  BY BootOnly DEF HubInv, ReqInv
<1>1. ASSUME NEW cause, Fails(p, cause), mounts' = mounts PROVE LuksStep(p)
  BY <1>0, <1>1, LuksFails DEF LuksStep
<1>2. ASSUME NEW v, Got(p, v), mounts' = mounts PROVE LuksStep(p)
  BY <1>0, <1>2, LuksGets DEF LuksStep
<1>3. ASSUME mounts' = mounts, req'[p].pc # "done" PROVE LuksStep(p)
  BY <1>3 DEF LuksStep
<1>4. CASE Receive(p) \/ WriteStorageKey(p)
  <2>1. mounts' = mounts
    BY <1>4 DEF Receive, WriteStorageKey
  <2>2. req'[p].pc # "done"
    BY <1>0, <1>4 DEF Receive, WriteStorageKey, IsReq, ReqFields
  <2>. QED
    BY <1>3, <2>1, <2>2
<1>5. CASE \/ ReceiveOtherVolume(p) \/ NewGetterFails(p) \/ IllegalUri(p) \/ KmsFails(p) \/ PullFails(p)
           \/ CommandFails(p)
  <2>1. mounts' = mounts /\ \E cause : Fails(p, cause)
    BY <1>5 DEF ReceiveOtherVolume, NewGetterFails, IllegalUri, KmsFails, PullFails, CommandFails
  <2>. QED
    BY <1>1, <2>1
<1>6. CASE Resolve(p)
  <2>1. mounts' = mounts
    BY <1>6 DEF Resolve
  <2>2. (\E v : Got(p, v)) \/ (\E cause : Fails(p, cause)) \/ req'[p].pc # "done"
    BY <1>0, <1>6 DEF Resolve, IsReq, ReqFields
  <2>. QED
    BY <1>1, <1>2, <1>3, <2>1, <2>2
<1>7. CASE NewGetter(p) \/ GetSecret(p)
  <2>1. mounts' = mounts
    BY <1>7 DEF NewGetter, GetSecret
  <2>2. (\E cause : Fails(p, cause)) \/ req'[p].pc # "done"
    BY <1>0, <1>7 DEF NewGetter, GetSecret, IsReq, ReqFields
  <2>. QED
    BY <1>1, <1>3, <2>1, <2>2
<1>8. CASE ClientReturns(p) \/ GetOffline(p) \/ KmsAnswers(p)
  <2>1. mounts' = mounts
    BY <1>8 DEF ClientReturns, GetOffline, KmsAnswers
  <2>2. (\E v : Got(p, v)) \/ (\E cause : Fails(p, cause))
    BY <1>8 DEF ClientReturns, CallReturns, GetOffline, KmsAnswers
  <2>. QED
    BY <1>1, <1>2, <2>1, <2>2
<1>9. CASE GetSev(p)
  <2>1. mounts' = mounts
    BY <1>9 DEF GetSev
  <2>2. req'[p].pc # "done"
    BY <1>0, <1>9 DEF GetSev, EndedWith, IsReq, ReqFields
  <2>. QED
    BY <1>3, <2>1, <2>2
<1>10. ~Answer(p) /\ ~SecretCli(p) /\ ~ReceivePull(p)
  BY DEF Answer, SecretCli, ReceivePull
<1>11. ~MountOssfs(p) /\ ~MountGocryptfs(p) /\ ~WriteOssfsPasswd(p) /\ ~WriteGocryptfsPasswd(p)
  BY DEF MountOssfs, MountGocryptfs, WriteOssfsPasswd, WriteGocryptfsPasswd
<1>12. CASE InitializeImageClient(p) \/ ImageClientReady(p) \/ LockImageClient(p)
  <2>1. mounts' = mounts
    BY <1>12 DEF InitializeImageClient, ImageClientReady, LockImageClient
  <2>2. req'[p].pc # "done"
    BY <1>0, <1>12 DEF InitializeImageClient, ImageClientReady, LockImageClient, IsReq, ReqFields
  <2>. QED
    BY <1>3, <2>1, <2>2
<1>13. ~PullReturns(p)
  BY DEF PullReturns, AnswerInv, RecordOK, StageOK
<1>14. CASE MountLuks(p)
  <2>1. p \notin DOMAIN keyfiles'
    BY <1>14 DEF MountLuks, Removed
  <2>2. req'[p].pc = "done"
    BY <1>0, <1>14 DEF MountLuks, Answered, EndedWith, IsReq, ReqFields
  <2>. QED
    BY <2>1, <2>2 DEF LuksStep
<1>15. CASE CallerTimesOut(p)
  <2>1. mounts' = mounts
    BY <1>15 DEF CallerTimesOut
  <2>2. req'[p].pc # "done"
    BY <1>0, <1>15 DEF CallerTimesOut, Ended, IsReq, ReqFields
  <2>. QED
    BY <1>3, <2>1, <2>2
<1>16. CASE DropHandler(p)
  <2>1. PICK r, n : r = req[p] /\ n = Failed(r, TRUE) /\ req' = [req EXCEPT ![p] = n]
    BY <1>16 DEF DropHandler
  <2>2. n.pc = "done" /\ n.out.ok = FALSE
    BY <1>0, <2>1 DEF Failed, EndedWith, IsReq, ReqFields
  <2>3. mounts' = mounts \/ keyfiles' = Removed(p)
    <3>1. PICK more \in SUBSET GoesOn(p), removed \in BOOLEAN :
              /\ more # {} => removed
              /\ mounts' = mounts \cup more
              /\ keyfiles' = IF removed THEN Removed(p) ELSE keyfiles
      BY <1>16 DEF DropHandler
    <3>. QED
      BY <3>1
  <2>. QED
    BY <1>0, <2>1, <2>2, <2>3 DEF LuksStep, Removed
<1>. QED
  BY <1>4, <1>5, <1>6, <1>7, <1>8, <1>9, <1>10, <1>11, <1>12, <1>13, <1>14, <1>15, <1>16 DEF Service

\* Only a request for a LUKS device makes a key file, its own.
LEMMA KeyFilesMove ==
    ASSUME NEW p \in Procs, Service(p) \/ CallerTimesOut(p) \/ DropHandler(p)
    PROVE  DOMAIN keyfiles' \subseteq DOMAIN keyfiles \cup (IF p \in Clients /\ Ask(p).kind = "luks" THEN {p} ELSE {})
<1>1. CASE keyfiles' = keyfiles \/ keyfiles' = Removed(p)
  BY <1>1 DEF Removed
<1>2. CASE Receive(p) \/ WriteStorageKey(p)
  BY <1>2 DEF Receive, WriteStorageKey, Resolved, KeyFile
<1>. QED
  BY <1>1, <1>2 DEF Service, ReceiveOtherVolume, Resolve, NewGetter, NewGetterFails, IllegalUri,
       GetSecret, ClientReturns, GetOffline, GetSev, KmsAnswers, KmsFails, Answer, SecretCli,
       ReceivePull, InitializeImageClient, ImageClientReady, LockImageClient, PullReturns, PullFails,
       WriteOssfsPasswd, MountOssfs, WriteGocryptfsPasswd, MountGocryptfs, MountLuks,
       CommandFails, CallerTimesOut, DropHandler

LEMMA ClientKeys ==
    ASSUME HubInv, AnswerInv, KeyInv, NEW p \in Clients, Service(p) \/ CallerTimesOut(p) \/ DropHandler(p)
    PROVE  KeyInv'
<1>1. p \in Procs /\ ReqInv
  BY BootOnly DEF HubInv
<1>2. /\ scene' = scene /\ \A q \in Clients : q # p => req'[q] = req[q]
      /\ Ask(p)' = Ask(p)
  BY <1>1, ServiceMoves, LateMoves, BootOnly DEF Moves, Touches, Ask
<1>3. \A q : q # p => (Mounted(q)' => Mounted(q))
  BY ServiceGood, LateGood DEF GoodStep, Mounted
<1>4. DOMAIN keyfiles' \subseteq DOMAIN keyfiles \cup (IF Ask(p).kind = "luks" THEN {p} ELSE {})
  BY <1>1, KeyFilesMove
<1>5. KeyOK(p)'
  <2>1. CASE Ask(p).kind # "luks"
    BY <1>2, <1>4, <2>1 DEF KeyInv, KeyOK
  <2>2. CASE Ask(p).kind = "luks"
    <3>1. ~Mounted(p)
      BY <2>2, ServiceActive DEF KeyInv, KeyOK, Ended
    <3>2. LuksStep(p)
      BY <2>2, LuksMoves
    <3>3. CASE mounts' = mounts /\ (req'[p].pc # "done" \/ ~req'[p].out.ok)
      <4>1. ~Mounted(p)'
        BY <3>1, <3>3 DEF Mounted
      <4>. QED
        BY <1>2, <2>2, <3>3, <4>1 DEF KeyOK
    <3>4. CASE p \notin DOMAIN keyfiles' /\ req'[p].pc = "done"
      BY <3>4 DEF KeyOK, Ended
    <3>. QED
      BY <3>2, <3>3, <3>4 DEF LuksStep
  <2>. QED
    BY <2>1, <2>2
<1>6. ASSUME NEW q \in Clients, q # p PROVE KeyOK(q)'
  <2>1. KeyOK(q) /\ (q \in DOMAIN keyfiles' => q \in DOMAIN keyfiles)
    BY <1>4, <1>6 DEF KeyInv
  <2>. QED
    BY <1>2, <1>3, <1>6, <2>1, KeyStays
<1>. QED
  BY <1>4, <1>5, <1>6 DEF KeyInv

\* The start has no command.
LEMMA BootKeys ==
    ASSUME HubInv, AnswerInv, KeyInv, Service(Boot) \/ CallerTimesOut(Boot) \/ DropHandler(Boot)
    PROVE  KeyInv'
<1>1. req[Boot].pc \in BootPcs \cup {"new"} /\ Boot \notin Clients /\ Boot \in Procs /\ ReqInv
  BY DataHubAssumption DEF AnswerInv, ProcessInv, Procs, HubInv
<1>2. req[Boot].pc # "command"
  BY <1>1 DEF BootPcs
<1>3. UNCHANGED <<mounts, keyfiles>>
  <2>1. CASE DropHandler(Boot)
    <3>1. GoesOn(Boot) = {}
      BY <1>2 DEF GoesOn
    <3>2. keyfiles' = keyfiles
      BY <1>2, <2>1 DEF DropHandler
    <3>. QED
      BY <2>1, <3>1, <3>2 DEF DropHandler
  <2>2. CASE Service(Boot) \/ CallerTimesOut(Boot)
    BY <1>1, <1>2, <2>2 DEF Service, Receive, ReceiveOtherVolume, Resolve, NewGetter, NewGetterFails, IllegalUri,
       GetSecret, ClientReturns, GetOffline, GetSev, KmsAnswers, KmsFails, Answer, SecretCli, Resolved,
       ReceivePull, InitializeImageClient, ImageClientReady, LockImageClient, PullReturns, PullFails,
       WriteOssfsPasswd, MountOssfs, WriteGocryptfsPasswd, MountGocryptfs, WriteStorageKey, MountLuks,
       CommandFails, CallerTimesOut
  <2>. QED
    BY <2>1, <2>2
<1>4. scene' = scene /\ \A q \in Clients : req'[q] = req[q]
  BY <1>1, ServiceMoves, LateMoves, BootOnly DEF Moves, Touches
<1>. QED
  BY <1>3, <1>4, KeysQuiet

LEMMA HttpKeys ==
    ASSUME HubInv, AnswerInv, KeyInv, NEW p \in Clients, Http(p)
    PROVE  KeyInv'
<1>1. UNCHANGED <<scene, mounts, keyfiles>> /\ (req' = req \/ Uses(p)) /\ req = [q \in Procs |-> req[q]]
  <2>1. UNCHANGED <<scene, mounts, keyfiles>> /\ req = [q \in Procs |-> req[q]]
    BY DEF Http, Route, HubReplies, AgentReplies, ReplyTimeout, hubVars, HubInv, ReqInv
  <2>2. RestOK(p)
    BY DEF AnswerInv
  <2>3. req' = req \/ Uses(p)
    BY <2>2 DEF Http, Route, HubReplies, AgentReplies, ReplyTimeout, Called, RestOK, hubVars
  <2>. QED
    BY <2>1, <2>3
<1>2. \A q \in Clients : q # p => req'[q] = req[q]
  BY <1>1, BootOnly DEF Http, Route, HubReplies, AgentReplies, ReplyTimeout, hubVars
<1>3. CASE req' = req
  BY <1>1, <1>3, KeysQuiet
<1>4. CASE Uses(p)
  <2>1. \A q : Mounted(q)' => Mounted(q)
    BY <1>1 DEF Mounted
  <2>2. KeyOK(p)'
    <3>1. Ask(p)' = Ask(p) /\ Ask(p).kind # "luks" /\ keyfiles' = keyfiles
      BY <1>1, <1>4 DEF Uses, Ask
    <3>. QED
      BY <3>1 DEF KeyInv, KeyOK
  <2>3. ASSUME NEW q \in Clients, q # p PROVE KeyOK(q)'
    BY <1>1, <1>2, <2>1, <2>3, KeyStays DEF KeyInv
  <2>. QED
    BY <1>1, <2>2, <2>3 DEF KeyInv
<1>. QED
  BY <1>1, <1>3, <1>4

LEMMA KeyStart == ApiInit => KeyInv
BY DEF ApiInit, HubInit, KeyInv, KeyOK, Mounted

LEMMA KeyStep == HubInv /\ AnswerInv /\ KeyInv /\ [ApiNext]_apiVars => KeyInv'
<1>. SUFFICES ASSUME HubInv, AnswerInv, KeyInv, [ApiNext]_apiVars PROVE KeyInv'
  OBVIOUS
<1>1. CASE Startup
  <2>1. UNCHANGED <<scene, mounts, keyfiles>>
    BY <1>1 DEF Startup, StartFails, Start, Serve
  <2>2. \A q \in Clients : req'[q] = req[q]
    BY <1>1, StartupMoves, BootOnly DEF Touches, HubInv
  <2>. QED
    BY <2>1, <2>2, KeysQuiet
<1>2. ASSUME NEW p \in Procs, Service(p) \/ CallerTimesOut(p) \/ DropHandler(p) PROVE KeyInv'
  BY <1>2, ClientKeys, BootKeys DEF Procs
<1>3. ASSUME UNCHANGED hubVars PROVE KeyInv'
  BY <1>3, KeysQuiet DEF hubVars
<1>4. ASSUME NEW p \in Clients, Http(p) PROVE KeyInv'
  BY <1>4, HttpKeys
<1>. QED
  BY <1>1, <1>2, <1>3, <1>4 DEF ApiNext, ServerStart, apiVars

\* The plaintext key of a LUKS device stays in the guest's /tmp only for a
\* request that has not ended or has failed, and never beside the mounted
\* device: for any requests, also where the handler was dropped while
\* luks-encrypt-storage ran.
THEOREM KeyFilesAreRemoved == ApiSpec => []KeyFileRemoved
<1>1. ApiInit => HubInv /\ AnswerInv /\ KeyInv
  BY HubStart, AnswerStart, KeyStart
<1>2. HubInv /\ AnswerInv /\ KeyInv /\ [ApiNext]_apiVars => (HubInv /\ AnswerInv /\ KeyInv)'
  BY HubStep, AnswerStep, KeyStep
<1>3. KeyInv => KeyFileRemoved
  <2>. SUFFICES ASSUME KeyInv, NEW p \in DOMAIN keyfiles
       PROVE  (\A m \in mounts : m.by # p) /\ (req[p].pc = "done" => ~req[p].out.ok)
    BY DEF KeyFileRemoved
  <2>1. KeyOK(p)
    BY DEF KeyInv
  <2>. QED
    BY <2>1 DEF KeyOK, Mounted
<1>. QED
  BY <1>1, <1>2, <1>3, PTL DEF ApiSpec
=============================================================================

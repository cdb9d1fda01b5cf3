----------------------- MODULE SignaturePolicyProofs ------------------------
(***************************************************************************)
(* An accepted image is signed, a client is built from all its resources   *)
(* say or refused with a reason, and the verdict on an image is that of    *)
(* the most specific scope that covers it: for any policy, any names, any  *)
(* signatures in the registry and the sigstores, any number of pulls,      *)
(* moves of tags, changes of keys, failures and crashes.                   *)
(***************************************************************************)
EXTENDS SignaturePolicy, TLAPS, SequenceTheorems, WellFoundedInduction

-----------------------------------------------------------------------------
(* The invariants.                                                          *)

ChanFields == {"pc", "name", "data"}
CheckFields == {"pc", "ref", "input", "cred", "digest", "reqs", "i", "key", "source", "out", "clean"}
IsChan(c) == c = [f \in ChanFields |-> c[f]]
IsCheck(c) == c = [f \in CheckFields |-> c[f]]
Names == Stages \cup {"key"}

\* What is kept of a resource is the resource, a key the KBS has given, or what
\* a crash has left of it.
KeptRight == 
    /\ local = [n \in Names |-> local[n]]
    /\ local["policy"] \in {None, Torn, setup.policy}
    /\ local["key"] \in {None, Torn} \cup given

\* What is got.
ChannelRight ==
    /\ IsChan(chan)
    /\ chan.pc # "idle" => chan.name \in Names
    /\ chan.pc \in {"open", "fill"} /\ chan.name = "key" => chan.data \in given
    /\ chan.pc \in {"open", "fill"} /\ chan.name = "policy" => chan.data = setup.policy
    /\ chan.pc = "done" /\ chan.name = "policy" => chan.data \in {setup.policy, Torn}

\* The client's start asks for one resource after the other, and only a policy
\* that parses is used.
BuildRight ==
    /\ setup \in Setups
    /\ boot \in Stages /\ chan.pc # "idle" => chan.name = boot
    /\ boot = "config" => chan.pc = "idle"
    /\ boot \in {"files", "ready"} /\ Conf.policy # None => setup.policy # Unreadable
    /\ check.pc # "idle" => boot = "ready" /\ Conf.policy # None /\ check.out # "accept"

\* The key a requirement is checked with: one it trusts, or a torn one, which
\* has signed nothing.
KeyFor(req) == TrustedKeys(req) \cup {Torn}
KeyRight ==
    /\ check.pc = "key" =>
          /\ chan.name = "key" /\ Req.data = None
          /\ Scheme(Req.path) = "file" => chan.pc = "done"
          /\ chan.pc = "done" => chan.data \in KeyFor(Req)
    /\ check.pc \in {"signatures", "layers"} => check.key \in KeyFor(Req)
    /\ check.pc = "layers" => Req.type = "cosign"

\* The requirements before the one in progress are met, and all of them when
\* the image is accepted.
Checking == {"req", "key", "signatures", "layers"}
ListRight ==
    /\ IsCheck(check)
    /\ check.pc \in Checking =>
          /\ IsRequirements(check.reqs)
          /\ check.i \in 1..Len(check.reqs)
          /\ \A r, j : j \in 1..(check.i - 1) /\ r = check.reqs[j] => Met(r)
    /\ check.out = "accept" /\ Conf.policy # None =>
          \A r, j : j \in 1..Len(check.reqs) /\ r = check.reqs[j] => Met(r)

SignedInv == KeptRight /\ ChannelRight /\ BuildRight /\ KeyRight /\ ListRight

-----------------------------------------------------------------------------
(* Facts about the operators.                                               *)

LEMMA Constants ==
    /\ None # Torn /\ Torn \notin Keys /\ GuestKey \in Keys /\ None # "accept"
BY SignaturePolicyAssumption

\* The client's configuration file does not change.
LEMMA ConfStays == setup' = setup => Conf' = Conf
BY DEF Conf

\* The KBS takes no key back: what was met stays so.
LEMMA MetStays ==
    ASSUME setup' = setup, given \subseteq given',
           check'.digest = check.digest, check'.ref = check.ref, NEW req, Met(req)
    PROVE  Met(req)'
<1>1. AllSigs(req)' = AllSigs(req)
  BY DEF AllSigs
<1>2. TrustedKeys(req) \subseteq TrustedKeys(req)'
  BY DEF TrustedKeys
<1>3. ASSUME NEW s, IsSignatureOf(s, req, TrustedKeys(req))
      PROVE  IsSignatureOf(s, req, TrustedKeys(req))'
  BY <1>2, <1>3 DEF IsSignatureOf
<1>. QED
  BY <1>1, <1>3 DEF Met

\* A requirement of the list.
LEMMA ReqType ==
    ASSUME NEW reqs, IsRequirements(reqs), NEW i \in 1..Len(reqs)
    PROVE  reqs[i].type \in RequirementTypes /\ Len(reqs) \in Nat
<1>1. PICK S : reqs \in Seq(S)
  BY DEF IsRequirements
<1>2. DOMAIN reqs = 1..Len(reqs) /\ Len(reqs) \in Nat
  BY <1>1
<1>. QED
  BY <1>2 DEF IsRequirements

\* The key that was looked for, from the guest's file or from the KBS.
LEMMA GotResource ==
    ASSUME NEW name \in Names, NEW uri, GetResource(name, uri)
    PROVE  /\ IsChan(chan') /\ chan'.name = name
           /\ chan'.pc \in {"checkLocal", "done", "failed"}
           /\ Scheme(uri) = "file" => chan'.pc = "done"
           /\ chan'.pc = "done" =>
                 /\ Scheme(uri) = "file"
                 /\ name = "key" => chan'.data = GuestKey
                 /\ name = "policy" => chan'.data = setup.policy
<1>1. CASE Scheme(uri) = "kbs"
  <2>1. chan' = [Idle EXCEPT !.pc = "checkLocal", !.name = name]
    BY <1>1 DEF GetResource
  <2>. QED
    BY <1>1, <2>1 DEF Idle, IsChan, ChanFields
<1>2. CASE Scheme(uri) = "file"
  <2>1. chan' = [pc |-> "done", name |-> name, data |-> IF name = "key" THEN GuestKey ELSE Content(name)]
    BY <1>2 DEF GetResource
  <2>2. Content("policy") = setup.policy
    BY DEF Content
  <2>3. IsChan(chan') /\ chan'.pc = "done" /\ chan'.name = name
    BY <2>1 DEF IsChan, ChanFields
  <2>4. chan'.data = IF name = "key" THEN GuestKey ELSE Content(name)
    BY <2>1
  <2>. QED
    BY <1>2, <2>2, <2>3, <2>4
<1>3. CASE Scheme(uri) \notin {"kbs", "file"}
  <2>1. chan' = [Idle EXCEPT !.pc = "failed", !.name = name]
    BY <1>3 DEF GetResource
  <2>. QED
    BY <1>3, <2>1 DEF Idle, IsChan, ChanFields
<1>. QED
  BY <1>1, <1>2, <1>3

\* A set of natural numbers that is not empty has a least element.
LEMMA LeastNatural ==
    ASSUME NEW T \in SUBSET Nat, T # {}
    PROVE  Min(T) \in T /\ \A y \in T : Min(T) <= y
<1>. DEFINE Less == OpToRel(<, Nat)
<1>1. Less = {ss \in Nat \X Nat : ss[1] < ss[2]}
  BY DEF OpToRel
<1>2. IsWellFoundedOn(Less, Nat)
  BY NatLessThanWellFounded
<1>. HIDE DEF Less
<1>3. PICK x \in T : \A y \in T : ~(<<y, x>> \in Less)
  BY <1>2, WFMin
<1>4. ASSUME NEW y \in T PROVE x <= y
  <2>1. x \in Nat /\ y \in Nat /\ ~(<<y, x>> \in Less)
    BY <1>3
  <2>2. ~(y < x)
    BY <1>1, <2>1
  <2>. QED
    BY <2>1, <2>2
<1>. QED
  BY <1>4 DEF Min

\* A scope that is found is one of the map.
LEMMA FirstIsThere ==
    ASSUME NEW scopes, NEW map
    PROVE  FirstIn(scopes, map) = None \/ FirstIn(scopes, map) \in DOMAIN map
<1>. DEFINE found == {i \in 1..Len(scopes) : scopes[i] \in DOMAIN map}
<1>1. found \in SUBSET Nat
  OBVIOUS
<1>2. CASE found = {}
  BY <1>2 DEF FirstIn
<1>3. CASE found # {}
  <2>1. Min(found) \in found
    BY <1>1, <1>3, LeastNatural
  <2>2. FirstIn(scopes, map) = scopes[Min(found)]
    BY <1>3 DEF FirstIn
  <2>. QED
    BY <2>1, <2>2
<1>. QED
  BY <1>2, <1>3

\* A policy that parses has a list of requirements for every image.
LEMMA SelectedRequirements ==
    ASSUME IsPolicy(setup.policy), NEW ref
    PROVE  IsRequirements(RequirementsForImage(ref))
<1>. DEFINE map == setup.policy.docker
            scopes == <<Whole(ref)>> \o Namespaces(ref) \o <<<<>>>>
            scope == FirstIn(scopes, map)
<1>1. scope = None \/ scope \in DOMAIN map
  BY FirstIsThere
<1>2. RequirementsForImage(ref) = IF scope = None THEN setup.policy.default ELSE map[scope]
  BY DEF RequirementsForImage
<1>. QED
  BY <1>1, <1>2 DEF IsPolicy

LEMMA SignedInit == Init => SignedInv
<1>. SUFFICES ASSUME Init PROVE SignedInv
  OBVIOUS
<1>1. chan = Idle /\ check = NoCheck /\ boot = "config" /\ setup \in Setups
  BY DEF Init
<1>2. IsChan(Idle) /\ Idle.pc = "idle"
  BY DEF Idle, IsChan, ChanFields
<1>3. IsCheck(NoCheck) /\ NoCheck.pc = "idle" /\ NoCheck.out = None
  BY DEF NoCheck, IsCheck, CheckFields
<1>4. KeptRight
  BY DEF Init, KeptRight, Names, Stages
<1>5. ChannelRight
  BY <1>1, <1>2 DEF ChannelRight
<1>6. BuildRight
  BY <1>1, <1>2, <1>3 DEF BuildRight, Stages
<1>7. KeyRight
  BY <1>1, <1>3 DEF KeyRight
<1>8. ListRight
  BY <1>1, <1>3, Constants DEF ListRight, Checking
<1>. QED
  BY <1>4, <1>5, <1>6, <1>7, <1>8 DEF SignedInv

-----------------------------------------------------------------------------
(* What the parts of the invariant depend on.                               *)

LEMMA TrustGrows ==
    ASSUME given \subseteq given', NEW req
    PROVE  KeyFor(req) \subseteq KeyFor(req)'
BY DEF KeyFor, TrustedKeys

SameCheck ==
    /\ IsCheck(check')
    /\ check'.pc = check.pc /\ check'.out = check.out
    /\ check'.reqs = check.reqs /\ check'.i = check.i /\ check'.key = check.key
    /\ check'.digest = check.digest /\ check'.ref = check.ref

LEMMA ListStays ==
    ASSUME ListRight, SameCheck, setup' = setup, given \subseteq given'
    PROVE  ListRight'
<1>1. \A r : Met(r) => Met(r)'
  BY MetStays DEF SameCheck
<1>. QED
  BY <1>1, ConfStays DEF ListRight, SameCheck, IsRequirements

LEMMA KeyStays ==
    ASSUME KeyRight, SameCheck, chan' = chan, given \subseteq given'
    PROVE  KeyRight'
<1>1. Req' = Req
  BY DEF Req, SameCheck
<1>2. KeyFor(Req) \subseteq KeyFor(Req)'
  <2>1. PICK r : r = Req
    OBVIOUS
  <2>2. KeyFor(r) \subseteq KeyFor(r)'
    BY TrustGrows
  <2>. QED
    BY <1>1, <2>1, <2>2 DEF KeyFor, TrustedKeys
<1>. QED
  BY <1>1, <1>2 DEF KeyRight, SameCheck

LEMMA BuildStays ==
    ASSUME BuildRight, setup' = setup, boot' = boot,
           chan'.pc = "idle" <=> chan.pc = "idle", chan'.name = chan.name,
           check'.pc = check.pc, check'.out = check.out
    PROVE  BuildRight'
BY ConfStays DEF BuildRight

\* Nothing that the invariant is about.
LEMMA Unmoved ==
    ASSUME SignedInv, SameCheck, setup' = setup, boot' = boot, chan' = chan,
           local' = local, given' = given
    PROVE  SignedInv'
<1>1. KeptRight' /\ ChannelRight'
  BY DEF SignedInv, KeptRight, ChannelRight
<1>2. ListRight'
  BY ListStays DEF SignedInv
<1>3. KeyRight'
  BY KeyStays DEF SignedInv
<1>4. BuildRight'
  BY BuildStays DEF SignedInv, SameCheck
<1>. QED
  BY <1>1, <1>2, <1>3, <1>4 DEF SignedInv

-----------------------------------------------------------------------------
(* The channel.                                                             *)

\* A step of the channel leaves the check where it is.
LEMMA ChannelStep ==
    ASSUME SignedInv, SameCheck, setup' = setup, boot' = boot, given \subseteq given',
           chan.pc # "idle", chan.pc # "done", chan'.pc # "idle", chan'.name = chan.name,
           KeptRight', ChannelRight',
           check.pc = "key" /\ chan'.pc = "done" => chan'.data \in given' \cup {Torn}
    PROVE  SignedInv'
<1>1. ListRight' /\ BuildRight'
  BY ListStays, BuildStays DEF SignedInv, SameCheck
<1>2. Req' = Req
  BY DEF Req, SameCheck
<1>3. KeyRight'
  <2>1. KeyFor(Req) \subseteq KeyFor(Req)'
    <3>1. PICK r : r = Req
      OBVIOUS
    <3>2. KeyFor(r) \subseteq KeyFor(r)'
      BY TrustGrows
    <3>. QED
      BY <1>2, <3>1, <3>2 DEF KeyFor, TrustedKeys
  <2>2. ASSUME check.pc = "key" PROVE Req.data = None /\ Scheme(Req.path) # "file" /\ chan.name = "key"
    BY <2>2 DEF SignedInv, KeyRight
  <2>3. ASSUME check.pc = "key" PROVE KeyFor(Req)' = given' \cup {Torn}
    BY <1>2, <2>2, <2>3 DEF KeyFor, TrustedKeys
  <2>. QED
    BY <1>2, <2>1, <2>2, <2>3 DEF SignedInv, KeyRight, SameCheck
<1>. QED
  BY <1>1, <1>3 DEF SignedInv

LEMMA CheckLocalSigned == SignedInv /\ CheckLocal => SignedInv'
<1>. SUFFICES ASSUME SignedInv, CheckLocal PROVE SignedInv'
  OBVIOUS
<1>1. SameCheck /\ setup' = setup /\ boot' = boot /\ given' = given /\ local' = local
  BY DEF CheckLocal, SameCheck, client, SignedInv, ListRight
<1>2. IsChan(chan) /\ chan.pc = "checkLocal" /\ chan.name \in Names
  BY DEF CheckLocal, SignedInv, ChannelRight
<1>3. KeptRight'
  BY <1>1 DEF SignedInv, KeptRight
<1>4. CASE local[chan.name] # None
  <2>1. chan' = [chan EXCEPT !.pc = "done", !.data = local[chan.name]]
    BY <1>4 DEF CheckLocal
  <2>2. IsChan(chan') /\ chan'.pc = "done" /\ chan'.name = chan.name /\ chan'.data = local[chan.name]
    BY <1>2, <2>1 DEF IsChan, ChanFields
  <2>3. ChannelRight'
    BY <1>1, <1>2, <1>4, <2>2 DEF SignedInv, KeptRight, ChannelRight
  <2>4. check.pc = "key" => chan.name = "key"
    BY DEF SignedInv, KeyRight
  <2>5. check.pc = "key" => chan'.data \in given' \cup {Torn}
    BY <1>1, <1>4, <2>2, <2>4 DEF SignedInv, KeptRight
  <2>. QED
    BY <1>1, <1>2, <1>3, <2>2, <2>3, <2>5, ChannelStep
<1>5. CASE local[chan.name] = None
  <2>1. chan' = [chan EXCEPT !.pc = "fetch"]
    BY <1>5 DEF CheckLocal
  <2>2. IsChan(chan') /\ chan'.pc = "fetch" /\ chan'.name = chan.name
    BY <1>2, <2>1 DEF IsChan, ChanFields
  <2>3. ChannelRight'
    BY <1>1, <1>2, <2>2 DEF ChannelRight
  <2>. QED
    BY <1>1, <1>2, <1>3, <2>2, <2>3, ChannelStep
<1>. QED
  BY <1>4, <1>5

LEMMA FetchSigned == SignedInv /\ Fetch => SignedInv'
<1>. SUFFICES ASSUME SignedInv, Fetch PROVE SignedInv'
  OBVIOUS
<1>1. SameCheck /\ setup' = setup /\ boot' = boot /\ local' = local
  BY DEF Fetch, SameCheck, client, SignedInv, ListRight
<1>2. IsChan(chan) /\ chan.pc = "fetch" /\ chan.name \in Names
  BY DEF Fetch, SignedInv, ChannelRight
<1>3. given \subseteq given' /\ (chan.name = "key" => kbsKey \in given')
  BY DEF Fetch
<1>4. KeptRight'
  BY <1>1, <1>3 DEF SignedInv, KeptRight
<1>5. chan' = [chan EXCEPT !.pc = "open", !.data = Content(chan.name)]
  BY DEF Fetch
<1>6. IsChan(chan') /\ chan'.pc = "open" /\ chan'.name = chan.name /\ chan'.data = Content(chan.name)
  BY <1>2, <1>5 DEF IsChan, ChanFields
<1>7. Content("key") = kbsKey /\ Content("policy") = setup.policy
  BY DEF Content
<1>8. ChannelRight'
  BY <1>1, <1>2, <1>3, <1>6, <1>7 DEF ChannelRight
<1>. QED
  BY <1>1, <1>2, <1>3, <1>4, <1>6, <1>8, ChannelStep

LEMMA OpenLocalSigned == SignedInv /\ OpenLocal => SignedInv'
<1>. SUFFICES ASSUME SignedInv, OpenLocal PROVE SignedInv'
  OBVIOUS
<1>1. SameCheck /\ setup' = setup /\ boot' = boot /\ given' = given
  BY DEF OpenLocal, SameCheck, client, SignedInv, ListRight
<1>2. IsChan(chan) /\ chan.pc = "open" /\ chan.name \in Names
  BY DEF OpenLocal, SignedInv, ChannelRight
<1>3. KeptRight'
  BY <1>1, <1>2 DEF OpenLocal, SignedInv, KeptRight, Names, Stages
<1>4. chan' = [chan EXCEPT !.pc = "fill"]
  BY DEF OpenLocal
<1>5. IsChan(chan') /\ chan'.pc = "fill" /\ chan'.name = chan.name /\ chan'.data = chan.data
  BY <1>2, <1>4 DEF IsChan, ChanFields
<1>6. ChannelRight'
  BY <1>1, <1>2, <1>5 DEF SignedInv, ChannelRight
<1>. QED
  BY <1>1, <1>2, <1>3, <1>5, <1>6, ChannelStep

LEMMA FillLocalSigned == SignedInv /\ FillLocal => SignedInv'
<1>. SUFFICES ASSUME SignedInv, FillLocal PROVE SignedInv'
  OBVIOUS
<1>1. SameCheck /\ setup' = setup /\ boot' = boot /\ given' = given
  BY DEF FillLocal, SameCheck, client, SignedInv, ListRight
<1>2. IsChan(chan) /\ chan.pc = "fill" /\ chan.name \in Names
  BY DEF FillLocal, SignedInv, ChannelRight
<1>3. /\ chan.name = "key" => chan.data \in given
      /\ chan.name = "policy" => chan.data = setup.policy
  BY <1>2 DEF SignedInv, ChannelRight
<1>4. KeptRight'
  BY <1>1, <1>2, <1>3 DEF FillLocal, SignedInv, KeptRight, Names, Stages
<1>5. chan' = [chan EXCEPT !.pc = "done"]
  BY DEF FillLocal
<1>6. IsChan(chan') /\ chan'.pc = "done" /\ chan'.name = chan.name /\ chan'.data = chan.data
  BY <1>2, <1>5 DEF IsChan, ChanFields
<1>7. ChannelRight'
  BY <1>1, <1>2, <1>3, <1>6 DEF ChannelRight
<1>8. check.pc = "key" => chan'.data \in given' \cup {Torn}
  BY <1>1, <1>3, <1>6 DEF SignedInv, KeyRight
<1>. QED
  BY <1>1, <1>2, <1>4, <1>6, <1>7, <1>8, ChannelStep

LEMMA GetFailsSigned == SignedInv /\ GetFails => SignedInv'
<1>. SUFFICES ASSUME SignedInv, GetFails PROVE SignedInv'
  OBVIOUS
<1>1. setup' = setup /\ boot' = boot /\ given' = given /\ local' = local
  BY DEF GetFails, client
<1>2. SameCheck
  <2>1. check' = [check EXCEPT !.clean = FALSE]
    BY DEF GetFails
  <2>. QED
    BY <2>1 DEF SignedInv, ListRight, IsCheck, CheckFields, SameCheck
<1>3. IsChan(chan) /\ chan.pc \in {"fetch", "open", "fill"} /\ chan.name \in Names
  BY DEF GetFails, SignedInv, ChannelRight
<1>4. chan' = [chan EXCEPT !.pc = "failed"]
  BY DEF GetFails
<1>5. IsChan(chan') /\ chan'.pc = "failed" /\ chan'.name = chan.name
  BY <1>3, <1>4 DEF IsChan, ChanFields
<1>6. ChannelRight' /\ KeptRight'
  BY <1>1, <1>3, <1>5 DEF SignedInv, ChannelRight, KeptRight
<1>. QED
  BY <1>1, <1>2, <1>3, <1>5, <1>6, ChannelStep

-----------------------------------------------------------------------------
(* The client's start: no image is being checked.                           *)

LEMMA BuildStep ==
    ASSUME SignedInv, boot # "ready", UNCHANGED <<setup, check, local, given>>,
           ChannelRight',
           boot' \in Stages /\ chan'.pc # "idle" => chan'.name = boot',
           boot' = "config" => chan'.pc = "idle",
           boot' \in {"files", "ready"} /\ Conf.policy # None => setup.policy # Unreadable
    PROVE  SignedInv'
<1>1. check.pc = "idle"
  BY DEF SignedInv, BuildRight
<1>2. SameCheck
  BY DEF SameCheck, SignedInv, ListRight
<1>3. KeptRight' /\ KeyRight'
  BY <1>1 DEF SignedInv, KeptRight, KeyRight
<1>4. ListRight'
  BY <1>2, ListStays DEF SignedInv
<1>5. BuildRight'
  BY <1>1, ConfStays DEF SignedInv, BuildRight
<1>. QED
  BY <1>3, <1>4, <1>5 DEF SignedInv

LEMMA LoadConfigSigned == SignedInv /\ LoadConfig => SignedInv'
<1>. SUFFICES ASSUME SignedInv, LoadConfig PROVE SignedInv'
  OBVIOUS
<1>1. boot = "config" /\ boot' \in {"failed", "auth"} /\ UNCHANGED <<setup, chan, check, local, given>>
  BY DEF LoadConfig
<1>2. chan.pc = "idle"
  BY <1>1 DEF SignedInv, BuildRight
<1>3. ChannelRight'
  BY <1>1 DEF SignedInv, ChannelRight
<1>. QED
  BY <1>1, <1>2, <1>3, BuildStep

LEMMA AskResourceSigned == SignedInv /\ AskResource => SignedInv'
<1>. SUFFICES ASSUME SignedInv, AskResource PROVE SignedInv'
  OBVIOUS
<1>1. boot \in Stages /\ chan.pc = "idle" /\ UNCHANGED <<setup, check, local, given>>
  BY DEF AskResource
<1>2. CASE Conf[boot] = None
  <2>1. boot' = After(boot) /\ chan' = chan
    BY <1>2 DEF AskResource
  <2>2. boot' \in {"sigstore", "policy"} \/ (boot = "policy" /\ boot' = "ready")
    BY <1>1, <2>1 DEF After, Stages
  <2>3. ChannelRight'
    BY <1>1, <2>1 DEF SignedInv, ChannelRight
  <2>. QED
    BY <1>1, <1>2, <2>1, <2>2, <2>3, BuildStep DEF Stages
<1>3. CASE Conf[boot] # None
  <2>1. GetResource(boot, Conf[boot]) /\ boot' = boot /\ boot \in Names
    BY <1>1, <1>3 DEF AskResource, Names
  <2>2. /\ IsChan(chan') /\ chan'.name = boot
        /\ chan'.pc \in {"checkLocal", "done", "failed"}
        /\ chan'.pc = "done" /\ boot = "policy" => chan'.data = setup.policy
    <3>1. PICK name, uri : name = boot /\ uri = Conf[boot]
      OBVIOUS
    <3>2. name \in Names /\ GetResource(name, uri)
      BY <2>1, <3>1
    <3>. QED
      BY <3>1, <3>2, GotResource
  <2>3. ChannelRight'
    BY <1>1, <2>1, <2>2 DEF ChannelRight
  <2>. QED
    BY <1>1, <2>1, <2>2, <2>3, BuildStep DEF Stages
<1>. QED
  BY <1>2, <1>3

\* Nothing is being got.
LEMMA ChannelIdle ==
    ASSUME chan' = Idle
    PROVE  ChannelRight' /\ chan'.pc = "idle"
<1>1. IsChan(Idle) /\ Idle.pc = "idle"
  BY DEF Idle, IsChan, ChanFields
<1>. QED
  BY <1>1 DEF ChannelRight

LEMMA TakeResourceSigned == SignedInv /\ TakeResource => SignedInv'
<1>. SUFFICES ASSUME SignedInv, TakeResource PROVE SignedInv'
  OBVIOUS
<1>1. boot \in Stages /\ chan.pc = "done" /\ chan' = Idle /\ UNCHANGED <<setup, check, local, given>>
  BY DEF TakeResource
<1>2. chan.name = boot
  BY <1>1 DEF SignedInv, BuildRight
<1>3. boot = "policy" => chan.data \in {setup.policy, Torn}
  BY <1>1, <1>2 DEF SignedInv, ChannelRight
<1>4. ChannelRight' /\ chan'.pc = "idle"
  BY <1>1, ChannelIdle
<1>5. \/ boot' \in {"failed", "sigstore", "policy"}
      \/ boot = "policy" /\ boot' \in {"ready", "files"} /\ Parses(chan.data)
  BY <1>1 DEF TakeResource, Stages
<1>6. boot' \in {"files", "ready"} => setup.policy # Unreadable
  BY <1>3, <1>5 DEF Parses
<1>. QED
  BY <1>1, <1>4, <1>5, <1>6, BuildStep DEF Stages

LEMMA BuildFailsSigned == SignedInv /\ BuildFails => SignedInv'
<1>. SUFFICES ASSUME SignedInv, BuildFails PROVE SignedInv'
  OBVIOUS
<1>1. /\ boot \in Stages /\ boot' = "failed" /\ chan' = Idle
      /\ UNCHANGED <<setup, check, local, given>>
  BY DEF BuildFails
<1>2. ChannelRight' /\ chan'.pc = "idle"
  BY <1>1, ChannelIdle
<1>. QED
  BY <1>1, <1>2, BuildStep DEF Stages

LEMMA MergeSigned ==
    ASSUME SignedInv, MergeInline \/ \E f \in todo : MergeFile(f)
    PROVE  SignedInv'
<1>1. boot = "files" /\ boot' \in {"failed", "files", "ready"} /\ UNCHANGED <<setup, chan, check, local, given>>
  BY DEF MergeInline, MergeFile, UpdateSelf
<1>2. Conf.policy # None => setup.policy # Unreadable
  BY <1>1 DEF SignedInv, BuildRight
<1>3. ChannelRight'
  BY <1>1 DEF SignedInv, ChannelRight
<1>. QED
  BY <1>1, <1>2, <1>3, BuildStep DEF Stages

-----------------------------------------------------------------------------
(* The check of an image.                                                   *)

LEMMA PullStep ==
    ASSUME SignedInv, boot = "ready", UNCHANGED <<setup, boot, local, given>>,
           ChannelRight', KeyRight', ListRight',
           check'.pc # "idle" => Conf.policy # None /\ check'.out # "accept"
    PROVE  SignedInv'
<1>1. KeptRight'
  BY DEF SignedInv, KeptRight
<1>2. BuildRight'
  BY ConfStays DEF SignedInv, BuildRight, Stages
<1>. QED
  BY <1>1, <1>2 DEF SignedInv

\* While an image is checked the client is built, and its policy parses.
LEMMA InCheck ==
    ASSUME SignedInv, check.pc # "idle"
    PROVE  /\ boot = "ready" /\ Conf.policy # None /\ check.out # "accept"
           /\ IsPolicy(setup.policy) /\ IsCheck(check)
<1>1. boot = "ready" /\ Conf.policy # None /\ check.out # "accept" /\ setup \in Setups
  BY DEF SignedInv, BuildRight
<1>2. setup.policy # Unreadable
  BY <1>1 DEF SignedInv, BuildRight
<1>. QED
  BY <1>1, <1>2, SignaturePolicyAssumption DEF SignedInv, ListRight

LEMMA StartSigned ==
    ASSUME SignedInv, NEW ref, NEW input, Start(ref, input)
    PROVE  SignedInv'
<1>1. boot = "ready" /\ UNCHANGED <<setup, boot, chan, local, given>>
  BY DEF Start, client
<1>2. PICK cred : 
        LET begun == [NoCheck EXCEPT !.ref = ref, !.input = input, !.cred = cred,
                          !.clean = local["key"] \in {None, kbsKey}]
        IN check' =
             IF cred = None \/ Conf.badCert THEN [begun EXCEPT !.out = "error"]
             ELSE [begun EXCEPT
                     !.digest = IF ref.digest # None THEN ref.digest ELSE tagged,
                     !.pc = IF Conf.policy = None THEN "idle" ELSE "select",
                     !.out = IF Conf.policy = None THEN "accept" ELSE None]
  BY DEF Start
<1>3. /\ IsCheck(check') /\ check'.pc \in {"idle", "select"}
      /\ check'.pc = "select" => Conf.policy # None /\ check'.out = None
      /\ check'.out = "accept" => Conf.policy = None
  BY <1>2, Constants DEF NoCheck, IsCheck, CheckFields
<1>4. ChannelRight' /\ KeyRight'
  BY <1>1, <1>3 DEF SignedInv, ChannelRight, KeyRight
<1>5. ListRight'
  BY <1>1, <1>3, ConfStays DEF ListRight, Checking
<1>. QED
  BY <1>1, <1>3, <1>4, <1>5, Constants, PullStep

\* The check ends, but not with a yes.
LEMMA EndSigned ==
    ASSUME SignedInv, check.pc # "idle", UNCHANGED <<setup, boot, local, given>>,
           ChannelRight', IsCheck(check'), check'.pc = "idle", check'.out # "accept"
    PROVE  SignedInv'
<1>1. boot = "ready"
  BY InCheck
<1>2. KeyRight' /\ ListRight'
  BY DEF KeyRight, ListRight, Checking
<1>. QED
  BY <1>1, <1>2, PullStep

LEMMA SelectSigned == SignedInv /\ Select => SignedInv'
<1>. SUFFICES ASSUME SignedInv, Select PROVE SignedInv'
  OBVIOUS
<1>1. check.pc = "select" /\ UNCHANGED <<setup, boot, chan, local, given>>
  BY DEF Select, At, client
<1>2. /\ boot = "ready" /\ Conf.policy # None /\ check.out # "accept"
      /\ IsPolicy(setup.policy) /\ IsCheck(check)
  BY <1>1, InCheck
<1>3. ChannelRight'
  BY <1>1 DEF SignedInv, ChannelRight
<1>4. PICK reqs : reqs = RequirementsForImage(check.ref)
  OBVIOUS
<1>5. IsRequirements(reqs)
  BY <1>2, <1>4, SelectedRequirements
<1>6. CASE ~IsDigest(check.digest) \/ reqs = <<>>
  <2>1. check' = [check EXCEPT !.reqs = reqs, !.pc = "idle", !.out = "reject"]
    BY <1>4, <1>6 DEF Select
  <2>2. IsCheck(check') /\ check'.pc = "idle" /\ check'.out = "reject"
    BY <1>2, <2>1 DEF IsCheck, CheckFields
  <2>. QED
    BY <1>1, <1>3, <2>2, EndSigned
<1>7. CASE ~(~IsDigest(check.digest) \/ reqs = <<>>)
  <2>1. check' = [check EXCEPT !.reqs = reqs, !.pc = "req", !.i = 1]
    BY <1>4, <1>7 DEF Select
  <2>2. /\ IsCheck(check') /\ check'.pc = "req" /\ check'.out = check.out
        /\ check'.reqs = reqs /\ check'.i = 1
    BY <1>2, <2>1 DEF IsCheck, CheckFields
  <2>3. Len(reqs) \in Nat /\ Len(reqs) # 0
    BY <1>5, <1>7, EmptySeq DEF IsRequirements
  <2>4. 1 \in 1..Len(reqs) /\ 1..(1 - 1) = {}
    BY <2>3
  <2>5. ListRight'
    BY <1>2, <1>5, <2>2, <2>4 DEF ListRight
  <2>6. KeyRight'
    BY <2>2 DEF KeyRight
  <2>. QED
    BY <1>1, <1>2, <1>3, <2>2, <2>5, <2>6, PullStep
<1>. QED
  BY <1>6, <1>7

\* A requirement is met: all up to this one are.
LEMMA AllowedSigned ==
    ASSUME SignedInv, check.pc \in Checking, Met(Req), Allowed,
           UNCHANGED <<setup, boot, chan, local, given>>
    PROVE  SignedInv'
<1>1. /\ boot = "ready" /\ Conf.policy # None /\ check.out # "accept" /\ IsCheck(check)
  BY InCheck DEF Checking
<1>2. /\ IsRequirements(check.reqs) /\ check.i \in 1..Len(check.reqs)
      /\ \A r, j : j \in 1..(check.i - 1) /\ r = check.reqs[j] => Met(r)
  BY DEF SignedInv, ListRight
<1>3. Len(check.reqs) \in Nat
  BY <1>2, ReqType
<1>4. PICK n, len : n = check.i /\ len = Len(check.reqs)
  OBVIOUS
<1>5. ASSUME NEW r, NEW j, j \in 1..n, r = check.reqs[j] PROVE Met(r)
  <2>1. j \in 1..(n - 1) \/ j = n
    BY <1>2, <1>3, <1>4, <1>5
  <2>. QED
    BY <1>2, <1>4, <1>5, <2>1 DEF Req
<1>6. ChannelRight'
  BY DEF SignedInv, ChannelRight
<1>7. CASE n < len
  <2>1. check' = [check EXCEPT !.pc = "req", !.i = @ + 1, !.key = None]
    BY <1>4, <1>7 DEF Allowed
  <2>2. /\ IsCheck(check') /\ check'.pc = "req" /\ check'.out = check.out
        /\ check'.reqs = check.reqs /\ check'.i = n + 1
        /\ check'.ref = check.ref /\ check'.digest = check.digest
    BY <1>1, <1>4, <2>1 DEF IsCheck, CheckFields
  <2>3. \A r : Met(r) => Met(r)'
    BY <2>2, MetStays
  <2>4. n + 1 \in 1..len /\ (n + 1) - 1 = n
    BY <1>2, <1>3, <1>4, <1>7
  <2>5. ListRight'
    BY <1>1, <1>2, <1>4, <1>5, <2>2, <2>3, <2>4 DEF ListRight
  <2>6. KeyRight'
    BY <2>2 DEF KeyRight
  <2>. QED
    BY <1>1, <1>6, <2>2, <2>5, <2>6, PullStep
<1>8. CASE ~(n < len)
  <2>1. check' = [check EXCEPT !.pc = "idle", !.out = "accept"]
    BY <1>4, <1>8 DEF Allowed, End
  <2>2. /\ IsCheck(check') /\ check'.pc = "idle" /\ check'.reqs = check.reqs
        /\ check'.ref = check.ref /\ check'.digest = check.digest
    BY <1>1, <2>1 DEF IsCheck, CheckFields
  <2>3. \A r : Met(r) => Met(r)'
    BY <2>2, MetStays
  <2>4. n = len
    BY <1>2, <1>3, <1>4, <1>8
  <2>5. ListRight'
    BY <1>4, <1>5, <2>2, <2>3, <2>4 DEF ListRight, Checking
  <2>6. KeyRight'
    BY <2>2 DEF KeyRight
  <2>. QED
    BY <1>1, <1>6, <2>2, <2>5, <2>6, PullStep
<1>. QED
  BY <1>7, <1>8

\* The check goes on with the same requirement.
LEMMA GoesOnSigned ==
    ASSUME SignedInv, check.pc \in Checking, check'.pc \in Checking, IsCheck(check'),
           check'.reqs = check.reqs, check'.i = check.i, check'.out = check.out,
           check'.ref = check.ref, check'.digest = check.digest,
           UNCHANGED <<setup, boot, local, given>>, ChannelRight', KeyRight'
    PROVE  SignedInv'
<1>1. boot = "ready" /\ Conf.policy # None /\ check.out # "accept"
  BY InCheck DEF Checking
<1>2. \A r : Met(r) => Met(r)'
  BY MetStays
<1>3. ListRight'
  BY <1>1, <1>2 DEF SignedInv, ListRight, IsRequirements
<1>. QED
  BY <1>1, <1>3, PullStep

LEMMA RequirementSigned == SignedInv /\ Requirement => SignedInv'
<1>. SUFFICES ASSUME SignedInv, Requirement PROVE SignedInv'
  OBVIOUS
<1>1. check.pc = "req" /\ UNCHANGED <<setup, boot, local, given>>
  BY DEF Requirement, At, client
<1>2. check.pc \in Checking /\ check.pc # "idle" /\ IsCheck(check)
  BY <1>1, InCheck DEF Checking
<1>3. Req.type \in RequirementTypes
  BY <1>2, ReqType DEF SignedInv, ListRight, Req
<1>4. chan' = chan => ChannelRight'
  BY <1>1 DEF SignedInv, ChannelRight
<1>5. CASE Req.type = "accept"
  <2>1. Allowed /\ chan' = chan
    BY <1>5 DEF Requirement
  <2>2. Met(Req)
    BY <1>5 DEF Met
  <2>. QED
    BY <1>1, <1>2, <2>1, <2>2, AllowedSigned
<1>6. CASE End("reject") /\ chan' = chan
  <2>1. check' = [check EXCEPT !.pc = "idle", !.out = "reject"]
    BY <1>6 DEF End
  <2>2. IsCheck(check') /\ check'.pc = "idle" /\ check'.out = "reject"
    BY <1>2, <2>1 DEF IsCheck, CheckFields
  <2>. QED
    BY <1>1, <1>2, <1>4, <1>6, <2>2, EndSigned
<1>7. CASE Req.type \in {"simple", "cosign"} /\ WellFormed(Req) /\ Req.path # None
  <2>1. GetResource("key", Req.path) /\ check' = [check EXCEPT !.pc = "key"]
    BY <1>7 DEF Requirement
  <2>2. /\ IsCheck(check') /\ check'.pc = "key" /\ check'.out = check.out
        /\ check'.reqs = check.reqs /\ check'.i = check.i
        /\ check'.ref = check.ref /\ check'.digest = check.digest
    BY <1>2, <2>1 DEF IsCheck, CheckFields
  <2>3. /\ IsChan(chan') /\ chan'.name = "key"
        /\ chan'.pc \in {"checkLocal", "done", "failed"}
        /\ Scheme(Req.path) = "file" => chan'.pc = "done"
        /\ chan'.pc = "done" => Scheme(Req.path) = "file" /\ chan'.data = GuestKey
    <3>1. PICK uri : uri = Req.path
      OBVIOUS
    <3>2. GetResource("key", uri) /\ "key" \in Names
      BY <2>1, <3>1 DEF Names
    <3>. QED
      BY <3>1, <3>2, GotResource
  <2>4. ChannelRight'
    BY <2>3 DEF ChannelRight, Names
  <2>5. Req.data = None
    BY <1>7 DEF WellFormed
  <2>6. Req' = Req
    BY <2>2 DEF Req
  <2>7. Scheme(Req.path) = "file" => GuestKey \in KeyFor(Req)'
    BY <2>5, <2>6 DEF KeyFor, TrustedKeys
  <2>8. KeyRight'
    BY <2>2, <2>3, <2>5, <2>6, <2>7 DEF KeyRight
  <2>. QED
    BY <1>1, <1>2, <2>2, <2>4, <2>8, GoesOnSigned DEF Checking
<1>8. CASE Req.type \in {"simple", "cosign"} /\ WellFormed(Req) /\ Req.path = None
  <2>1. check' = [check EXCEPT !.pc = "signatures", !.key = Req.data] /\ chan' = chan
    BY <1>8 DEF Requirement
  <2>2. /\ IsCheck(check') /\ check'.pc = "signatures" /\ check'.out = check.out
        /\ check'.reqs = check.reqs /\ check'.i = check.i /\ check'.key = Req.data
        /\ check'.ref = check.ref /\ check'.digest = check.digest
    BY <1>2, <2>1 DEF IsCheck, CheckFields
  <2>3. Req.data # None
    BY <1>8 DEF WellFormed
  <2>4. Req' = Req
    BY <2>2 DEF Req
  <2>5. Req.data \in KeyFor(Req)'
    BY <2>3, <2>4 DEF KeyFor, TrustedKeys
  <2>6. KeyRight'
    BY <2>2, <2>5 DEF KeyRight
  <2>. QED
    BY <1>1, <1>2, <1>4, <2>1, <2>2, <2>6, GoesOnSigned DEF Checking
<1>9. CASE Req.type = "reject" \/ (Req.type \in {"simple", "cosign"} /\ ~WellFormed(Req))
  <2>1. End("reject") /\ chan' = chan
    BY <1>9 DEF Requirement
  <2>. QED
    BY <1>6, <2>1
<1>. QED
  BY <1>3, <1>5, <1>7, <1>8, <1>9 DEF RequirementTypes

LEMMA TakeKeySigned == SignedInv /\ TakeKey => SignedInv'
<1>. SUFFICES ASSUME SignedInv, TakeKey PROVE SignedInv'
  OBVIOUS
<1>1. /\ check.pc = "key" /\ chan.pc \in {"done", "failed"} /\ chan' = Idle
      /\ UNCHANGED <<setup, boot, local, given>>
  BY DEF TakeKey, At, client
<1>2. check.pc \in Checking /\ check.pc # "idle" /\ IsCheck(check)
  BY <1>1, InCheck DEF Checking
<1>3. ChannelRight'
  BY <1>1, ChannelIdle
<1>4. CASE chan.pc = "done"
  <2>1. check' = [check EXCEPT !.pc = "signatures", !.key = chan.data]
    BY <1>4 DEF TakeKey
  <2>2. /\ IsCheck(check') /\ check'.pc = "signatures" /\ check'.out = check.out
        /\ check'.reqs = check.reqs /\ check'.i = check.i /\ check'.key = chan.data
        /\ check'.ref = check.ref /\ check'.digest = check.digest
    BY <1>2, <2>1 DEF IsCheck, CheckFields
  <2>3. chan.data \in KeyFor(Req)
    BY <1>1, <1>4 DEF SignedInv, KeyRight
  <2>4. KeyRight'
    BY <1>1, <2>2, <2>3 DEF KeyRight, KeyFor, TrustedKeys, Req
  <2>. QED
    BY <1>1, <1>2, <1>3, <2>2, <2>4, GoesOnSigned DEF Checking
<1>5. CASE chan.pc = "failed"
  <2>1. check' = [check EXCEPT !.pc = "idle", !.out = "reject"]
    BY <1>5 DEF TakeKey, End
  <2>2. IsCheck(check') /\ check'.pc = "idle" /\ check'.out = "reject"
    BY <1>2, <2>1 DEF IsCheck, CheckFields
  <2>. QED
    BY <1>1, <1>2, <1>3, <2>2, EndSigned
<1>. QED
  BY <1>1, <1>4, <1>5

-----------------------------------------------------------------------------
(* The signatures.                                                          *)

\* A torn key has signed nothing, so the signature is by a key that is trusted.
LEMMA SignedByTrusted ==
    ASSUME NEW req, NEW key \in KeyFor(req), NEW s, s.by \in Keys, s.by = key
    PROVE  s.by \in TrustedKeys(req)
BY Constants DEF KeyFor

LEMMA SignaturesKnown ==
    ASSUME setup \in Setups, NEW s \in Signatures, NEW req, req.type = "simple"
    PROVE  s \in AllSigs(req) /\ s.by \in Keys
<1>1. \/ setup.registry # None /\ s \in setup.registry
      \/ \E url \in FileUrls : s \in SimpleSigs[url]
  BY DEF Signatures, RegistrySigs, AtImage
<1>. QED
  BY <1>1, SignaturePolicyAssumption DEF AllSigs

LEMMA SimpleSigningSigned == SignedInv /\ SimpleSigning => SignedInv'
<1>. SUFFICES ASSUME SignedInv, SimpleSigning PROVE SignedInv'
  OBVIOUS
<1>1. /\ check.pc = "signatures" /\ Req.type = "simple"
      /\ UNCHANGED <<setup, boot, chan, local, given>>
  BY DEF SimpleSigning, At, client
<1>2. check.pc \in Checking /\ check.pc # "idle" /\ IsCheck(check)
  BY <1>1, InCheck DEF Checking
<1>3. CASE SimpleAllows
  <2>1. PICK s \in Signatures : Judge(Req, s)
    BY <1>3 DEF SimpleAllows
  <2>2. s \in AllSigs(Req) /\ s.by \in Keys
    BY <1>1, SignaturesKnown DEF SignedInv, BuildRight
  <2>3. check.key \in KeyFor(Req)
    BY <1>1 DEF SignedInv, KeyRight
  <2>4. s.by \in TrustedKeys(Req)
    BY <2>1, <2>2, <2>3, SignedByTrusted DEF Judge
  <2>5. IsSignatureOf(s, Req, TrustedKeys(Req))
    BY <1>1, <2>1, <2>4 DEF IsSignatureOf, Judge, SignedReference, SignedDigest
  <2>6. Met(Req)
    BY <1>1, <2>2, <2>5 DEF Met
  <2>. QED
    BY <1>1, <1>2, <1>3, <2>6, AllowedSigned DEF SimpleSigning
<1>4. CASE ~SimpleAllows
  <2>1. check' = [check EXCEPT !.pc = "idle", !.out = "reject"]
    BY <1>4 DEF SimpleSigning, End
  <2>2. IsCheck(check') /\ check'.pc = "idle" /\ check'.out = "reject"
    BY <1>2, <2>1 DEF IsCheck, CheckFields
  <2>3. ChannelRight'
    BY <1>1 DEF SignedInv, ChannelRight
  <2>. QED
    BY <1>1, <1>2, <2>2, <2>3, EndSigned
<1>. QED
  BY <1>3, <1>4

LEMMA TriangulateSigned == SignedInv /\ Triangulate => SignedInv'
<1>. SUFFICES ASSUME SignedInv, Triangulate PROVE SignedInv'
  OBVIOUS
<1>1. /\ check.pc = "signatures" /\ Req.type = "cosign"
      /\ UNCHANGED <<setup, boot, chan, local, given>>
  BY DEF Triangulate, At, client
<1>2. check.pc \in Checking /\ IsCheck(check)
  BY <1>1, InCheck DEF Checking
<1>3. PICK source : check' = [check EXCEPT !.pc = "layers", !.source = source]
  BY DEF Triangulate
<1>4. /\ IsCheck(check') /\ check'.pc = "layers" /\ check'.out = check.out
      /\ check'.reqs = check.reqs /\ check'.i = check.i /\ check'.key = check.key
      /\ check'.ref = check.ref /\ check'.digest = check.digest
  BY <1>2, <1>3 DEF IsCheck, CheckFields
<1>5. check.key \in KeyFor(Req)
  BY <1>1 DEF SignedInv, KeyRight
<1>6. KeyRight'
  BY <1>1, <1>4, <1>5 DEF KeyRight, KeyFor, TrustedKeys, Req
<1>7. ChannelRight'
  BY <1>1 DEF SignedInv, ChannelRight
<1>. QED
  BY <1>1, <1>2, <1>4, <1>6, <1>7, GoesOnSigned DEF Checking

\* Wherever the tag points now: the payload names the digest that was pulled.
LEMMA CosignSigned == SignedInv /\ Cosign => SignedInv'
<1>. SUFFICES ASSUME SignedInv, Cosign PROVE SignedInv'
  OBVIOUS
<1>1. check.pc = "layers" /\ UNCHANGED <<setup, boot, chan, local, given>>
  BY DEF Cosign, At, client
<1>2. check.pc \in Checking /\ check.pc # "idle" /\ IsCheck(check)
  BY <1>1, InCheck DEF Checking
<1>3. Req.type = "cosign" /\ check.key \in KeyFor(Req)
  BY <1>1 DEF SignedInv, KeyRight
<1>4. CASE CosignAllows
  <2>1. PICK s \in Layers : s.by = check.key
    BY <1>4 DEF CosignAllows
  <2>2. /\ Req.rule # None => SignedReference(Req.rule, s)
        /\ SignedDigest(s)
    BY <1>4 DEF CosignAllows
  <2>3. s \in CosignSigs /\ s.by \in Keys
    BY SignaturePolicyAssumption DEF Layers
  <2>4. s.by \in TrustedKeys(Req)
    BY <1>3, <2>1, <2>3, SignedByTrusted
  <2>5. IsSignatureOf(s, Req, TrustedKeys(Req))
    BY <1>3, <2>2, <2>4 DEF IsSignatureOf, SignedReference, SignedDigest
  <2>6. Met(Req)
    BY <1>3, <2>3, <2>5 DEF Met, AllSigs
  <2>. QED
    BY <1>1, <1>2, <1>4, <2>6, AllowedSigned DEF Cosign
<1>5. CASE ~CosignAllows
  <2>1. check' = [check EXCEPT !.pc = "idle", !.out = "reject"]
    BY <1>5 DEF Cosign, End
  <2>2. IsCheck(check') /\ check'.pc = "idle" /\ check'.out = "reject"
    BY <1>2, <2>1 DEF IsCheck, CheckFields
  <2>3. ChannelRight'
    BY <1>1 DEF SignedInv, ChannelRight
  <2>. QED
    BY <1>1, <1>2, <2>2, <2>3, EndSigned
<1>. QED
  BY <1>4, <1>5

-----------------------------------------------------------------------------
(* The surroundings, and the theorem.                                       *)

LEMMA SurroundingsSigned ==
    ASSUME SignedInv, CheckFails \/ TagMoves \/ KeyRotates \/ Crash
    PROVE  SignedInv'
<1>0. IsCheck(check)
  BY DEF SignedInv, ListRight
<1>1. CASE CheckFails
  <2>1. /\ check.pc # "idle" /\ UNCHANGED <<setup, boot, chan, local, given>>
        /\ check' = [check EXCEPT !.pc = "idle", !.out = "reject", !.clean = FALSE]
    BY <1>1 DEF CheckFails, client
  <2>2. IsCheck(check') /\ check'.pc = "idle" /\ check'.out = "reject"
    BY <1>0, <2>1 DEF IsCheck, CheckFields
  <2>3. ChannelRight'
    BY <2>1 DEF SignedInv, ChannelRight
  <2>. QED
    BY <2>1, <2>2, <2>3, EndSigned
<1>2. CASE TagMoves \/ KeyRotates
  <2>1. /\ UNCHANGED <<setup, boot, chan, local, given>>
        /\ check' = [check EXCEPT !.clean = FALSE]
    BY <1>2 DEF TagMoves, KeyRotates, client
  <2>2. SameCheck
    BY <1>0, <2>1 DEF IsCheck, CheckFields, SameCheck
  <2>. QED
    BY <2>1, <2>2, Unmoved
<1>3. CASE Crash
  <2>1. /\ UNCHANGED <<setup, local, given>>
        /\ chan' = Idle /\ check' = NoCheck /\ boot' = "config"
    BY <1>3 DEF Crash
  <2>2. ChannelRight' /\ chan'.pc = "idle"
    BY <2>1, ChannelIdle
  <2>3. IsCheck(NoCheck) /\ NoCheck.pc = "idle" /\ NoCheck.out = None
    BY DEF NoCheck, IsCheck, CheckFields
  <2>4. KeptRight'
    BY <2>1 DEF SignedInv, KeptRight
  <2>5. BuildRight'
    BY <2>1, <2>2, <2>3 DEF SignedInv, BuildRight, Stages
  <2>6. KeyRight' /\ ListRight'
    BY <2>1, <2>3, Constants DEF KeyRight, ListRight, Checking
  <2>. QED
    BY <2>2, <2>4, <2>5, <2>6 DEF SignedInv
<1>. QED
  BY <1>1, <1>2, <1>3

LEMMA SignedStep == SignedInv /\ [Next]_vars => SignedInv'
<1>. SUFFICES ASSUME SignedInv, [Next]_vars PROVE SignedInv'
  OBVIOUS
<1>1. CASE CheckLocal \/ Fetch \/ OpenLocal \/ FillLocal \/ GetFails
  BY <1>1, CheckLocalSigned, FetchSigned, OpenLocalSigned, FillLocalSigned, GetFailsSigned
<1>2. CASE LoadConfig \/ AskResource \/ TakeResource \/ BuildFails
  BY <1>2, LoadConfigSigned, AskResourceSigned, TakeResourceSigned, BuildFailsSigned
<1>3. CASE MergeInline \/ \E f \in todo : MergeFile(f)
  BY <1>3, MergeSigned
<1>4. CASE \E ref \in Images, input \in setup.inputs : Start(ref, input)
  BY <1>4, StartSigned
<1>5. CASE Select \/ Requirement \/ TakeKey
  BY <1>5, SelectSigned, RequirementSigned, TakeKeySigned
<1>6. CASE SimpleSigning \/ Triangulate \/ Cosign
  BY <1>6, SimpleSigningSigned, TriangulateSigned, CosignSigned
<1>7. CASE CheckFails \/ TagMoves \/ KeyRotates \/ Crash
  BY <1>7, SurroundingsSigned
<1>8. CASE UNCHANGED vars
  <2>1. SameCheck /\ UNCHANGED <<setup, boot, chan, local, given>>
    BY <1>8 DEF vars, client, SameCheck, SignedInv, ListRight
  <2>. QED
    BY <2>1, Unmoved
<1>. QED
  BY <1>1, <1>2, <1>3, <1>4, <1>5, <1>6, <1>7, <1>8 DEF Next

\* check_image_signature accepts an image only if, for every requirement of
\* the policy that asks for one, a key that the requirement trusts has signed
\* the very digest that was pulled, for a reference that the requirement's rule
\* matches (a cosign requirement without a rule compares none); however the tag
\* and the KBS's key change meanwhile, whatever fails, and whatever a crash
\* leaves of the files.
THEOREM AcceptedAreSigned == Spec => []AcceptedIsSigned
<1>1. SignedInv => AcceptedIsSigned
  BY DEF SignedInv, ListRight, AcceptedIsSigned
<1>. QED
  BY SignedInit, SignedStep, <1>1, PTL DEF Spec

-----------------------------------------------------------------------------
(* The scope that is found is the most specific one: what the operators on *)
(* names compute.                                                           *)

-----------------------------------------------------------------------------
(* The positions of a token.                                                *)

\* The function that Cuts is defined by, up to a position.
IsCutting(f, s, token, n) ==
    /\ f = [k \in 0..n |-> f[k]] /\ f[0] = <<>>
    /\ \A k \in 1..n : f[k] = IF s[k] = token THEN Append(f[k - 1], k) ELSE f[k - 1]

\* The recursion has a solution, and so Cuts is one.
LEMMA CuttingExists ==
    ASSUME NEW s, Len(s) \in Nat, NEW token
    PROVE  \E f : IsCutting(f, s, token, Len(s)) /\ Cuts(s, token) = f[Len(s)]
<1>. DEFINE N == Len(s)
            Bad == {n \in 0..N : ~\E f : IsCutting(f, s, token, n)}
            Step(f, n) == IF n = 0 THEN <<>>
                          ELSE IF s[n] = token THEN Append(f[n - 1], n) ELSE f[n - 1]
<1>1. Bad = {}
  <2>. SUFFICES ASSUME Bad # {} PROVE FALSE
    OBVIOUS
  <2>0. Bad \in SUBSET Nat
    OBVIOUS
  <2>1. PICK m \in Bad : \A y \in Bad : m <= y
    BY <2>0, LeastNatural
  <2>2. m \in 0..N /\ ~\E f : IsCutting(f, s, token, m)
    OBVIOUS
  <2>3. m # 0
    <3>1. IsCutting([k \in 0..0 |-> <<>>], s, token, 0)
      BY DEF IsCutting
    <3>. QED
      BY <3>1, <2>2
  <2>4. m \in Nat /\ m >= 1 /\ m - 1 \in 0..N /\ m - 1 \in Nat
    BY <2>2, <2>3
  <2>5. m - 1 \notin Bad
    <3>1. ~(m <= m - 1)
      BY <2>4
    <3>. QED
      BY <3>1, <2>1
  <2>6. PICK f : IsCutting(f, s, token, m - 1)
    BY <2>4, <2>5
  <2>. DEFINE h == [k \in 0..m |-> IF k <= m - 1 THEN f[k] ELSE Step(f, m)]
  <2>7. h = [k \in 0..m |-> h[k]] /\ h[0] = <<>>
    <3>1. 0 \in 0..m /\ 0 <= m - 1
      BY <2>4
    <3>. QED
      BY <3>1, <2>6 DEF IsCutting
  <2>8. ASSUME NEW k \in 1..m PROVE h[k] = Step(h, k)
    <3>1. k - 1 \in 0..m /\ k - 1 <= m - 1 /\ k # 0 /\ k \in 0..m /\ k \in Nat
      BY <2>4
    <3>2. h[k - 1] = f[k - 1]
      BY <3>1
    <3>3. CASE k <= m - 1
      <4>1. h[k] = f[k] /\ k \in 1..(m - 1)
        BY <3>1, <3>3, <2>4
      <4>2. f[k] = Step(f, k)
        BY <4>1, <3>1, <2>6 DEF IsCutting
      <4>. QED
        BY <4>1, <4>2, <3>1, <3>2
    <3>4. CASE ~(k <= m - 1)
      <4>1. k = m
        BY <3>1, <3>4, <2>4
      <4>2. h[k] = Step(f, m)
        BY <4>1, <3>1, <3>4
      <4>. QED
        BY <4>1, <4>2, <3>1, <3>2
    <3>. QED
      BY <3>3, <3>4
  <2>. HIDE DEF h
  <2>9. \A k \in 1..m : k # 0
    BY <2>4
  <2>10. IsCutting(h, s, token, m)
    BY <2>7, <2>8, <2>9 DEF IsCutting
  <2>. QED
    BY <2>2, <2>10
<1>2. PICK f : IsCutting(f, s, token, N)
  BY <1>1
<1>3. f = [n \in 0..N |-> Step(f, n)]
  <2>1. \A n \in 0..N : n # 0 => n \in 1..N
    OBVIOUS
  <2>2. \A n \in 0..N : f[n] = Step(f, n)
    BY <1>2, <2>1 DEF IsCutting
  <2>. QED
    BY <1>2, <2>2 DEF IsCutting
<1>. HIDE DEF Step
<1>4. PICK t : t = CHOOSE x : x = [n \in 0..N |-> Step(x, n)]
  OBVIOUS
<1>5. t = [n \in 0..N |-> Step(t, n)]
  BY <1>3, <1>4
<1>6. Cuts(s, token) = t[N]
  BY <1>4 DEF Cuts, Step
<1>7. DOMAIN t = 0..N /\ \A n \in 0..N : t[n] = Step(t, n)
  BY <1>5
<1>8. t[0] = <<>>
  BY <1>7 DEF Step
<1>9. ASSUME NEW k \in 1..N
      PROVE  t[k] = IF s[k] = token THEN Append(t[k - 1], k) ELSE t[k - 1]
  <2>1. t[k] = Step(t, k) /\ k # 0
    BY <1>7
  <2>. QED
    BY <2>1 DEF Step
<1>10. t = [k \in 0..N |-> t[k]]
  BY <1>5
<1>. QED
  BY <1>6, <1>8, <1>9, <1>10 DEF IsCutting

\* The positions up to n, from left to right.
AreCuts(c, s, token, n) ==
    /\ c \in Seq(1..n)
    /\ \A k \in 1..Len(c) : s[c[k]] = token
    /\ \A k, l \in 1..Len(c) : k < l => c[k] < c[l]
    /\ \A i \in 1..n : s[i] = token => \E k \in 1..Len(c) : c[k] = i

\* One position more.
LEMMA OneCutMore ==
    ASSUME NEW c, NEW s, NEW token, NEW n \in Nat, AreCuts(c, s, token, n), NEW d,
           d = IF s[n + 1] = token THEN Append(c, n + 1) ELSE c
    PROVE  AreCuts(d, s, token, n + 1)
<1>1. c \in Seq(1..n) /\ Len(c) \in Nat /\ \A k \in 1..Len(c) : c[k] \in 1..n
  BY DEF AreCuts
<1>2. c \in Seq(1..(n + 1))
  <2>1. 1..n \subseteq 1..(n + 1)
    OBVIOUS
  <2>. QED
    BY <1>1, <2>1
<1>3. CASE s[n + 1] # token
  <2>1. d = c
    BY <1>3
  <2>2. \A i \in 1..(n + 1) : i # n + 1 => i \in 1..n
    OBVIOUS
  <2>. QED
    BY <1>2, <1>3, <2>1, <2>2 DEF AreCuts
<1>4. CASE s[n + 1] = token
  <2>1. d = Append(c, n + 1)
    BY <1>4
  <2>2. d \in Seq(1..(n + 1)) /\ Len(d) = Len(c) + 1 /\ d[Len(c) + 1] = n + 1
    <3>1. n + 1 \in 1..(n + 1)
      OBVIOUS
    <3>2. PICK T, x : T = 1..(n + 1) /\ x = n + 1
      OBVIOUS
    <3>3. c \in Seq(T) /\ x \in T /\ d = Append(c, x)
      BY <1>2, <2>1, <3>1, <3>2
    <3>4. d \in Seq(T) /\ Len(d) = Len(c) + 1 /\ d[Len(c) + 1] = x
      BY <3>3
    <3>. QED
      BY <3>2, <3>4
  <2>3. \A k \in 1..Len(c) : d[k] = c[k]
    BY <1>2, <2>1
  <2>4. \A k \in 1..Len(d) : k \in 1..Len(c) \/ k = Len(c) + 1
    BY <1>1, <2>2
  <2>5. \A k \in 1..Len(d) : s[d[k]] = token
    BY <1>4, <2>2, <2>3, <2>4 DEF AreCuts
  <2>6. ASSUME NEW k \in 1..Len(d), NEW l \in 1..Len(d), k < l PROVE d[k] < d[l]
    <3>1. k \in 1..Len(c)
      BY <1>1, <2>2, <2>6
    <3>2. d[k] = c[k] /\ c[k] \in 1..n
      BY <1>1, <2>3, <3>1
    <3>3. CASE l \in 1..Len(c)
      BY <2>3, <2>6, <3>1, <3>2, <3>3 DEF AreCuts
    <3>4. CASE l = Len(c) + 1
      BY <2>2, <3>2, <3>4
    <3>. QED
      BY <2>4, <3>3, <3>4
  <2>7. ASSUME NEW i \in 1..(n + 1), s[i] = token PROVE \E k \in 1..Len(d) : d[k] = i
    <3>1. CASE i \in 1..n
      <4>1. PICK k \in 1..Len(c) : c[k] = i
        BY <2>7, <3>1 DEF AreCuts
      <4>2. k \in 1..Len(d) /\ d[k] = i
        BY <1>1, <2>2, <2>3, <4>1
      <4>. QED
        BY <4>2
    <3>2. CASE i = n + 1
      BY <1>1, <2>2, <3>2
    <3>. QED
      BY <3>1, <3>2
  <2>. QED
    BY <2>2, <2>5, <2>6, <2>7 DEF AreCuts
<1>. QED
  BY <1>3, <1>4

\* What Cuts computes.
LEMMA CutsAre ==
    ASSUME NEW s, Len(s) \in Nat, NEW token
    PROVE  AreCuts(Cuts(s, token), s, token, Len(s))
<1>1. PICK f : IsCutting(f, s, token, Len(s)) /\ Cuts(s, token) = f[Len(s)]
  BY CuttingExists
<1>. DEFINE Bad == {n \in 0..Len(s) : ~AreCuts(f[n], s, token, n)}
<1>2. Bad = {}
  <2>. SUFFICES ASSUME Bad # {} PROVE FALSE
    OBVIOUS
  <2>1. Bad \in SUBSET Nat
    OBVIOUS
  <2>2. PICK m \in Bad : \A y \in Bad : m <= y
    BY <2>1, LeastNatural
  <2>3. m # 0
    <3>1. f[0] = <<>>
      BY <1>1 DEF IsCutting
    <3>2. AreCuts(<<>>, s, token, 0)
      BY DEF AreCuts
    <3>. QED
      BY <3>1, <3>2
  <2>4. PICK n : n = m - 1
    OBVIOUS
  <2>5. n \in Nat /\ n \in 0..Len(s) /\ m = n + 1 /\ m \in 1..Len(s) /\ ~(m <= n)
    BY <2>3, <2>4
  <2>6. AreCuts(f[n], s, token, n)
    BY <2>2, <2>5
  <2>7. f[m] = IF s[n + 1] = token THEN Append(f[n], n + 1) ELSE f[n]
    BY <1>1, <2>4, <2>5 DEF IsCutting
  <2>8. AreCuts(f[m], s, token, n + 1)
    BY <2>5, <2>6, <2>7, OneCutMore
  <2>. QED
    BY <2>5, <2>8
<1>3. Len(s) \in 0..Len(s)
  OBVIOUS
<1>. QED
  BY <1>1, <1>2, <1>3

-----------------------------------------------------------------------------
(* The paths above a name.                                                  *)

\* A text is a sequence.
LEMMA TextIs ==
    ASSUME NEW s, IsText(s)
    PROVE  /\ Len(s) \in Nat /\ DOMAIN s = 1..Len(s)
           /\ SubSeq(s, 1, Len(s)) = s
           /\ s # <<>> => Len(s) >= 1
           /\ \E S : s \in Seq(S)
<1>1. PICK S : s \in Seq(S)
  BY DEF IsText
<1>. QED
  BY <1>1

\* A function on 1..n is a list of n.
LEMMA ListOf ==
    ASSUME NEW T, NEW n \in Nat, NEW f \in [1..n -> T]
    PROVE  f \in Seq(T) /\ Len(f) = n
OBVIOUS

\* What the positions of a token are, said of their number.
Positions(c, s, token, n, q) ==
    /\ c \in Seq(1..n) /\ q \in Nat /\ \A k \in 1..q : c[k] \in 1..n /\ s[c[k]] = token
    /\ \A k, l \in 1..q : k < l => c[k] < c[l]
    /\ \A i \in 1..n : s[i] = token => \E k \in 1..q : c[k] = i
\* Cuts gives them.
LEMMA CutsOf ==
    ASSUME NEW c, NEW s, NEW token, NEW n \in Nat, AreCuts(c, s, token, n), NEW q, q = Len(c)
    PROVE  Positions(c, s, token, n, q)
<1>1. PICK T : T = 1..n
  OBVIOUS
<1>2. c \in Seq(T)
  BY <1>1 DEF AreCuts
<1>3. q \in Nat /\ \A k \in 1..q : c[k] \in T
  BY <1>2
<1>. QED
  BY <1>1, <1>3 DEF AreCuts, Positions

\* The first n tokens of a text.
LEMMA FrontIs ==
    ASSUME NEW s, IsText(s), NEW n \in 0..Len(s)
    PROVE  LET t == SubSeq(s, 1, n)
           IN /\ Len(t) = n /\ DOMAIN t = 1..n /\ IsText(t) /\ (n > 0 => t # <<>>)
              /\ \A i \in 1..n : t[i] = s[i]
<1>1. PICK S : s \in Seq(S)
  BY DEF IsText
<1>2. PICK t : t = SubSeq(s, 1, n)
  OBVIOUS
<1>3. t \in Seq(S) /\ Len(t) = n /\ \A i \in 1..n : t[i] = s[i]
  BY <1>1, <1>2
<1>4. DOMAIN t = 1..n
  BY <1>3
<1>5. t = [i \in 1..n |-> t[i]]
  BY <1>3
<1>6. t \in Seq({t[i] : i \in DOMAIN t})
  BY <1>4, <1>5
<1>7. n > 0 => t # <<>>
  BY <1>3
<1>. QED
  BY <1>2, <1>3, <1>4, <1>6, <1>7 DEF IsText

\* The prefixes that end before a slash, and the name itself.
Cutting(name, n) == n < Len(name) => name[n + 1] = "/"
\* A path is such a prefix.
LEMMA PathIs ==
    ASSUME NEW s, IsText(s), NEW name, IsText(name)
    PROVE  IsPath(s, name) <=> \E n \in 1..Len(name) : s = SubSeq(name, 1, n) /\ Cutting(name, n)
<1>1. ASSUME IsPath(s, name)
      PROVE  \E n \in 1..Len(name) : s = SubSeq(name, 1, n) /\ Cutting(name, n)
  <2>1. /\ s # <<>> /\ Len(s) <= Len(name) /\ SubSeq(s, 1, Len(s)) = SubSeq(name, 1, Len(s))
        /\ Len(s) < Len(name) => name[Len(s) + 1] = "/"
    BY <1>1 DEF IsPath, IsPrefix
  <2>2. Len(s) \in 1..Len(name)
    BY <2>1, TextIs
  <2>3. s = SubSeq(name, 1, Len(s))
    BY <2>1, TextIs
  <2>. QED
    BY <2>1, <2>2, <2>3 DEF Cutting
<1>2. ASSUME NEW n \in 1..Len(name), s = SubSeq(name, 1, n), Cutting(name, n)
      PROVE  IsPath(s, name)
  <2>1. n \in 0..Len(name) /\ n > 0
    OBVIOUS
  <2>2. Len(s) = n /\ s # <<>>
    BY <1>2, <2>1, FrontIs
  <2>3. SubSeq(s, 1, n) = s
    BY <2>2, TextIs
  <2>. QED
    BY <1>2, <2>2, <2>3 DEF IsPath, IsPrefix, Cutting
<1>. QED
  BY <1>1, <1>2

\* The name and its parents are these prefixes, longest first.
Paths(name) == <<name>> \o Parents(name)
ArePaths(P, e, name) ==
    /\ IsText(P) /\ Len(P) >= 1 /\ e \in [1..Len(P) -> 1..Len(name)]
    /\ \A i \in 1..Len(P) : P[i] = SubSeq(name, 1, e[i])
    /\ \A i, j \in 1..Len(P) : i < j => e[j] < e[i]
    /\ \A i \in 1..Len(P) : Cutting(name, e[i])
    /\ \A n \in 1..Len(name) : Cutting(name, n) => \E i \in 1..Len(P) : e[i] = n

\* Parents gives them, after the name.
LEMMA ParentsAre ==
    ASSUME NEW name, IsText(name), name # <<>>, name[1] # "/"
    PROVE  \E e : ArePaths(Paths(name), e, name)
<1>1. PICK c : c = Cuts(name, "/")
  OBVIOUS
<1>2. PICK m : m = Len(name)
  OBVIOUS
<1>3. m \in Nat /\ m >= 1 /\ SubSeq(name, 1, m) = name
  BY <1>2, TextIs
<1>4. AreCuts(c, name, "/", m)
  BY <1>1, <1>2, <1>3, CutsAre
<1>5. PICK q : q = Len(c)
  OBVIOUS
<1>6. /\ c \in Seq(1..m) /\ q \in Nat /\ \A k \in 1..q : c[k] \in 1..m /\ name[c[k]] = "/"
      /\ \A k, l \in 1..q : k < l => c[k] < c[l]
      /\ \A i \in 1..m : name[i] = "/" => \E k \in 1..q : c[k] = i
  <2>1. Positions(c, name, "/", m, q)
    BY <1>3, <1>4, <1>5, CutsOf
  <2>. QED
    BY <2>1 DEF Positions
<1>. DEFINE At1(i) == c[(q - (i - 1)) + 1]
            e == [i \in 1..(q + 1) |-> IF i = 1 THEN m ELSE At1(i) - 1]
<1>7. PICK P : P = Paths(name)
  OBVIOUS
<1>8. Parents(name) = [k \in 1..q |-> SubSeq(name, 1, c[(q - k) + 1] - 1)]
  <2>1. PICK r : r = Reverse(c)
    OBVIOUS
  <2>2. r = [i \in 1..q |-> c[(q - i) + 1]]
    BY <1>5, <2>1 DEF Reverse
  <2>3. r \in Seq(1..m)
    <3>1. \A i \in 1..q : (q - i) + 1 \in 1..q
      BY <1>6
    <3>2. r \in [1..q -> 1..m]
      BY <1>6, <2>2, <3>1
    <3>3. PICK T : T = 1..m
      OBVIOUS
    <3>4. r \in Seq(T)
      BY <1>6, <3>2, <3>3, ListOf
    <3>. QED
      BY <3>3, <3>4
  <2>4. Len(r) = q /\ \A k \in 1..q : r[k] = c[(q - k) + 1]
    BY <1>6, <2>2, <2>3
  <2>5. Parents(name) = [k \in 1..Len(r) |-> SubSeq(name, 1, r[k] - 1)]
    BY <1>1, <2>1 DEF Parents
  <2>. QED
    BY <2>4, <2>5
<1>9. /\ IsText(P) /\ Len(P) = q + 1 /\ P[1] = name
      /\ \A i \in 2..(q + 1) : P[i] = SubSeq(name, 1, c[(q - (i - 1)) + 1] - 1)
  <2>1. PICK B : B = Parents(name)
    OBVIOUS
  <2>2. B = [k \in 1..q |-> SubSeq(name, 1, c[(q - k) + 1] - 1)]
    BY <1>8, <2>1
  <2>3. PICK T : T = {B[k] : k \in 1..q} \cup {name}
    OBVIOUS
  <2>4. B \in Seq(T) /\ Len(B) = q
    <3>1. B \in [1..q -> T]
      BY <2>2, <2>3
    <3>. QED
      BY <1>6, <3>1, ListOf
  <2>5. P = <<name>> \o B
    BY <1>7, <2>1 DEF Paths
  <2>6. <<name>> \in Seq(T) /\ Len(<<name>>) = 1
    BY <2>3
  <2>7. /\ P \in Seq(T) /\ Len(P) = q + 1 /\ P[1] = name
        /\ \A i \in 2..(q + 1) : P[i] = B[i - 1]
    BY <1>6, <2>4, <2>5, <2>6
  <2>8. \A i \in 2..(q + 1) : i - 1 \in 1..q
    BY <1>6
  <2>9. IsText(P)
    <3>1. DOMAIN P = 1..Len(P) /\ P = [i \in 1..Len(P) |-> P[i]] /\ Len(P) \in Nat
      BY <2>7
    <3>. QED
      BY <3>1 DEF IsText
  <2>. QED
    BY <2>2, <2>7, <2>8, <2>9
<1>10. \A i \in 2..(q + 1) : (q - (i - 1)) + 1 \in 1..q
  BY <1>6
<1>11. \A i \in 2..(q + 1) : c[(q - (i - 1)) + 1] \in 2..m
  <2>. SUFFICES ASSUME NEW i \in 2..(q + 1) PROVE c[(q - (i - 1)) + 1] \in 2..m
    OBVIOUS
  <2>1. PICK x : x = c[(q - (i - 1)) + 1]
    OBVIOUS
  <2>2. x \in 1..m /\ name[x] = "/"
    BY <1>6, <1>10, <2>1
  <2>3. x # 1
    BY <2>2
  <2>. QED
    BY <2>1, <2>2, <2>3
<1>12. \A i \in 1..(q + 1) : i = 1 \/ i \in 2..(q + 1)
  BY <1>6
<1>13. e \in [1..(q + 1) -> 1..m]
  <2>. SUFFICES ASSUME NEW i \in 1..(q + 1) PROVE e[i] \in 1..m
    OBVIOUS
  <2>1. CASE i = 1
    BY <1>3, <2>1
  <2>2. CASE i \in 2..(q + 1)
    <3>1. PICK x : x = c[(q - (i - 1)) + 1]
      OBVIOUS
    <3>2. x \in 2..m /\ e[i] = x - 1 /\ m \in Nat
      BY <1>3, <1>11, <2>2, <3>1
    <3>3. x - 1 \in 1..m
      BY <3>2
    <3>. QED
      BY <3>2, <3>3
  <2>. QED
    BY <1>12, <2>1, <2>2
<1>14. \A i \in 1..(q + 1) : P[i] = SubSeq(name, 1, e[i])
  BY <1>3, <1>9, <1>12
<1>15. ASSUME NEW i \in 1..(q + 1), NEW j \in 1..(q + 1), i < j PROVE e[j] < e[i]
  <2>1. j \in 2..(q + 1) /\ j # 1
    BY <1>6, <1>15
  <2>2. PICK y : y = c[(q - (j - 1)) + 1]
    OBVIOUS
  <2>3. e[j] = y - 1 /\ y \in 2..m
    BY <1>11, <2>1, <2>2
  <2>4. CASE i = 1
    BY <1>3, <2>3, <2>4
  <2>5. CASE i \in 2..(q + 1)
    <3>1. PICK x : x = c[(q - (i - 1)) + 1]
      OBVIOUS
    <3>2. e[i] = x - 1 /\ x \in 2..m
      BY <1>11, <2>5, <3>1
    <3>3. (q - (j - 1)) + 1 < (q - (i - 1)) + 1
      BY <1>6, <1>15
    <3>4. y < x
      BY <1>6, <1>10, <2>1, <2>2, <2>5, <3>1, <3>3
    <3>. QED
      BY <2>3, <3>2, <3>4
  <2>. QED
    BY <1>12, <2>4, <2>5
<1>16. ASSUME NEW i \in 1..(q + 1) PROVE Cutting(name, e[i])
  <2>1. CASE i = 1
    BY <1>2, <1>3, <2>1 DEF Cutting
  <2>2. CASE i \in 2..(q + 1)
    <3>1. PICK x : x = c[(q - (i - 1)) + 1]
      OBVIOUS
    <3>2. e[i] = x - 1 /\ x \in 2..m /\ name[x] = "/"
      BY <1>6, <1>10, <1>11, <2>2, <3>1
    <3>3. (x - 1) + 1 = x
      BY <3>2
    <3>. QED
      BY <3>2, <3>3 DEF Cutting
  <2>. QED
    BY <1>12, <2>1, <2>2
<1>17. ASSUME NEW n \in 1..m, Cutting(name, n) PROVE \E i \in 1..(q + 1) : e[i] = n
  <2>1. CASE n = m
    <3>1. 1 \in 1..(q + 1) /\ e[1] = n
      BY <1>6, <2>1
    <3>. QED
      BY <3>1
  <2>2. CASE n # m
    <3>1. name[n + 1] = "/" /\ n + 1 \in 1..m
      BY <1>2, <1>3, <1>17, <2>2 DEF Cutting
    <3>2. PICK k \in 1..q : c[k] = n + 1
      BY <1>6, <3>1
    <3>3. PICK i : i = (q - k) + 2
      OBVIOUS
    <3>4. i \in 2..(q + 1) /\ (q - (i - 1)) + 1 = k /\ i \in 1..(q + 1) /\ i # 1
      BY <1>6, <3>3
    <3>5. e[i] = (n + 1) - 1
      BY <3>2, <3>4
    <3>6. e[i] = n
      BY <3>5
    <3>. QED
      BY <3>4, <3>6
  <2>. QED
    BY <2>1, <2>2
<1>. HIDE DEF e
<1>18. ArePaths(P, e, name)
  BY <1>2, <1>6, <1>9, <1>13, <1>14, <1>15, <1>16, <1>17 DEF ArePaths
<1>. QED
  BY <1>7, <1>18

-----------------------------------------------------------------------------
(* The host of a name, and the domains it is in.                            *)

\* A part of a front is a part of the whole.
LEMMA PartOfFront ==
    ASSUME NEW s, IsText(s), NEW n \in 0..Len(s), NEW a \in Nat, NEW b \in 0..n, a >= 1
    PROVE  SubSeq(SubSeq(s, 1, n), a, b) = SubSeq(s, a, b)
<1>1. PICK t : t = SubSeq(s, 1, n)
  OBVIOUS
<1>2. \A i \in 1..n : t[i] = s[i]
  BY <1>1, FrontIs
<1>3. \A i \in 1..((1 + b) - a) : (i + a) - 1 \in 1..n
  OBVIOUS
<1>4. \A i \in 1..((1 + b) - a) : t[(i + a) - 1] = s[(i + a) - 1]
  BY <1>2, <1>3
<1>5. [i \in 1..((1 + b) - a) |-> t[(i + a) - 1]] = [i \in 1..((1 + b) - a) |-> s[(i + a) - 1]]
  BY <1>4
<1>. QED
  BY <1>1, <1>5 DEF SubSeq

IsHostEnd(name, k) ==
    /\ k \in 0..Len(name)
    /\ \A j \in 1..k : name[j] \notin {"/", ":"}
    /\ k < Len(name) => name[k + 1] \in {"/", ":"}

\* There is one place where the host ends.
LEMMA HostEndIs ==
    ASSUME NEW name, Len(name) \in Nat, NEW k, IsHostEnd(name, k)
    PROVE  HostEnd(name) = k
<1>1. ASSUME NEW a, NEW b, IsHostEnd(name, a), IsHostEnd(name, b), a < b PROVE FALSE
  <2>1. a \in Nat /\ b \in Nat /\ a + 1 \in 1..b /\ a < Len(name)
    BY <1>1 DEF IsHostEnd
  <2>. QED
    BY <1>1, <2>1 DEF IsHostEnd
<1>2. HostEnd(name) = CHOOSE x \in 0..Len(name) :
          /\ \A j \in 1..x : name[j] \notin {"/", ":"}
          /\ x < Len(name) => name[x + 1] \in {"/", ":"}
  BY DEF HostEnd
<1>3. IsHostEnd(name, HostEnd(name))
  BY <1>2 DEF IsHostEnd
<1>4. k \in Nat /\ HostEnd(name) \in Nat
  BY <1>3 DEF IsHostEnd
<1>5. PICK h : h = HostEnd(name)
  OBVIOUS
<1>6. ~(h < k) /\ ~(k < h)
  BY <1>1, <1>3, <1>5
<1>. QED
  BY <1>4, <1>5, <1>6

\* The registry is the part before the first slash.
IsRegistry(r, name) ==
    /\ r \in 1..Len(name) /\ Cutting(name, r)
    /\ \A j \in 1..r : name[j] # "/"
    /\ Last(<<name>> \o Parents(name)) = SubSeq(name, 1, r)
\* The last parent is the registry.
LEMMA RegistryIs ==
    ASSUME NEW name, IsText(name), name # <<>>, name[1] # "/"
    PROVE  \E r : IsRegistry(r, name)
<1>1. PICK e : ArePaths(Paths(name), e, name)
  BY ParentsAre
<1>2. PICK P, p, m : P = Paths(name) /\ p = Len(P) /\ m = Len(name)
  OBVIOUS
<1>3. /\ p \in Nat /\ p >= 1 /\ e \in [1..p -> 1..m] /\ m \in Nat
      /\ \A i \in 1..p : P[i] = SubSeq(name, 1, e[i])
      /\ \A i, j \in 1..p : i < j => e[j] < e[i]
      /\ \A i \in 1..p : Cutting(name, e[i])
      /\ \A n \in 1..m : Cutting(name, n) => \E i \in 1..p : e[i] = n
  BY <1>1, <1>2, TextIs DEF ArePaths
<1>4. PICK r : r = e[p]
  OBVIOUS
<1>5. p \in 1..p /\ r \in 1..m
  BY <1>3, <1>4
<1>6. ASSUME NEW j \in 1..r, name[j] = "/" PROVE FALSE
  <2>1. j # 1 /\ j \in Nat
    BY <1>6
  <2>2. PICK n : n = j - 1
    OBVIOUS
  <2>3. n \in 1..m /\ n + 1 = j /\ n < r
    BY <1>3, <1>5, <2>1, <2>2
  <2>4. Cutting(name, n)
    BY <1>6, <2>3 DEF Cutting
  <2>5. PICK i \in 1..p : e[i] = n
    BY <1>3, <2>3, <2>4
  <2>6. i = p \/ i < p
    BY <1>3
  <2>7. e[i] \in Nat /\ r \in Nat
    BY <1>5, <2>3, <2>5
  <2>8. r = e[i] \/ r < e[i]
    BY <1>3, <1>4, <1>5, <2>6
  <2>. QED
    BY <2>3, <2>5, <2>7, <2>8
<1>7. Last(<<name>> \o Parents(name)) = SubSeq(name, 1, r)
  BY <1>2, <1>3, <1>4, <1>5 DEF Last, Paths
<1>. QED
  BY <1>2, <1>3, <1>4, <1>5, <1>6, <1>7 DEF IsRegistry

\* Host is the name up to that place: at most one colon, that of the port, is cut off.
LEMMA HostIs ==
    ASSUME NEW name, IsName(name)
    PROVE  IsHostEnd(name, HostEnd(name)) /\ Host(name) = SubSeq(name, 1, HostEnd(name))
<1>1. IsText(name) /\ name # <<>> /\ name[1] # "/"
  BY DEF IsName
<1>2. PICK r : IsRegistry(r, name)
  BY <1>1, RegistryIs
<1>3. PICK m : m = Len(name)
  OBVIOUS
<1>4. /\ m \in Nat /\ r \in 1..m /\ r \in 0..m /\ Cutting(name, r)
      /\ \A j \in 1..r : name[j] # "/"
  BY <1>1, <1>2, <1>3, TextIs DEF IsRegistry
<1>5. PICK reg : reg = SubSeq(name, 1, r)
  OBVIOUS
<1>6. Len(reg) = r /\ \A i \in 1..r : reg[i] = name[i]
  BY <1>1, <1>3, <1>4, <1>5, FrontIs
<1>7. PICK c : c = Cuts(reg, ":")
  OBVIOUS
<1>8. AreCuts(c, reg, ":", r)
  BY <1>4, <1>6, <1>7, CutsAre
<1>9. Host(name) = IF c = <<>> THEN reg ELSE SubSeq(reg, 1, c[Len(c)] - 1)
  BY <1>2, <1>5, <1>7 DEF IsRegistry, Host, Last
<1>10. PICK q : q = Len(c)
  OBVIOUS
<1>11. Positions(c, reg, ":", r, q)
  BY <1>4, <1>8, <1>10, CutsOf
<1>12. CASE c = <<>>
  <2>1. q = 0
    BY <1>10, <1>12
  <2>2. \A j \in 1..r : name[j] # ":"
    BY <1>6, <1>11, <2>1 DEF Positions
  <2>3. IsHostEnd(name, r)
    BY <1>3, <1>4, <2>2 DEF IsHostEnd, Cutting
  <2>4. HostEnd(name) = r
    BY <1>3, <1>4, <2>3, HostEndIs
  <2>. QED
    BY <1>5, <1>9, <1>12, <2>3, <2>4
<1>13. CASE c # <<>>
  <2>1. PICK T : c \in Seq(T)
    BY <1>11 DEF Positions
  <2>2. q \in Nat /\ q >= 1 /\ q \in 1..q
    BY <1>10, <1>13, <2>1
  <2>3. PICK x : x = c[q]
    OBVIOUS
  <2>4. x \in 1..r /\ reg[x] = ":"
    BY <1>11, <2>2, <2>3 DEF Positions
  <2>5. name[x] = ":" /\ x \in 1..m
    BY <1>4, <1>6, <2>4
  <2>6. PICK k : k = x - 1
    OBVIOUS
  <2>7. k \in 0..m /\ k + 1 = x /\ k \in 0..r /\ x \in Nat /\ k \in Nat
    BY <1>4, <2>4, <2>6
  <2>8. ASSUME NEW j \in 1..k PROVE name[j] \notin {"/", ":"}
    <3>1. j \in 1..r /\ j \in 1..m /\ j # x
      BY <1>4, <2>7
    <3>. QED
      BY <1>3, <1>4, <2>5, <3>1 DEF IsName
  <2>9. IsHostEnd(name, k)
    BY <1>3, <2>5, <2>7, <2>8 DEF IsHostEnd
  <2>10. HostEnd(name) = k
    BY <1>3, <1>4, <2>9, HostEndIs
  <2>11. Host(name) = SubSeq(reg, 1, k)
    BY <1>9, <1>10, <1>13, <2>3, <2>6
  <2>12. SubSeq(reg, 1, k) = SubSeq(name, 1, k)
    BY <1>1, <1>3, <1>4, <1>5, <2>7, PartOfFront
  <2>. QED
    BY <2>9, <2>10, <2>11, <2>12
<1>. QED
  BY <1>12, <1>13

\* The wildcards are the domains, longest first.
Domain(name, i) == <<"*", ".">> \o SubSeq(name, i + 1, HostEnd(name))
AreWildcards(W, d, name) ==
    /\ IsText(W) /\ d \in [1..Len(W) -> 1..HostEnd(name)]
    /\ \A k \in 1..Len(W) : W[k] = Domain(name, d[k]) /\ name[d[k]] = "."
    /\ \A k, l \in 1..Len(W) : k < l => d[k] < d[l]
    /\ \A i \in 1..HostEnd(name) : name[i] = "." => \E k \in 1..Len(W) : d[k] = i

\* A function on 1..n is a text.
LEMMA FunctionText ==
    ASSUME NEW n \in Nat, NEW f, f = [i \in 1..n |-> f[i]]
    PROVE  IsText(f) /\ Len(f) = n
<1>1. f \in [1..n -> {f[i] : i \in 1..n}] /\ DOMAIN f = 1..n
  OBVIOUS
<1>. QED
  BY <1>1, ListOf DEF IsText

\* Wildcards gives them.
LEMMA WildcardsAre ==
    ASSUME NEW name, IsName(name)
    PROVE  \E d : AreWildcards(Wildcards(Host(name)), d, name)
<1>1. PICK h, m : h = HostEnd(name) /\ m = Len(name)
  OBVIOUS
<1>2. IsText(name) /\ m \in Nat /\ h \in 0..m /\ h \in Nat
  BY <1>1, HostIs, TextIs DEF IsName, IsHostEnd
<1>3. PICK host : host = Host(name)
  OBVIOUS
<1>4. host = SubSeq(name, 1, h)
  BY <1>1, <1>3, HostIs
<1>5. Len(host) = h /\ \A i \in 1..h : host[i] = name[i]
  BY <1>1, <1>2, <1>4, FrontIs
<1>6. PICK c, q : c = Cuts(host, ".") /\ q = Len(c)
  OBVIOUS
<1>7. AreCuts(c, host, ".", h)
  BY <1>2, <1>5, <1>6, CutsAre
<1>8. Positions(c, host, ".", h, q)
  BY <1>2, <1>6, <1>7, CutsOf
<1>9. PICK W : W = Wildcards(host)
  OBVIOUS
<1>10. W = [k \in 1..q |-> <<"*", ".">> \o SubSeq(host, c[k] + 1, h)]
  BY <1>5, <1>6, <1>9 DEF Wildcards
<1>11. q \in Nat /\ \A k \in 1..q : c[k] \in 1..h /\ host[c[k]] = "."
  BY <1>8 DEF Positions
<1>12. IsText(W) /\ Len(W) = q
  <2>1. W = [k \in 1..q |-> W[k]]
    BY <1>10
  <2>. QED
    BY <1>11, <2>1, FunctionText
<1>13. ASSUME NEW k \in 1..q PROVE W[k] = Domain(name, c[k]) /\ name[c[k]] = "."
  <2>1. PICK x : x = c[k]
    OBVIOUS
  <2>2. x \in 1..h /\ host[x] = "."
    BY <1>11, <2>1
  <2>3. PICK a : a = x + 1
    OBVIOUS
  <2>4. a \in Nat /\ a >= 1 /\ h \in 0..h
    BY <1>2, <2>2, <2>3
  <2>5. SubSeq(host, a, h) = SubSeq(name, a, h)
    BY <1>1, <1>2, <1>4, <2>4, PartOfFront
  <2>6. W[k] = <<"*", ".">> \o SubSeq(name, a, h)
    BY <1>10, <2>1, <2>3, <2>5
  <2>. QED
    BY <1>1, <1>5, <2>1, <2>2, <2>3, <2>6 DEF Domain
<1>14. \A i \in 1..h : name[i] = "." => \E k \in 1..q : c[k] = i
  BY <1>5, <1>8 DEF Positions
<1>15. PICK d : d = [k \in 1..q |-> c[k]]
  OBVIOUS
<1>16. d \in [1..q -> 1..h] /\ \A k \in 1..q : d[k] = c[k]
  BY <1>11, <1>15
<1>17. \A k, l \in 1..q : k < l => d[k] < d[l]
  BY <1>8, <1>16 DEF Positions
<1>18. AreWildcards(W, d, name)
  BY <1>1, <1>12, <1>13, <1>14, <1>16, <1>17 DEF AreWildcards
<1>. QED
  BY <1>3, <1>9, <1>18

-----------------------------------------------------------------------------
(* The order in which scopes are looked for is that of their rank.          *)

AsSpecific(s, t, ref) ==
    Rank(s, ref) > Rank(t, ref) \/ (Rank(s, ref) = Rank(t, ref) /\ Len(s) >= Len(t))
Descending(L, ref) ==
    IsText(L) /\ \A i, j \in 1..Len(L) : i <= j => AsSpecific(L[i], L[j], ref)
Has(L, s) == \E i \in 1..Len(L) : L[i] = s

\* A list after another.
IsJoin(C, A, B, a, b) ==
    /\ IsText(C) /\ Len(C) = a + b /\ a \in Nat /\ b \in Nat
    /\ \A i \in 1..a : C[i] = A[i]
    /\ \A j \in 1..b : C[a + j] = B[j]
    /\ \A i \in 1..(a + b) : i \in 1..a \/ \E j \in 1..b : i = a + j
\* What a list after another has, and where.
LEMMA Joined ==
    ASSUME NEW A, NEW B, IsText(A), IsText(B), NEW a, NEW b, a = Len(A), b = Len(B)
    PROVE  IsJoin(A \o B, A, B, a, b)
<1>1. a \in Nat /\ b \in Nat /\ DOMAIN A = 1..a /\ DOMAIN B = 1..b
  BY TextIs
<1>2. PICK T : T = {A[i] : i \in 1..a} \cup {B[j] : j \in 1..b}
  OBVIOUS
<1>3. PICK S1 : A \in Seq(S1)
  BY TextIs
<1>4. PICK S2 : B \in Seq(S2)
  BY TextIs
<1>5. A \in Seq(T) /\ B \in Seq(T)
  <2>1. A \in [1..a -> T]
    BY <1>1, <1>2, <1>3
  <2>2. B \in [1..b -> T]
    BY <1>1, <1>2, <1>4
  <2>. QED
    BY <1>1, <2>1, <2>2, ListOf
<1>6. PICK C : C = A \o B
  OBVIOUS
<1>7. C \in Seq(T) /\ Len(C) = a + b /\ \A i \in 1..a : C[i] = A[i]
  BY <1>1, <1>5, <1>6
<1>8. \A j \in 1..b : C[a + j] = B[j]
  <2>. SUFFICES ASSUME NEW j \in 1..b PROVE C[a + j] = B[j]
    OBVIOUS
  <2>1. a + j \in 1..(a + b) /\ ~(a + j <= a) /\ (a + j) - a = j
    BY <1>1
  <2>2. C[a + j] = B[(a + j) - a]
    BY <1>1, <1>5, <1>6, <2>1
  <2>. QED
    BY <2>1, <2>2
<1>9. IsText(C)
  <2>1. C = [i \in 1..(a + b) |-> C[i]] /\ a + b \in Nat
    BY <1>1, <1>7
  <2>. QED
    BY <2>1, FunctionText
<1>10. \A i \in 1..(a + b) : i \in 1..a \/ \E j \in 1..b : i = a + j
  <2>. SUFFICES ASSUME NEW i \in 1..(a + b), i \notin 1..a PROVE \E j \in 1..b : i = a + j
    OBVIOUS
  <2>1. i - a \in 1..b /\ i = a + (i - a)
    BY <1>1
  <2>. QED
    BY <2>1
<1>. QED
  BY <1>1, <1>6, <1>7, <1>8, <1>9, <1>10 DEF IsJoin

\* It has what both have.
LEMMA JoinHas ==
    ASSUME NEW A, NEW B, IsText(A), IsText(B), NEW s
    PROVE  Has(A \o B, s) <=> Has(A, s) \/ Has(B, s)
<1>1. PICK C, a, b : C = A \o B /\ a = Len(A) /\ b = Len(B)
  OBVIOUS
<1>2. /\ Len(C) = a + b /\ a \in Nat /\ b \in Nat
      /\ \A i \in 1..a : C[i] = A[i]
      /\ \A j \in 1..b : C[a + j] = B[j]
      /\ \A i \in 1..(a + b) : i \in 1..a \/ \E j \in 1..b : i = a + j
  <2>1. IsJoin(C, A, B, a, b)
    BY <1>1, Joined
  <2>. QED
    BY <2>1 DEF IsJoin
<1>3. ASSUME Has(C, s) PROVE Has(A, s) \/ Has(B, s)
  <2>1. PICK i \in 1..(a + b) : C[i] = s
    BY <1>2, <1>3 DEF Has
  <2>2. CASE i \in 1..a
    BY <1>1, <1>2, <2>1, <2>2 DEF Has
  <2>3. CASE \E j \in 1..b : i = a + j
    BY <1>1, <1>2, <2>1, <2>3 DEF Has
  <2>. QED
    BY <1>2, <2>2, <2>3
<1>4. ASSUME Has(A, s) PROVE Has(C, s)
  <2>1. PICK i \in 1..a : A[i] = s
    BY <1>1, <1>4 DEF Has
  <2>2. i \in 1..(a + b) /\ C[i] = s
    BY <1>2, <2>1
  <2>. QED
    BY <1>2, <2>2 DEF Has
<1>5. ASSUME Has(B, s) PROVE Has(C, s)
  <2>1. PICK j \in 1..b : B[j] = s
    BY <1>1, <1>5 DEF Has
  <2>2. a + j \in 1..(a + b) /\ C[a + j] = s
    BY <1>2, <2>1
  <2>. QED
    BY <1>2, <2>2 DEF Has
<1>. QED
  BY <1>1, <1>3, <1>4, <1>5

\* It descends if both do and the first is above the second.
LEMMA JoinDescending ==
    ASSUME NEW A, NEW B, NEW ref, Descending(A, ref), Descending(B, ref),
           \A s, t : Has(A, s) /\ Has(B, t) => AsSpecific(s, t, ref)
    PROVE  Descending(A \o B, ref)
<1>1. PICK C, a, b : C = A \o B /\ a = Len(A) /\ b = Len(B)
  OBVIOUS
<1>2. /\ IsText(C) /\ Len(C) = a + b /\ a \in Nat /\ b \in Nat
      /\ \A i \in 1..a : C[i] = A[i]
      /\ \A j \in 1..b : C[a + j] = B[j]
      /\ \A i \in 1..(a + b) : i \in 1..a \/ \E j \in 1..b : i = a + j
  <2>1. IsText(A) /\ IsText(B)
    BY DEF Descending
  <2>2. IsJoin(C, A, B, a, b)
    BY <1>1, <2>1, Joined
  <2>. QED
    BY <2>2 DEF IsJoin
<1>3. ASSUME NEW i \in 1..(a + b), NEW j \in 1..(a + b), i <= j
      PROVE  AsSpecific(C[i], C[j], ref)
  <2>1. CASE j \in 1..a
    <3>1. i \in 1..a
      BY <1>2, <1>3, <2>1
    <3>. QED
      BY <1>1, <1>2, <1>3, <2>1, <3>1 DEF Descending
  <2>2. CASE j \notin 1..a
    <3>1. PICK l \in 1..b : j = a + l
      BY <1>2, <2>2
    <3>2. CASE i \in 1..a
      <4>1. Has(A, C[i]) /\ Has(B, C[j])
        BY <1>1, <1>2, <3>1, <3>2 DEF Has
      <4>. QED
        BY <4>1
    <3>3. CASE i \notin 1..a
      <4>1. PICK k \in 1..b : i = a + k
        BY <1>2, <3>3
      <4>2. k <= l
        BY <1>2, <1>3, <3>1, <4>1
      <4>3. C[i] = B[k] /\ C[j] = B[l]
        BY <1>2, <3>1, <4>1
      <4>. QED
        BY <1>1, <4>2, <4>3 DEF Descending
    <3>. QED
      BY <3>2, <3>3
  <2>. QED
    BY <2>1, <2>2
<1>. QED
  BY <1>1, <1>2, <1>3 DEF Descending

\* The first of a descending list that a map has is the most specific one.
Strict(L, ref) ==
    \A s, t : Has(L, s) /\ Has(L, t) /\ AsSpecific(s, t, ref) /\ AsSpecific(t, s, ref) => s = t
LEMMA FirstIsBest ==
    ASSUME NEW L, NEW ref, Descending(L, ref), NEW map, HasScopes(map),
           Strict(L, ref), NEW S, S = {s \in DOMAIN map : Has(L, s)}
    PROVE  /\ FirstIn(L, map) = IF S = {} THEN None ELSE MostSpecific(ref, S)
           /\ S # {} => FirstIn(L, map) \in S
<1>1. PICK found : found = {i \in 1..Len(L) : L[i] \in DOMAIN map}
  OBVIOUS
<1>2. FirstIn(L, map) = IF found = {} THEN None ELSE L[Min(found)]
  BY <1>1 DEF FirstIn
<1>3. S = {} <=> found = {}
  BY <1>1 DEF Has
<1>4. CASE found # {}
  <2>1. found \in SUBSET Nat
    BY <1>1
  <2>2. PICK k : k = Min(found)
    OBVIOUS
  <2>3. k \in found /\ \A y \in found : k <= y
    BY <1>4, <2>1, <2>2, LeastNatural
  <2>4. PICK best : best = L[k]
    OBVIOUS
  <2>5. best \in S
    BY <1>1, <2>3, <2>4 DEF Has
  <2>6. ASSUME NEW t \in S PROVE AsSpecific(best, t, ref)
    <3>1. PICK j \in 1..Len(L) : L[j] = t
      BY DEF Has
    <3>2. j \in found
      BY <1>1, <3>1
    <3>. QED
      BY <1>1, <2>3, <2>4, <3>1, <3>2 DEF Descending
  <2>7. MostSpecific(ref, S) = CHOOSE s \in S : \A t \in S : AsSpecific(s, t, ref)
    BY DEF MostSpecific, AsSpecific
  <2>8. PICK c : c = CHOOSE s \in S : \A t \in S : AsSpecific(s, t, ref)
    OBVIOUS
  <2>9. c \in S /\ \A t \in S : AsSpecific(c, t, ref)
    BY <2>5, <2>6, <2>8
  <2>10. c = best
    BY <2>5, <2>6, <2>9 DEF Strict
  <2>. QED
    BY <1>2, <1>3, <1>4, <2>2, <2>4, <2>5, <2>7, <2>8, <2>10
<1>. QED
  BY <1>2, <1>3, <1>4

\* A reference's whole text begins with its name.
LEMMA WholeIs ==
    ASSUME NEW ref, IsName(ref.name)
    PROVE  /\ IsText(Whole(ref)) /\ Len(Whole(ref)) \in Nat /\ Len(Whole(ref)) >= Len(ref.name)
           /\ Whole(ref)[1] = ref.name[1] /\ Whole(ref) # <<>>
<1>1. PICK name, n : name = ref.name /\ n = Len(name)
  OBVIOUS
<1>2. IsText(name) /\ n \in Nat /\ n >= 1
  BY <1>1, TextIs DEF IsName
<1>3. PICK x, y : /\ x = IF ref.tag = None THEN <<>> ELSE <<":", ref.tag>>
                  /\ y = IF ref.digest = None THEN <<>> ELSE <<"@", ref.digest>>
  OBVIOUS
<1>4. ASSUME NEW a, NEW b PROVE IsText(<<a, b>>)
  <2>1. <<a, b>> \in Seq({a, b}) /\ DOMAIN <<a, b>> = 1..2
    OBVIOUS
  <2>2. {<<a, b>>[i] : i \in DOMAIN <<a, b>>} = {a, b}
    BY <2>1
  <2>. QED
    BY <2>1, <2>2 DEF IsText
<1>5. IsText(<<>>)
  BY DEF IsText
<1>6. IsText(x) /\ IsText(y)
  BY <1>3, <1>4, <1>5
<1>7. PICK A, p : A = name \o x /\ p = Len(x)
  OBVIOUS
<1>8. IsText(A) /\ Len(A) = n + p /\ p \in Nat /\ \A i \in 1..n : A[i] = name[i]
  <2>1. IsJoin(A, name, x, n, p)
    BY <1>1, <1>2, <1>6, <1>7, Joined
  <2>. QED
    BY <2>1 DEF IsJoin
<1>9. PICK a : a = n + p
  OBVIOUS
<1>10. PICK B, q : B = A \o y /\ q = Len(y)
  OBVIOUS
<1>11. IsText(B) /\ Len(B) = a + q /\ q \in Nat /\ \A i \in 1..a : B[i] = A[i]
  <2>1. IsJoin(B, A, y, a, q)
    BY <1>6, <1>8, <1>9, <1>10, Joined
  <2>. QED
    BY <2>1 DEF IsJoin
<1>12. 1 \in 1..n /\ 1 \in 1..a /\ a + q \in Nat /\ a + q >= n /\ a + q >= 1
  BY <1>2, <1>8, <1>9, <1>11
<1>13. B[1] = name[1] /\ Len(B) >= n /\ Len(B) \in Nat /\ Len(B) >= 1
  BY <1>8, <1>11, <1>12
<1>14. B # <<>>
  BY <1>13
<1>15. Whole(ref) = B
  BY <1>1, <1>3, <1>7, <1>10 DEF Whole
<1>. QED
  BY <1>1, <1>11, <1>13, <1>14, <1>15

\* The ranks, and that of the whole reference.
LEMMA RankRange == \A s, ref : Rank(s, ref) \in 0..3
BY DEF Rank

LEMMA WholeRank == \A ref : Rank(Whole(ref), ref) = 3
BY DEF Rank

\* What a path is, in a reference's name.
LEMMA PathRank ==
    ASSUME NEW ref, IsName(ref.name), NEW s, IsPath(s, ref.name)
    PROVE  Rank(s, ref) = IF s = Whole(ref) THEN 3 ELSE 2
BY DEF Rank

\* What a domain is: it begins with an asterisk, as no path does.
LEMMA DomainIs ==
    ASSUME NEW name, IsName(name), NEW i \in 1..HostEnd(name)
    PROVE  /\ IsText(Domain(name, i)) /\ Len(Domain(name, i)) = 2 + (HostEnd(name) - i)
           /\ Domain(name, i)[1] = "*" /\ HostEnd(name) \in Nat
<1>1. PICK h, m : h = HostEnd(name) /\ m = Len(name)
  OBVIOUS
<1>2. IsText(name) /\ m \in Nat /\ h \in 0..m /\ h \in Nat /\ i \in 1..h
  BY <1>1, HostIs, TextIs DEF IsName, IsHostEnd
<1>3. PICK t : t = SubSeq(name, i + 1, h)
  OBVIOUS
<1>4. PICK n : n = h - i
  OBVIOUS
<1>5. n \in Nat
  BY <1>2, <1>4
<1>6. IsText(t) /\ Len(t) = n
  <2>1. PICK S : name \in Seq(S)
    BY <1>2, TextIs
  <2>2. PICK a : a = i + 1
    OBVIOUS
  <2>3. a \in 1..(m + 1) /\ h \in (a - 1)..m /\ (h - a) + 1 = n
    BY <1>2, <1>4, <2>2
  <2>4. t \in Seq(S) /\ Len(t) = (h - a) + 1
    BY <1>1, <1>3, <2>1, <2>2, <2>3, SubSeqProperties
  <2>5. Len(t) = n
    BY <2>3, <2>4
  <2>6. t = [j \in 1..n |-> t[j]]
    BY <2>4, <2>5
  <2>. QED
    BY <1>5, <2>6, FunctionText
<1>7. PICK w : w = <<"*", ".">>
  OBVIOUS
<1>8. IsText(w) /\ Len(w) = 2 /\ w[1] = "*"
  <2>1. w = [j \in 1..2 |-> w[j]] /\ 2 \in Nat /\ w[1] = "*"
    BY <1>7
  <2>. QED
    BY <2>1, FunctionText
<1>9. PICK two : two = 2
  OBVIOUS
<1>10. IsJoin(w \o t, w, t, two, n)
  BY <1>6, <1>8, <1>9, Joined
<1>11. PICK d : d = w \o t
  OBVIOUS
<1>12. IsText(d) /\ Len(d) = 2 + n /\ d[1] = w[1]
  <2>1. 1 \in 1..two
    BY <1>9
  <2>. QED
    BY <1>9, <1>10, <1>11, <2>1 DEF IsJoin
<1>13. Domain(name, i) = d
  BY <1>1, <1>3, <1>7, <1>11 DEF Domain
<1>. QED
  BY <1>1, <1>2, <1>4, <1>8, <1>12, <1>13

\* No path begins with an asterisk, and one is given by its length.
LEMMA PathBegins ==
    ASSUME NEW name, IsName(name), NEW s, IsText(s), IsPath(s, name)
    PROVE  s[1] # "*" /\ Len(s) \in Nat /\ Len(s) >= 1 /\ s = SubSeq(name, 1, Len(s))
<1>1. IsText(name) /\ name[1] # "*"
  BY DEF IsName
<1>2. PICK n \in 1..Len(name) : s = SubSeq(name, 1, n)
  BY <1>1, PathIs
<1>3. n \in 0..Len(name) /\ 1 \in 1..n /\ n \in Nat /\ n >= 1
  BY <1>1, TextIs
<1>4. Len(s) = n /\ s[1] = name[1]
  BY <1>1, <1>2, <1>3, FrontIs
<1>. QED
  BY <1>1, <1>2, <1>3, <1>4

\* A domain of the host ranks below the paths.
LEMMA DomainRank ==
    ASSUME NEW ref, IsName(ref.name), NEW i \in 1..HostEnd(ref.name), ref.name[i] = ".", NEW s,
           s = Domain(ref.name, i)
    PROVE  Rank(s, ref) = 1
<1>1. PICK name : name = ref.name
  OBVIOUS
<1>2. IsText(s) /\ s[1] = "*"
  BY DomainIs
<1>3. s # Whole(ref)
  BY <1>2, WholeIs DEF IsName
<1>4. ~IsPath(s, name)
  BY <1>1, <1>2, PathBegins
<1>5. IsDomain(s, name)
  BY <1>1 DEF IsDomain, Domain
<1>. QED
  BY <1>1, <1>3, <1>4, <1>5 DEF Rank

\* The three parts of the list.
LEMMA PathsDescend ==
    ASSUME NEW ref, IsName(ref.name)
    PROVE  /\ Descending(Paths(ref.name), ref)
           /\ \A s : Has(Paths(ref.name), s) <=> IsText(s) /\ IsPath(s, ref.name)
<1>1. PICK name, m : name = ref.name /\ m = Len(name)
  OBVIOUS
<1>2. IsName(name) /\ IsText(name) /\ name # <<>> /\ name[1] # "/" /\ m \in Nat
  BY <1>1, TextIs DEF IsName
<1>3. PICK P : P = Paths(name)
  OBVIOUS
<1>4. PICK e : ArePaths(P, e, name)
  BY <1>2, <1>3, ParentsAre
<1>5. PICK p : p = Len(P)
  OBVIOUS
<1>6. /\ IsText(P) /\ e \in [1..p -> 1..m]
      /\ \A i \in 1..p : P[i] = SubSeq(name, 1, e[i])
      /\ \A i, j \in 1..p : i < j => e[j] < e[i]
      /\ \A i \in 1..p : Cutting(name, e[i])
      /\ \A n \in 1..m : Cutting(name, n) => \E i \in 1..p : e[i] = n
  BY <1>1, <1>4, <1>5 DEF ArePaths
<1>7. p \in Nat
  BY <1>5, <1>6, TextIs
<1>8. ASSUME NEW i \in 1..p
      PROVE  Len(P[i]) = e[i] /\ IsText(P[i]) /\ IsPath(P[i], name) /\ e[i] \in 1..m
  <2>1. PICK n : n = e[i]
    OBVIOUS
  <2>2. n \in 1..m /\ P[i] = SubSeq(name, 1, n) /\ Cutting(name, n)
    BY <1>6, <2>1
  <2>3. n \in 0..m
    BY <2>2
  <2>4. Len(P[i]) = n /\ IsText(P[i])
    <3>1. PICK t : t = SubSeq(name, 1, n)
      OBVIOUS
    <3>2. n \in 0..Len(name)
      BY <1>1, <2>3
    <3>3. Len(t) = n /\ IsText(t)
      BY <1>2, <3>1, <3>2, FrontIs
    <3>. QED
      BY <2>2, <3>1, <3>3
  <2>5. IsPath(P[i], name)
    BY <1>1, <1>2, <2>2, <2>4, PathIs
  <2>. QED
    BY <2>1, <2>2, <2>4, <2>5
<1>9. ASSUME NEW s PROVE Has(P, s) <=> IsText(s) /\ IsPath(s, name)
  <2>1. ASSUME Has(P, s) PROVE IsText(s) /\ IsPath(s, name)
    BY <1>5, <1>8, <2>1 DEF Has
  <2>2. ASSUME IsText(s), IsPath(s, name) PROVE Has(P, s)
    <3>1. PICK n \in 1..m : s = SubSeq(name, 1, n) /\ Cutting(name, n)
      BY <1>1, <1>2, <2>2, PathIs
    <3>2. PICK i \in 1..p : e[i] = n
      BY <1>6, <3>1
    <3>. QED
      BY <1>5, <1>6, <3>1, <3>2 DEF Has
  <2>. QED
    BY <2>1, <2>2
<1>10. ASSUME NEW i \in 1..p, NEW j \in 1..p, i <= j PROVE AsSpecific(P[i], P[j], ref)
  <2>1. Rank(P[i], ref) = IF P[i] = Whole(ref) THEN 3 ELSE 2
    BY <1>1, <1>8, PathRank
  <2>2. CASE i = j
    <3>1. Len(P[i]) \in Nat
      BY <1>8, TextIs
    <3>. QED
      BY <2>2, <3>1 DEF AsSpecific
  <2>3. CASE i # j
    <3>1. i < j
      BY <1>7, <1>10, <2>3
    <3>2. PICK x, y : x = e[i] /\ y = e[j]
      OBVIOUS
    <3>3. y < x /\ x \in 1..m /\ y \in 1..m /\ Len(P[i]) = x /\ Len(P[j]) = y
      BY <1>6, <1>8, <3>1, <3>2
    <3>4. PICK l : l = Len(Whole(ref))
      OBVIOUS
    <3>5. l \in Nat /\ l >= m
      BY <1>1, <3>4, WholeIs
    <3>6. y # l
      BY <1>2, <3>3, <3>5
    <3>7. P[j] # Whole(ref)
      BY <3>3, <3>4, <3>6
    <3>8. Rank(P[j], ref) = 2
      BY <1>1, <1>8, <3>7, PathRank
    <3>9. Len(P[i]) >= Len(P[j])
      BY <3>3
    <3>. QED
      BY <2>1, <3>8, <3>9 DEF AsSpecific
  <2>. QED
    BY <2>2, <2>3
<1>. QED
  BY <1>1, <1>3, <1>5, <1>6, <1>9, <1>10 DEF Descending

\* And the domains.
LEMMA WildcardsDescend ==
    ASSUME NEW ref, IsName(ref.name)
    PROVE  LET W == Wildcards(Host(ref.name))
           IN /\ Descending(W, ref)
              /\ \A s : Has(W, s) <=> IsDomain(s, ref.name)
              /\ \A s : Has(W, s) => Rank(s, ref) = 1
<1>1. PICK name, h, W : name = ref.name /\ h = HostEnd(name) /\ W = Wildcards(Host(name))
  OBVIOUS
<1>2. IsName(name)
  BY <1>1
<1>3. PICK d : AreWildcards(W, d, name)
  BY <1>1, <1>2, WildcardsAre
<1>4. PICK w : w = Len(W)
  OBVIOUS
<1>5. /\ IsText(W) /\ d \in [1..w -> 1..h]
      /\ \A k \in 1..w : W[k] = Domain(name, d[k]) /\ name[d[k]] = "."
      /\ \A k, l \in 1..w : k < l => d[k] < d[l]
      /\ \A i \in 1..h : name[i] = "." => \E k \in 1..w : d[k] = i
  BY <1>1, <1>3, <1>4 DEF AreWildcards
<1>6. w \in Nat
  BY <1>4, <1>5, TextIs
<1>7. ASSUME NEW k \in 1..w PROVE Rank(W[k], ref) = 1 /\ Len(W[k]) = 2 + (h - d[k]) /\ h \in Nat
  <2>1. PICK i : i = d[k]
    OBVIOUS
  <2>2. i \in 1..HostEnd(ref.name) /\ W[k] = Domain(ref.name, i) /\ ref.name[i] = "."
    BY <1>1, <1>5, <2>1
  <2>3. Rank(W[k], ref) = 1
    BY <2>2, DomainRank
  <2>4. Len(Domain(name, i)) = 2 + (h - i) /\ h \in Nat
    BY <1>1, <1>2, <2>2, DomainIs
  <2>. QED
    BY <1>1, <2>1, <2>2, <2>3, <2>4
<1>8. ASSUME NEW k \in 1..w, NEW l \in 1..w, k <= l PROVE AsSpecific(W[k], W[l], ref)
  <2>1. PICK x, y : x = d[k] /\ y = d[l]
    OBVIOUS
  <2>2. x \in 1..h /\ y \in 1..h /\ x <= y
    <3>1. k = l \/ k < l
      BY <1>6, <1>8
    <3>2. x \in 1..h /\ y \in 1..h
      BY <1>5, <2>1
    <3>. QED
      BY <1>5, <2>1, <3>1, <3>2
  <2>3. 2 + (h - x) >= 2 + (h - y)
    BY <1>7, <2>2
  <2>. QED
    BY <1>7, <2>1, <2>3 DEF AsSpecific
<1>9. ASSUME NEW s PROVE Has(W, s) <=> IsDomain(s, name)
  <2>1. IsDomain(s, name) <=> \E i \in 1..h : name[i] = "." /\ s = Domain(name, i)
    BY <1>1 DEF IsDomain, Domain
  <2>2. ASSUME Has(W, s) PROVE \E i \in 1..h : name[i] = "." /\ s = Domain(name, i)
    <3>1. PICK k \in 1..w : W[k] = s
      BY <1>4, <2>2 DEF Has
    <3>2. d[k] \in 1..h /\ name[d[k]] = "." /\ s = Domain(name, d[k])
      BY <1>5, <3>1
    <3>. QED
      BY <3>2
  <2>3. ASSUME NEW i \in 1..h, name[i] = ".", s = Domain(name, i) PROVE Has(W, s)
    <3>1. PICK k \in 1..w : d[k] = i
      BY <1>5, <2>3
    <3>2. W[k] = s
      BY <1>5, <2>3, <3>1
    <3>. QED
      BY <1>4, <3>2 DEF Has
  <2>. QED
    BY <2>1, <2>2, <2>3
<1>. QED
  BY <1>1, <1>4, <1>5, <1>7, <1>8, <1>9 DEF Descending, Has

\* The empty scope covers nothing.
LEMMA EmptyRank ==
    ASSUME NEW ref, IsName(ref.name)
    PROVE  Rank(<<>>, ref) = 0
<1>1. <<>> # Whole(ref)
  BY WholeIs
<1>2. ~IsPath(<<>>, ref.name)
  BY DEF IsPath
<1>3. ~IsDomain(<<>>, ref.name)
  <2>. SUFFICES ASSUME NEW i \in 1..HostEnd(ref.name), <<>> = Domain(ref.name, i) PROVE FALSE
    BY DEF IsDomain, Domain
  <2>1. PICK h, name : name = ref.name /\ h = HostEnd(name)
    OBVIOUS
  <2>2. Len(<<>>) = 2 + (h - i) /\ h \in Nat /\ i \in 1..h
    BY <2>1, DomainIs
  <2>. QED
    BY <2>2
<1>. QED
  BY <1>1, <1>2, <1>3 DEF Rank

\* Two scopes of the same rank and length are one.
LEMMA OneOfARank ==
    ASSUME NEW ref, IsName(ref.name), NEW s, NEW t, IsText(s), IsText(t),
           Rank(s, ref) > 0 \/ s = <<>>, Rank(t, ref) > 0 \/ t = <<>>,
           AsSpecific(s, t, ref), AsSpecific(t, s, ref)
    PROVE  s = t
<1>1. PICK r : r = Rank(s, ref)
  OBVIOUS
<1>2. r \in 0..3 /\ Rank(t, ref) = r /\ Len(s) = Len(t)
  <2>1. PICK q, a, b : q = Rank(t, ref) /\ a = Len(s) /\ b = Len(t)
    OBVIOUS
  <2>2. r \in 0..3 /\ q \in 0..3 /\ a \in Nat /\ b \in Nat
    BY <1>1, <2>1, RankRange, TextIs
  <2>3. (r > q \/ (r = q /\ a >= b)) /\ (q > r \/ (q = r /\ b >= a))
    BY <1>1, <2>1 DEF AsSpecific
  <2>. QED
    BY <2>1, <2>2, <2>3
<1>3. CASE r = 0
  BY <1>1, <1>2, <1>3
<1>4. CASE r = 3
  <2>1. s = Whole(ref)
    BY <1>1, <1>4 DEF Rank
  <2>2. t = Whole(ref)
    BY <1>2, <1>4 DEF Rank
  <2>. QED
    BY <2>1, <2>2
<1>5. CASE r = 2
  <2>1. IsPath(s, ref.name)
    BY <1>1, <1>5 DEF Rank
  <2>2. IsPath(t, ref.name)
    BY <1>2, <1>5 DEF Rank
  <2>. QED
    BY <1>2, <2>1, <2>2, PathBegins
<1>6. CASE r = 1
  <2>1. PICK name, h : name = ref.name /\ h = HostEnd(name)
    OBVIOUS
  <2>2. PICK i \in 1..h : s = Domain(name, i)
    <3>1. IsDomain(s, ref.name)
      BY <1>1, <1>6 DEF Rank
    <3>. QED
      BY <2>1, <3>1 DEF IsDomain, Domain
  <2>3. PICK j \in 1..h : t = Domain(name, j)
    <3>1. IsDomain(t, ref.name)
      BY <1>2, <1>6 DEF Rank
    <3>. QED
      BY <2>1, <3>1 DEF IsDomain, Domain
  <2>4. Len(s) = 2 + (h - i) /\ h \in Nat
    BY <2>1, <2>2, DomainIs
  <2>5. Len(t) = 2 + (h - j)
    BY <2>1, <2>3, DomainIs
  <2>6. i = j
    <3>1. 2 + (h - i) = 2 + (h - j) /\ h \in Nat /\ i \in 1..h /\ j \in 1..h
      BY <1>2, <2>2, <2>3, <2>4, <2>5
    <3>. QED
      BY <3>1
  <2>. QED
    BY <2>2, <2>3, <2>6
<1>. QED
  BY <1>2, <1>3, <1>4, <1>5, <1>6

\* A list of one element.
LEMMA OneElement ==
    ASSUME NEW x
    PROVE  /\ IsText(<<x>>) /\ Len(<<x>>) = 1
           /\ \A s : Has(<<x>>, s) <=> s = x
<1>1. PICK L : L = <<x>>
  OBVIOUS
<1>2. Len(L) = 1 /\ L[1] = x /\ L = [i \in 1..1 |-> L[i]] /\ 1 \in Nat
  BY <1>1
<1>3. IsText(L)
  BY <1>2, FunctionText
<1>. QED
  BY <1>1, <1>2, <1>3 DEF Has

\* It descends.
LEMMA OneDescends ==
    ASSUME NEW x, IsText(x), NEW ref
    PROVE  Descending(<<x>>, ref)
<1>1. PICK L : L = <<x>>
  OBVIOUS
<1>2. Len(L) = 1 /\ L[1] = x /\ IsText(L)
  BY <1>1, OneElement
<1>3. AsSpecific(x, x, ref)
  <2>1. Len(x) \in Nat
    BY TextIs
  <2>. QED
    BY <2>1 DEF AsSpecific
<1>. QED
  BY <1>1, <1>2, <1>3 DEF Descending

\* get_image_namespaces after the whole reference: exactly the scopes that
\* cover it, the most specific first.
ScopesOf(ref) == <<Whole(ref)>> \o Namespaces(ref)
LEMMA ScopesDescend ==
    ASSUME NEW ref, IsName(ref.name)
    PROVE  /\ Descending(ScopesOf(ref), ref)
           /\ \A s : Has(ScopesOf(ref), s) => IsText(s) /\ Rank(s, ref) > 0
           /\ \A s : IsText(s) /\ Rank(s, ref) > 0 => Has(ScopesOf(ref), s)
<1>1. PICK P, W : P = Paths(ref.name) /\ W = Wildcards(Host(ref.name))
  OBVIOUS
<1>2. PICK N : N = P \o W
  OBVIOUS
<1>3. Namespaces(ref) = N
  BY <1>1, <1>2 DEF Namespaces, Paths
<1>4. /\ Descending(P, ref) /\ Descending(W, ref)
      /\ \A s : Has(P, s) <=> IsText(s) /\ IsPath(s, ref.name)
      /\ \A s : Has(W, s) <=> IsDomain(s, ref.name)
      /\ \A s : Has(W, s) => Rank(s, ref) = 1
  BY <1>1, PathsDescend, WildcardsDescend
<1>5. \A s : Has(P, s) => Rank(s, ref) = IF s = Whole(ref) THEN 3 ELSE 2
  BY <1>4, PathRank
<1>6. Descending(N, ref)
  <2>1. ASSUME NEW s, NEW t, Has(P, s), Has(W, t) PROVE AsSpecific(s, t, ref)
    <3>1. Rank(s, ref) \in {2, 3} /\ Rank(t, ref) = 1
      BY <1>4, <1>5, <2>1
    <3>. QED
      BY <3>1 DEF AsSpecific
  <2>. QED
    BY <1>2, <1>4, <2>1, JoinDescending
<1>7. \A s : Has(N, s) <=> Has(P, s) \/ Has(W, s)
  BY <1>2, <1>4, JoinHas DEF Descending
<1>8. PICK x, one : x = Whole(ref) /\ one = <<x>>
  OBVIOUS
<1>9. IsText(x) /\ Rank(x, ref) = 3 /\ Len(x) \in Nat
  BY <1>8, WholeIs, WholeRank
<1>10. Descending(one, ref) /\ \A s : Has(one, s) <=> s = x
  BY <1>8, <1>9, OneDescends, OneElement
<1>11. ScopesOf(ref) = one \o N
  BY <1>3, <1>8 DEF ScopesOf
<1>12. Descending(one \o N, ref)
  <2>1. ASSUME NEW s, NEW t, Has(one, s), Has(N, t) PROVE AsSpecific(s, t, ref)
    <3>1. s = x
      BY <1>10, <2>1
    <3>2. Rank(t, ref) \in {1, 2} \/ t = x
      BY <1>4, <1>5, <1>7, <1>8, <2>1
    <3>. QED
      BY <1>9, <3>1, <3>2 DEF AsSpecific
  <2>. QED
    BY <1>6, <1>10, <2>1, JoinDescending
<1>13. \A s : Has(one \o N, s) <=> s = x \/ Has(P, s) \/ Has(W, s)
  BY <1>6, <1>7, <1>10, JoinHas DEF Descending
<1>14. ASSUME NEW s, IsDomain(s, ref.name) PROVE IsText(s)
  <2>1. PICK name : name = ref.name
    OBVIOUS
  <2>2. PICK i \in 1..HostEnd(name) : s = Domain(name, i)
    BY <1>14, <2>1 DEF IsDomain, Domain
  <2>. QED
    BY <2>1, <2>2, DomainIs
<1>15. ASSUME NEW s, Has(one \o N, s) PROVE IsText(s) /\ Rank(s, ref) > 0
  <2>1. CASE s = x
    BY <1>9, <2>1
  <2>2. CASE Has(P, s)
    <3>1. Rank(s, ref) \in {2, 3}
      BY <1>5, <2>2
    <3>. QED
      BY <1>4, <2>2, <3>1
  <2>3. CASE Has(W, s)
    BY <1>4, <1>14, <2>3
  <2>. QED
    BY <1>13, <1>15, <2>1, <2>2, <2>3
<1>16. ASSUME NEW s, IsText(s), Rank(s, ref) > 0 PROVE Has(one \o N, s)
  <2>1. s = x \/ IsPath(s, ref.name) \/ IsDomain(s, ref.name)
    BY <1>8, <1>16 DEF Rank
  <2>. QED
    BY <1>4, <1>13, <1>16, <2>1
<1>. QED
  BY <1>11, <1>12, <1>15, <1>16

\* The scope that is found is the most specific one that covers the reference.
LEMMA ScopeFound ==
    ASSUME NEW ref, IsName(ref.name), NEW map, HasScopes(map)
    PROVE  LET S == CoveringScopes(ref, map)
               found == FirstIn(<<Whole(ref)>> \o Namespaces(ref), map)
           IN found = (IF S = {} THEN None ELSE MostSpecific(ref, S)) /\ (S # {} => found # None)
<1>1. PICK L : L = ScopesOf(ref)
  OBVIOUS
<1>2. /\ Descending(L, ref)
      /\ \A s : Has(L, s) => IsText(s) /\ Rank(s, ref) > 0
      /\ \A s : IsText(s) /\ Rank(s, ref) > 0 => Has(L, s)
  BY <1>1, ScopesDescend
<1>3. CoveringScopes(ref, map) = {s \in DOMAIN map : Has(L, s)}
  BY <1>2 DEF CoveringScopes, HasScopes
<1>4. Strict(L, ref)
  BY <1>2, OneOfARank DEF Strict
<1>5. PICK S : S = CoveringScopes(ref, map)
  OBVIOUS
<1>6. /\ FirstIn(L, map) = IF S = {} THEN None ELSE MostSpecific(ref, S)
      /\ S # {} => FirstIn(L, map) \in S
  <2>1. Descending(L, ref) /\ HasScopes(map) /\ S = {s \in DOMAIN map : Has(L, s)}
    BY <1>2, <1>3, <1>5
  <2>. QED
    BY <1>4, <2>1, FirstIsBest
<1>7. \A s \in S : s # None
  BY <1>5 DEF CoveringScopes, HasScopes
<1>. QED
  BY <1>1, <1>5, <1>6, <1>7 DEF ScopesOf

\* And in a policy the transport's own default after these.
LEMMA PolicyScopeFound ==
    ASSUME NEW ref, IsName(ref.name), NEW map, HasScopes(map), NEW S,
           S = CoveringScopes(ref, map) \cup ({<<>>} \cap DOMAIN map)
    PROVE  LET found == FirstIn(<<Whole(ref)>> \o Namespaces(ref) \o <<<<>>>>, map)
           IN found = (IF S = {} THEN None ELSE MostSpecific(ref, S)) /\ (S # {} => found # None)
<1>1. PICK L, none, last : L = ScopesOf(ref) /\ none = <<>> /\ last = <<none>>
  OBVIOUS
<1>2. /\ Descending(L, ref)
      /\ \A s : Has(L, s) => IsText(s) /\ Rank(s, ref) > 0
      /\ \A s : IsText(s) /\ Rank(s, ref) > 0 => Has(L, s)
  BY <1>1, ScopesDescend
<1>3. IsText(none) /\ Rank(none, ref) = 0
  BY <1>1, EmptyRank DEF IsText
<1>4. Descending(last, ref) /\ \A s : Has(last, s) <=> s = none
  BY <1>1, <1>3, OneDescends, OneElement
<1>5. Descending(L \o last, ref)
  <2>1. ASSUME NEW s, NEW t, Has(L, s), Has(last, t) PROVE AsSpecific(s, t, ref)
    BY <1>2, <1>3, <1>4, <2>1 DEF AsSpecific
  <2>. QED
    BY <1>2, <1>4, <2>1, JoinDescending
<1>6. \A s : Has(L \o last, s) <=> Has(L, s) \/ s = none
  BY <1>2, <1>4, JoinHas DEF Descending
<1>7. PICK M : M = L \o last
  OBVIOUS
<1>8. S = {s \in DOMAIN map : Has(M, s)}
  <2>1. CoveringScopes(ref, map) = {s \in DOMAIN map : Has(L, s)}
    BY <1>2 DEF CoveringScopes, HasScopes
  <2>. QED
    BY <1>1, <1>6, <1>7, <2>1
<1>9. Strict(M, ref)
  <2>1. \A s : Has(M, s) => IsText(s) /\ (Rank(s, ref) > 0 \/ s = <<>>)
    BY <1>1, <1>2, <1>3, <1>6, <1>7
  <2>. QED
    BY <2>1, OneOfARank DEF Strict
<1>10. /\ FirstIn(M, map) = IF S = {} THEN None ELSE MostSpecific(ref, S)
       /\ S # {} => FirstIn(M, map) \in S
  <2>1. Descending(M, ref)
    BY <1>5, <1>7
  <2>2. PICK T : T = {s \in DOMAIN map : Has(M, s)}
    OBVIOUS
  <2>3. /\ FirstIn(M, map) = IF T = {} THEN None ELSE MostSpecific(ref, T)
        /\ T # {} => FirstIn(M, map) \in T
    BY <1>9, <2>1, <2>2, FirstIsBest
  <2>. QED
    BY <1>8, <2>2, <2>3
<1>11. \A s \in S : s # None
  BY <1>8 DEF HasScopes
<1>. QED
  BY <1>1, <1>7, <1>10, <1>11 DEF ScopesOf

\* The key of the registry file that is found is the longest path.
LEMMA PathFound ==
    ASSUME NEW ref, IsName(ref.name), NEW map, HasScopes(map), NEW S,
           S = {k \in DOMAIN map : IsPath(k, ref.name)}
    PROVE  LET key == FirstIn(AuthKeys(ref), map)
           IN IF S = {} THEN key = None
              ELSE key # None /\ key \in S /\ \A k \in S : Len(k) <= Len(key)
<1>1. PICK P : P = Paths(ref.name)
  OBVIOUS
<1>2. Descending(P, ref) /\ \A s : Has(P, s) <=> IsText(s) /\ IsPath(s, ref.name)
  BY <1>1, PathsDescend
<1>3. S = {k \in DOMAIN map : Has(P, k)}
  BY <1>2 DEF HasScopes
<1>4. PICK found : found = {i \in 1..Len(P) : P[i] \in DOMAIN map}
  OBVIOUS
<1>5. PICK key : key = FirstIn(P, map)
  OBVIOUS
<1>6. key = IF found = {} THEN None ELSE P[Min(found)]
  BY <1>4, <1>5 DEF FirstIn
<1>7. AuthKeys(ref) = P
  BY <1>1 DEF AuthKeys, Paths
<1>8. CASE S = {}
  <2>1. found = {}
    BY <1>3, <1>4, <1>8 DEF Has
  <2>. QED
    BY <1>5, <1>6, <1>7, <1>8, <2>1
<1>9. CASE S # {}
  <2>1. found # {} /\ found \in SUBSET Nat
    BY <1>3, <1>4, <1>9 DEF Has
  <2>2. PICK n : n = Min(found)
    OBVIOUS
  <2>3. n \in found /\ \A y \in found : n <= y
    BY <2>1, <2>2, LeastNatural
  <2>4. key = P[n] /\ key \in S /\ key # None
    BY <1>3, <1>4, <1>6, <2>1, <2>2, <2>3 DEF Has, HasScopes
  <2>5. ASSUME NEW k \in S PROVE Len(k) <= Len(key)
    <3>1. PICK j \in 1..Len(P) : P[j] = k
      BY <1>3 DEF Has
    <3>2. j \in found
      BY <1>3, <1>4, <3>1
    <3>3. AsSpecific(key, k, ref)
      BY <1>2, <1>4, <2>3, <2>4, <3>1, <3>2 DEF Descending
    <3>4. IsText(key) /\ IsPath(key, ref.name) /\ IsText(k) /\ IsPath(k, ref.name)
      BY <1>2, <1>3, <2>4
    <3>5. Rank(key, ref) = IF key = Whole(ref) THEN 3 ELSE 2
      BY <3>4, PathRank
    <3>6. Rank(k, ref) = IF k = Whole(ref) THEN 3 ELSE 2
      BY <3>4, PathRank
    <3>7. Len(key) \in Nat /\ Len(k) \in Nat
      BY <3>4, TextIs
    <3>8. CASE key = Whole(ref)
      <4>1. Len(key) >= Len(ref.name)
        BY <3>8, WholeIs
      <4>2. Len(k) <= Len(ref.name) /\ Len(ref.name) \in Nat
        BY <3>4, TextIs DEF IsPath, IsPrefix, IsName
      <4>. QED
        BY <3>7, <4>1, <4>2
    <3>9. CASE key # Whole(ref)
      BY <3>3, <3>5, <3>6, <3>7, <3>9 DEF AsSpecific
    <3>. QED
      BY <3>8, <3>9
  <2>. QED
    BY <1>5, <1>7, <1>9, <2>4, <2>5
<1>. QED
  BY <1>8, <1>9

-----------------------------------------------------------------------------
(* How a client is built.                                                   *)

\* A file of a resource of the client's own holds it, or what a crash has left
\* of it, and is there only if the resource is one of the KBS.
Schemes == {"none", "file", "kbs"}
FilesRight ==
    \A st \in Stages :
        /\ local[st] \in {None, Torn, Content(st)}
        /\ local[st] # None => Conf # None /\ Conf[st] = "kbs"

\* What is got of a resource: what its file holds, if there is one.
IsGot(st, data) == data = IF local[st] = Torn THEN Torn ELSE Content(st)
GotFor(st) ==
    /\ Conf[st] # None
    /\ chan.pc \in {"checkLocal", "fetch", "open", "fill", "done", "failed"}
    /\ chan.pc \in {"checkLocal", "fetch", "open", "fill"} => Conf[st] = "kbs"
    /\ chan.pc \in {"open", "fill"} => chan.data = Content(st)
    /\ chan.pc = "done" => Conf[st] \in Schemes /\ IsGot(st, chan.data)
    /\ chan.pc = "failed" => Conf[st] \notin Schemes \/ fails > 0
GettingRight ==
    /\ chan.pc # "idle" => boot \in Stages \/ check.pc = "key"
    /\ boot \in Stages /\ chan.pc # "idle" => GotFor(boot)

\* The stages behind the one in progress.
StagesRight ==
    /\ boot \in {"sigstore", "policy", "files", "ready"} => Conf.auth = None \/ ~BadResource("auth")
    /\ boot \in {"config", "auth", "sigstore"} => inline = None
    /\ boot \in {"policy", "files", "ready"} =>
          IF Conf.sigstore = None THEN inline = None
          ELSE Conf.sigstore \in Schemes /\ IsGot("sigstore", inline)
    /\ boot = "files" => Signing
    /\ boot = "files" \/ (boot = "ready" /\ Conf.policy # None) => ~BadResource("policy") /\ ParsesAsYaml(inline)

\* What has been merged so far is what the files that were read say together.
UnionOf(c, A) ==
    /\ c.default = None <=> \A a \in A : a.default = None
    /\ \A a \in A : a.default \in {None, c.default}
    /\ DOMAIN c.docker = UNION {DOMAIN a.docker : a \in A}
    /\ \A a \in A : \A ns \in DOMAIN a.docker : c.docker[ns] = a.docker[ns]
MergedRight ==
    /\ boot \in {"config"} \cup Stages => config = EmptyConfig /\ todo = setup.files
    /\ boot = "files" => todo \subseteq setup.files /\ UnionOf(config, setup.files \ todo)
    /\ boot = "ready" /\ Signing => UnionOf(config, AllConfigs)

Boots == Stages \cup {"config", "files", "ready", "failed"}
BuiltInv ==
    /\ boot \in Boots /\ fails \in Nat
    /\ boot \notin {"config", "failed"} => Conf # None
    /\ FilesRight /\ GettingRight /\ StagesRight /\ MergedRight
    /\ boot = "failed" => Unbuildable \/ fails > 0
    /\ check.cred # None => RightCredential

-----------------------------------------------------------------------------
(* How a verdict is reached.                                                *)

Live == check.cred # None /\ ~Conf.badCert /\ Conf.policy # None
InProgress ==
    /\ check.pc \in {"idle", "select"} \cup Checking
    /\ check.pc # "idle" \/ check.out # None => boot = "ready" /\ check.ref \in Images
    /\ check.pc # "idle" => Live /\ check.out = None
    /\ check.pc \in Checking => IsDigest(check.digest) /\ check.reqs = RequirementsForImage(check.ref)

\* The key of a requirement, as long as nothing has been changed.
Digest(ref) == IF ref.digest # None THEN ref.digest ELSE tagged
KeyGot ==
    /\ WellFormed(Req) /\ Req.type \in {"simple", "cosign"}
    /\ chan.pc \in {"checkLocal", "fetch", "open", "fill"} => Scheme(Req.path) = "kbs"
    /\ chan.pc \in {"open", "fill"} => chan.data = kbsKey
    /\ chan.pc = "done" => KeysNow(Req) = {chan.data}
    /\ chan.pc = "failed" => KeysNow(Req) = {}
    /\ chan.pc # "idle"
Undisturbed ==
    /\ check.digest = Digest(check.ref)
    /\ local["key"] \in {None, kbsKey} \/ (check.pc = "key" /\ chan.pc = "fill")
    /\ check.pc = "key" => KeyGot
    /\ check.pc \in {"signatures", "layers"} =>
          WellFormed(Req) /\ Req.type \in {"simple", "cosign"} /\ KeysNow(Req) = {check.key}
    /\ check.pc = "layers" => check.source = check.digest /\ Req.type = "cosign"
    /\ check.pc \in Checking => \A r, j : j \in 1..(check.i - 1) /\ r = check.reqs[j] => Meets(r)

Verdict(reqs) ==
    check.out = "accept" <=>
       /\ check.digest \notin Malformed /\ reqs # <<>>
       /\ \A i \in 1..Len(reqs) : Meets(reqs[i])
VerdictInv ==
    /\ InProgress
    /\ check.clean /\ check.pc # "idle" => Undisturbed
    /\ check.clean /\ check.out # None /\ Live => Verdict(RequirementsForImage(check.ref))

-----------------------------------------------------------------------------
(* What the parts of the invariant depend on.                               *)

\* The resources of the client.
LEMMA ContentIs ==
    /\ Content("auth") = setup.auths /\ Content("sigstore") = setup.sigstore
    /\ Content("policy") = setup.policy
BY DEF Content

\* They do not change ...
LEMMA ContentStays ==
    ASSUME setup' = setup, NEW st \in Stages
    PROVE  Content(st)' = Content(st)
<1>1. st = "auth" \/ st = "sigstore" \/ st = "policy"
  BY DEF Stages
<1>. QED
  BY <1>1 DEF Content

\* ... nor does what is bad of them, as long as their files stay.
LEMMA BadStays ==
    ASSUME setup' = setup, NEW st \in Stages, local'[st] = local[st],
           st # "sigstore" \/ inline' = inline
    PROVE  BadResource(st)' = BadResource(st)
<1>1. Conf' = Conf /\ Content(st)' = Content(st)
  BY ConfStays, ContentStays
<1>2. Signing' = Signing
  BY <1>1 DEF Signing
<1>. QED
  BY <1>1, <1>2 DEF BadResource

\* The reasons for a client not to be built stay.
LEMMA UnbuildableStays ==
    ASSUME setup' = setup, inline' = inline, \A st \in Stages : local'[st] = local[st]
    PROVE  Unbuildable' = Unbuildable
<1>1. Conf' = Conf
  BY ConfStays
<1>2. Signing' = Signing /\ Named' = Named /\ Agree' = Agree
  BY <1>1 DEF Signing, Named, Agree, AllConfigs
<1>3. ASSUME NEW st \in Named PROVE BadResource(st)' = BadResource(st)
  BY BadStays DEF Named
<1>4. (\E st \in Named : BadResource(st))' <=> (\E st \in Named : BadResource(st))
  BY <1>2, <1>3
<1>. QED
  BY <1>1, <1>2, <1>4 DEF Unbuildable

\* So does the right credential for a pull.
LEMMA CredentialStays ==
    ASSUME setup' = setup, check'.cred = check.cred, check'.ref = check.ref, check'.input = check.input
    PROVE  RightCredential' = RightCredential
<1>1. RegistryAuth' = RegistryAuth
  BY ConfStays DEF RegistryAuth
<1>. QED
  BY <1>1 DEF RightCredential

\* The file of the resource that is being got may change.
LEMMA StagesStay ==
    ASSUME StagesRight, MergedRight, UNCHANGED <<setup, boot, inline, config, todo>>,
           \A st \in Stages : st # boot => local'[st] = local[st]
    PROVE  StagesRight' /\ MergedRight'
<1>1. Conf' = Conf
  BY ConfStays
<1>2. Signing' = Signing /\ AllConfigs' = AllConfigs
  BY <1>1 DEF Signing, AllConfigs
<1>3. MergedRight'
  BY <1>2 DEF MergedRight, UnionOf
<1>4. ASSUME NEW st \in Stages, boot # st
      PROVE  BadResource(st)' = BadResource(st) /\ IsGot(st, inline)' = IsGot(st, inline)
  <2>1. local'[st] = local[st]
    BY <1>4
  <2>. QED
    BY <2>1, BadStays, ContentStays DEF IsGot
<1>5. "auth" \in Stages /\ "sigstore" \in Stages /\ "policy" \in Stages
  BY DEF Stages
<1>6. boot # "auth" => BadResource("auth")' = BadResource("auth")
  BY <1>4, <1>5
<1>7. boot # "sigstore" => IsGot("sigstore", inline)' = IsGot("sigstore", inline)
  BY <1>4, <1>5
<1>8. boot # "policy" => BadResource("policy")' = BadResource("policy")
  BY <1>4, <1>5
<1>9. ParsesAsYaml(inline)' = ParsesAsYaml(inline)
  BY DEF ParsesAsYaml
<1>10. StagesRight'
  BY <1>1, <1>2, <1>6, <1>7, <1>8, <1>9 DEF StagesRight
<1>. QED
  BY <1>3, <1>10

\* What the files hold stays right.
LEMMA FilesStay ==
    ASSUME FilesRight, setup' = setup, \A st \in Stages : local'[st] = local[st]
    PROVE  FilesRight'
<1>1. \A st \in Stages : Content(st)' = Content(st)
  BY ContentStays
<1>. QED
  BY <1>1, ConfStays DEF FilesRight

\* Nothing is got for a client that is built or cannot be built.
LEMMA BuiltStep ==
    ASSUME BuiltInv, UNCHANGED <<setup, boot, inline, config, todo>>,
           \A st \in Stages : st # boot => local'[st] = local[st],
           fails' \in Nat, fails' >= fails, FilesRight', GettingRight',
           check'.cred # None => RightCredential'
    PROVE  BuiltInv'
<1>1. Conf' = Conf
  BY ConfStays
<1>2. StagesRight' /\ MergedRight'
  BY StagesStay DEF BuiltInv
<1>3. boot = "failed" => Unbuildable' \/ fails' > 0
  <2>1. fails \in Nat /\ (fails > 0 => fails' > 0)
    BY DEF BuiltInv
  <2>2. boot = "failed" => boot \notin Stages
    BY DEF Stages
  <2>3. boot = "failed" => Unbuildable' = Unbuildable
    BY <2>2, UnbuildableStays
  <2>. QED
    BY <2>1, <2>3 DEF BuiltInv
<1>. QED
  BY <1>1, <1>2, <1>3 DEF BuiltInv

\* A step of the check that gets nothing of the client's own.
LEMMA BuiltFrame ==
    ASSUME BuiltInv, UNCHANGED <<setup, boot, inline, config, todo, local>>,
           fails' \in Nat, fails' >= fails,
           check'.cred = check.cred, check'.ref = check.ref, check'.input = check.input,
           boot \in Stages => chan' = chan,
           chan'.pc # "idle" => boot \in Stages \/ check'.pc = "key"
    PROVE  BuiltInv'
<1>1. FilesRight'
  BY FilesStay DEF BuiltInv
<1>2. check'.cred # None => RightCredential'
  BY CredentialStays DEF BuiltInv
<1>3. ASSUME boot \in Stages, chan'.pc # "idle" PROVE GotFor(boot)'
  <2>1. PICK st : st = boot
    OBVIOUS
  <2>2. st \in Stages /\ GotFor(st)
    BY <1>3, <2>1 DEF BuiltInv, GettingRight
  <2>3. Content(st)' = Content(st) /\ Conf' = Conf /\ chan' = chan
    BY <1>3, <2>2, ContentStays, ConfStays
  <2>4. fails \in Nat /\ (fails > 0 => fails' > 0)
    BY DEF BuiltInv
  <2>5. GotFor(st)'
    BY <2>2, <2>3, <2>4 DEF GotFor, IsGot
  <2>. QED
    BY <2>1, <2>5 DEF GotFor, IsGot, Content
<1>4. GettingRight'
  BY <1>3 DEF GettingRight
<1>. QED
  BY <1>1, <1>2, <1>4, BuiltStep

\* No file is there at the start.
LEMMA BuiltInit == Init => BuiltInv
<1>. SUFFICES ASSUME Init PROVE BuiltInv
  OBVIOUS
<1>1. /\ chan = Idle /\ check = NoCheck /\ boot = "config" /\ setup \in Setups /\ fails = 0
      /\ inline = None /\ config = EmptyConfig /\ todo = setup.files
      /\ local = [name \in Stages \cup {"key"} |-> None]
  BY DEF Init
<1>2. chan.pc = "idle" /\ check.cred = None
  BY <1>1 DEF Idle, NoCheck
<1>3. FilesRight
  BY <1>1 DEF FilesRight
<1>4. GettingRight /\ StagesRight /\ MergedRight
  BY <1>1, <1>2 DEF GettingRight, StagesRight, MergedRight, Stages
<1>. QED
  BY <1>1, <1>2, <1>3, <1>4 DEF BuiltInv, Boots

-----------------------------------------------------------------------------
(* The steps of the channel.                                                *)

\* What a step of the channel is about: a resource of the client's own, or a key.
LEMMA Getting ==
    ASSUME SignedInv, BuiltInv, chan.pc # "idle"
    PROVE  /\ IsChan(chan)
           /\ \/ boot \in Stages /\ chan.name = boot /\ GotFor(chan.name) /\ check.pc # "key"
              \/ check.pc = "key" /\ chan.name = "key" /\ boot = "ready"
<1>1. IsChan(chan) /\ (boot \in Stages \/ check.pc = "key")
  BY DEF SignedInv, ChannelRight, BuiltInv, GettingRight
<1>2. CASE check.pc = "key"
  BY <1>1, <1>2 DEF SignedInv, BuildRight, KeyRight
<1>3. CASE check.pc # "key"
  BY <1>1, <1>3 DEF SignedInv, BuildRight, BuiltInv, GettingRight
<1>. QED
  BY <1>2, <1>3

\* A step for a resource.
LEMMA ResourceStep ==
    ASSUME BuiltInv, UNCHANGED <<client, check>>, fails' \in Nat, fails' >= fails,
           NEW st \in Stages, boot = st, chan'.name = st, GotFor(st)', FilesRight',
           \A n \in Stages : n # st => local'[n] = local[n]
    PROVE  BuiltInv'
<1>1. check'.cred # None => RightCredential'
  BY CredentialStays DEF BuiltInv, client
<1>2. GotFor(boot)'
  BY DEF GotFor, IsGot, Content, client
<1>3. GettingRight'
  BY <1>2 DEF GettingRight, client
<1>. QED
  BY <1>1, <1>3, BuiltStep DEF client

LEMMA CheckLocalBuilt == SignedInv /\ BuiltInv /\ CheckLocal => BuiltInv'
<1>. SUFFICES ASSUME SignedInv, BuiltInv, CheckLocal PROVE BuiltInv'
  OBVIOUS
<1>1. chan.pc = "checkLocal" /\ UNCHANGED <<client, check, local, fails>>
  BY DEF CheckLocal, bounds
<1>2. fails \in Nat /\ fails >= fails
  BY DEF BuiltInv
<1>3. PICK st : st = chan.name
  OBVIOUS
<1>4. IsChan(chan') /\ chan'.name = st /\
      IF local[st] # None THEN chan'.pc = "done" /\ chan'.data = local[st] ELSE chan'.pc = "fetch"
  BY <1>1, <1>3, Getting DEF CheckLocal, IsChan, ChanFields
<1>5. CASE check.pc = "key"
  <2>1. boot \notin Stages
    BY <1>1, <1>5, Getting DEF Stages
  <2>. QED
    BY <1>1, <1>2, <1>5, <2>1, BuiltFrame DEF client
<1>6. CASE check.pc # "key"
  <2>1. st \in Stages /\ boot = st /\ GotFor(st)
    BY <1>1, <1>3, <1>6, Getting
  <2>2. Conf[st] = "kbs" /\ Conf' = Conf /\ Content(st)' = Content(st)
    BY <1>1, <2>1, ConfStays, ContentStays DEF GotFor, client
  <2>3. local[st] \in {None, Torn, Content(st)}
    BY <2>1 DEF BuiltInv, FilesRight
  <2>4. Conf[st] # None
    BY <2>1 DEF GotFor
  <2>5. chan'.pc = "done" => IsGot(st, chan'.data)
    BY <1>4, <2>3 DEF IsGot
  <2>6. GotFor(st)'
    BY <1>1, <1>4, <2>2, <2>4, <2>5 DEF GotFor, IsGot, Schemes
  <2>7. FilesRight'
    BY <1>1, FilesStay DEF BuiltInv, client
  <2>. QED
    BY <1>1, <1>2, <1>4, <2>1, <2>6, <2>7, ResourceStep
<1>. QED
  BY <1>5, <1>6

LEMMA FetchBuilt == SignedInv /\ BuiltInv /\ Fetch => BuiltInv'
<1>. SUFFICES ASSUME SignedInv, BuiltInv, Fetch PROVE BuiltInv'
  OBVIOUS
<1>1. chan.pc = "fetch" /\ UNCHANGED <<client, check, local, fails>>
  BY DEF Fetch, bounds
<1>2. fails \in Nat /\ fails >= fails
  BY DEF BuiltInv
<1>3. PICK st : st = chan.name
  OBVIOUS
<1>4. chan'.name = st /\ chan'.pc = "open" /\ chan'.data = Content(st)
  <2>1. PICK d : d = Content(chan.name)
    OBVIOUS
  <2>2. chan' = [chan EXCEPT !.pc = "open", !.data = d]
    BY <2>1 DEF Fetch
  <2>. QED
    BY <1>1, <1>3, <2>1, <2>2, Getting DEF IsChan, ChanFields
<1>5. CASE check.pc = "key"
  <2>1. boot \notin Stages
    BY <1>1, <1>5, Getting DEF Stages
  <2>. QED
    BY <1>1, <1>2, <1>5, <2>1, BuiltFrame DEF client
<1>6. CASE check.pc # "key"
  <2>1. st \in Stages /\ boot = st /\ GotFor(st)
    BY <1>1, <1>3, <1>6, Getting
  <2>2. Conf[st] = "kbs" /\ Conf' = Conf /\ Content(st)' = Content(st) /\ Conf[st] # None
    BY <1>1, <2>1, ConfStays, ContentStays DEF GotFor, client
  <2>3. GotFor(st)'
    BY <1>4, <2>2 DEF GotFor
  <2>4. FilesRight'
    BY <1>1, FilesStay DEF BuiltInv, client
  <2>. QED
    BY <1>1, <1>2, <1>4, <2>1, <2>3, <2>4, ResourceStep
<1>. QED
  BY <1>5, <1>6

\* The file of a resource that is got is written.
LEMMA FileWritten ==
    ASSUME SignedInv, BuiltInv, chan.pc \in {"open", "fill"}, UNCHANGED <<client, check, fails>>,
           NEW st, st = chan.name, NEW d, d \in {Torn, chan.data},
           local' = [local EXCEPT ![st] = d], chan'.name = st,
           chan'.pc \in {"fill", "done"}, chan'.data = chan.data, chan'.pc = "done" => d = chan.data
    PROVE  BuiltInv'
<1>1. fails \in Nat /\ fails >= fails
  BY DEF BuiltInv
<1>2. local = [n \in Names |-> local[n]]
  BY DEF SignedInv, KeptRight
<1>3. CASE check.pc = "key"
  <2>1. boot \notin Stages /\ st = "key" /\ boot = "ready"
    BY <1>3, Getting DEF Stages
  <2>2. \A n \in Stages : local'[n] = local[n]
    <3>1. "key" \notin Stages
      BY DEF Stages
    <3>. QED
      BY <1>2, <2>1, <3>1 DEF Names
  <2>3. FilesRight' /\ GettingRight'
    BY <1>3, <2>1, <2>2, FilesStay DEF BuiltInv, client, GettingRight
  <2>4. check'.cred # None => RightCredential'
    BY CredentialStays DEF BuiltInv, client
  <2>. QED
    BY <1>1, <2>2, <2>3, <2>4, BuiltStep DEF client
<1>4. CASE check.pc # "key"
  <2>1. st \in Stages /\ boot = st /\ GotFor(st)
    BY <1>4, Getting
  <2>2. Conf[st] = "kbs" /\ Conf' = Conf /\ Content(st)' = Content(st) /\ chan.data = Content(st)
    BY <2>1, ConfStays, ContentStays DEF GotFor, client
  <2>3. \A n \in Stages : n # st => local'[n] = local[n]
    BY <1>2, <2>1 DEF Names
  <2>4. local'[st] = d
    BY <1>2, <2>1 DEF Names
  <2>5. Torn # Content(st) /\ Conf[st] # None
    <3>1. setup \in Setups
      BY DEF SignedInv, BuildRight
    <3>2. Torn # Content(st)
      BY <2>1, <3>1, ContentIs, ContentAssumption DEF Stages
    <3>. QED
      BY <2>1, <3>2 DEF GotFor
  <2>6. GotFor(st)'
    BY <2>2, <2>4, <2>5 DEF GotFor, IsGot, Schemes
  <2>7. Conf # None
    BY <2>1 DEF BuiltInv, Stages
  <2>8. ASSUME NEW n \in Stages
        PROVE  local'[n] \in {None, Torn, Content(n)'} /\ (local'[n] # None => Conf # None /\ Conf[n] = "kbs")
    <3>1. Content(n)' = Content(n)
      BY ContentStays DEF client
    <3>. QED
      BY <2>2, <2>3, <2>4, <2>7, <3>1 DEF BuiltInv, FilesRight
  <2>9. FilesRight'
    BY <2>2, <2>8 DEF FilesRight
  <2>. QED
    BY <1>1, <2>1, <2>3, <2>6, <2>9, ResourceStep
<1>. QED
  BY <1>3, <1>4

LEMMA OpenLocalBuilt == SignedInv /\ BuiltInv /\ OpenLocal => BuiltInv'
<1>. SUFFICES ASSUME SignedInv, BuiltInv, OpenLocal PROVE BuiltInv'
  OBVIOUS
<1>1. chan.pc = "open" /\ UNCHANGED <<client, check, fails>> /\ local' = [local EXCEPT ![chan.name] = Torn]
  BY DEF OpenLocal, bounds
<1>2. chan'.name = chan.name /\ chan'.data = chan.data /\ chan'.pc = "fill"
  BY <1>1, Getting DEF OpenLocal, IsChan, ChanFields
<1>3. PICK st, d : st = chan.name /\ d = Torn
  OBVIOUS
<1>. QED
  BY <1>1, <1>2, <1>3, FileWritten

LEMMA FillLocalBuilt == SignedInv /\ BuiltInv /\ FillLocal => BuiltInv'
<1>. SUFFICES ASSUME SignedInv, BuiltInv, FillLocal PROVE BuiltInv'
  OBVIOUS
<1>1. chan.pc = "fill" /\ UNCHANGED <<client, check, fails>> /\ local' = [local EXCEPT ![chan.name] = chan.data]
  BY DEF FillLocal, bounds
<1>2. chan'.name = chan.name /\ chan'.data = chan.data /\ chan'.pc = "done"
  BY <1>1, Getting DEF FillLocal, IsChan, ChanFields
<1>3. PICK st, d : st = chan.name /\ d = chan.data
  OBVIOUS
<1>. QED
  BY <1>1, <1>2, <1>3, FileWritten

LEMMA GetFailsBuilt == SignedInv /\ BuiltInv /\ GetFails => BuiltInv'
<1>. SUFFICES ASSUME SignedInv, BuiltInv, GetFails PROVE BuiltInv'
  OBVIOUS
<1>1. /\ chan.pc \in {"fetch", "open", "fill"} /\ UNCHANGED <<client, local>>
      /\ fails' = fails + 1 /\ check' = [check EXCEPT !.clean = FALSE]
  BY DEF GetFails, Fail
<1>2. fails' \in Nat /\ fails' >= fails /\ fails' > 0
  BY <1>1 DEF BuiltInv
<1>3. chan'.name = chan.name /\ chan'.pc = "failed"
  BY <1>1, Getting DEF GetFails, IsChan, ChanFields
<1>4. check'.cred = check.cred /\ check'.ref = check.ref /\ check'.input = check.input /\ check'.pc = check.pc
  BY <1>1 DEF SignedInv, ListRight, IsCheck, CheckFields
<1>5. CASE check.pc = "key"
  <2>1. boot \notin Stages
    BY <1>1, <1>5, Getting DEF Stages
  <2>. QED
    BY <1>1, <1>2, <1>4, <1>5, <2>1, BuiltFrame DEF client
<1>6. CASE check.pc # "key"
  <2>1. PICK st : st = chan.name
    OBVIOUS
  <2>2. st \in Stages /\ boot = st /\ GotFor(st)
    BY <1>1, <1>6, <2>1, Getting
  <2>3. Conf' = Conf /\ Conf[st] # None
    BY <1>1, <2>2, ConfStays DEF GotFor, client
  <2>4. GotFor(st)'
    BY <1>2, <1>3, <2>3 DEF GotFor
  <2>5. GotFor(boot)'
    BY <1>1, <2>2, <2>4 DEF GotFor, IsGot, Content, client
  <2>6. FilesRight' /\ GettingRight'
    BY <1>1, <2>2, <2>5, FilesStay DEF BuiltInv, GettingRight, client
  <2>7. check'.cred # None => RightCredential'
    BY <1>1, <1>4, CredentialStays DEF BuiltInv, client
  <2>. QED
    BY <1>1, <1>2, <2>6, <2>7, BuiltStep DEF client
<1>. QED
  BY <1>5, <1>6

-----------------------------------------------------------------------------
(* What configurations say together.                                        *)

\* Nothing, and one configuration, say what they say.
LEMMA UnionNone == UnionOf(EmptyConfig, {})
<1>1. EmptyConfig.default = None /\ DOMAIN EmptyConfig.docker = {}
  BY DEF EmptyConfig
<1>. QED
  BY <1>1 DEF UnionOf

LEMMA UnionOne == \A f : UnionOf(f, {f})
<1>. SUFFICES ASSUME NEW f PROVE UnionOf(f, {f})
  OBVIOUS
<1>1. UNION {DOMAIN a.docker : a \in {f}} = DOMAIN f.docker
  OBVIOUS
<1>. QED
  BY <1>1 DEF UnionOf

\* Two unions that do not contradict each other are merged to a union.
LEMMA UnionJoin ==
    ASSUME NEW a, NEW b, NEW A, NEW B, UnionOf(a, A), UnionOf(b, B), ~Conflict(a, b)
    PROVE  UnionOf(Union(a, b), A \cup B)
<1>1. PICK u : u = Union(a, b)
  OBVIOUS
<1>2. PICK da, db : da = a.default /\ db = b.default
  OBVIOUS
<1>3. u.default = IF db # None THEN db ELSE da
  BY <1>1, <1>2 DEF Union
<1>4. /\ da = None <=> \A x \in A : x.default = None
      /\ db = None <=> \A x \in B : x.default = None
      /\ \A x \in A : x.default \in {None, da}
      /\ \A x \in B : x.default \in {None, db}
  BY <1>2 DEF UnionOf
<1>5. da # None /\ db # None => da = db
  BY <1>2 DEF Conflict
<1>6. u.default = None <=> \A x \in A \cup B : x.default = None
  BY <1>3, <1>4
<1>7. \A x \in A \cup B : x.default \in {None, u.default}
  BY <1>3, <1>4, <1>5
<1>8. PICK ma, mb, mu : ma = a.docker /\ mb = b.docker /\ mu = u.docker
  OBVIOUS
<1>9. mu = [ns \in DOMAIN ma \cup DOMAIN mb |-> IF ns \in DOMAIN ma THEN ma[ns] ELSE mb[ns]]
  BY <1>1, <1>8 DEF Union
<1>10. /\ DOMAIN ma = UNION {DOMAIN x.docker : x \in A}
       /\ DOMAIN mb = UNION {DOMAIN x.docker : x \in B}
       /\ \A x \in A : \A ns \in DOMAIN x.docker : ma[ns] = x.docker[ns]
       /\ \A x \in B : \A ns \in DOMAIN x.docker : mb[ns] = x.docker[ns]
  BY <1>8 DEF UnionOf
<1>11. \A ns \in DOMAIN ma \cap DOMAIN mb : ma[ns] = mb[ns]
  BY <1>8 DEF Conflict
<1>12. DOMAIN mu = UNION {DOMAIN x.docker : x \in A \cup B}
  <2>1. DOMAIN mu = DOMAIN ma \cup DOMAIN mb
    BY <1>9
  <2>. QED
    BY <1>10, <2>1
<1>13. ASSUME NEW x \in A, NEW ns \in DOMAIN x.docker PROVE mu[ns] = x.docker[ns]
  <2>1. ns \in DOMAIN ma
    BY <1>10
  <2>. QED
    BY <1>9, <1>10, <2>1
<1>14. ASSUME NEW x \in B, NEW ns \in DOMAIN x.docker PROVE mu[ns] = x.docker[ns]
  <2>1. ns \in DOMAIN mb
    BY <1>10
  <2>. QED
    BY <1>9, <1>10, <1>11, <2>1
<1>15. UnionOf(u, A \cup B)
  BY <1>6, <1>7, <1>8, <1>12, <1>13, <1>14 DEF UnionOf
<1>. QED
  BY <1>1, <1>15

\* If they do, two of the configurations contradict each other.
LEMMA UnionConflict ==
    ASSUME NEW a, NEW b, NEW A, NEW B, UnionOf(a, A), UnionOf(b, B), Conflict(a, b)
    PROVE  \E x \in A, y \in B : Conflict(x, y)
<1>1. CASE a.default # None /\ b.default # None /\ a.default # b.default
  <2>1. PICK x \in A : x.default # None /\ x.default = a.default
    BY <1>1 DEF UnionOf
  <2>2. PICK y \in B : y.default # None /\ y.default = b.default
    BY <1>1 DEF UnionOf
  <2>3. Conflict(x, y)
    BY <1>1, <2>1, <2>2 DEF Conflict
  <2>. QED
    BY <2>3
<1>2. CASE \E ns \in DOMAIN a.docker \cap DOMAIN b.docker : a.docker[ns] # b.docker[ns]
  <2>1. PICK ns : ns \in DOMAIN a.docker /\ ns \in DOMAIN b.docker /\ a.docker[ns] # b.docker[ns]
    BY <1>2
  <2>2. PICK x \in A : ns \in DOMAIN x.docker /\ a.docker[ns] = x.docker[ns]
    BY <2>1 DEF UnionOf
  <2>3. PICK y \in B : ns \in DOMAIN y.docker /\ b.docker[ns] = y.docker[ns]
    BY <2>1 DEF UnionOf
  <2>4. Conflict(x, y)
    BY <2>1, <2>2, <2>3 DEF Conflict
  <2>. QED
    BY <2>4
<1>. QED
  BY <1>1, <1>2 DEF Conflict

\* Configurations that have a union agree.
LEMMA UnionAgrees ==
    ASSUME NEW c, NEW A, UnionOf(c, A), NEW x \in A, NEW y \in A
    PROVE  ~Conflict(x, y)
BY DEF UnionOf, Conflict

-----------------------------------------------------------------------------
(* The steps of the builder.                                                *)

\* A step of the builder ends with nothing being got.
LEMMA Moved ==
    ASSUME BuiltInv, UNCHANGED <<setup, check, local, fails>>, chan'.pc = "idle",
           boot' \in Boots, boot' \notin {"config", "failed"} => Conf # None,
           StagesRight', MergedRight',
           boot' = "failed" => inline' = inline /\ (Unbuildable \/ fails > 0)
    PROVE  BuiltInv'
<1>1. Conf' = Conf /\ (inline' = inline => Unbuildable' = Unbuildable)
  BY ConfStays, UnbuildableStays
<1>2. FilesRight' /\ GettingRight'
  BY FilesStay DEF BuiltInv, GettingRight
<1>3. check'.cred # None => RightCredential'
  BY CredentialStays DEF BuiltInv
<1>. QED
  BY <1>1, <1>2, <1>3 DEF BuiltInv

\* A client that is not built.
LEMMA MovedToFailed ==
    ASSUME BuiltInv, UNCHANGED <<setup, inline, check, local, fails>>, chan'.pc = "idle",
           boot' = "failed", Unbuildable \/ fails > 0
    PROVE  BuiltInv'
<1>1. StagesRight' /\ MergedRight'
  BY DEF StagesRight, MergedRight, Stages
<1>. QED
  BY <1>1, Moved DEF Boots

LEMMA LoadConfigBuilt == SignedInv /\ BuiltInv /\ LoadConfig => BuiltInv'
<1>. SUFFICES ASSUME SignedInv, BuiltInv, LoadConfig PROVE BuiltInv'
  OBVIOUS
<1>1. /\ boot = "config" /\ boot' = IF Conf = None THEN "failed" ELSE "auth"
      /\ UNCHANGED <<setup, inline, config, todo, chan, check, local, fails>>
  BY DEF LoadConfig, bounds
<1>2. chan'.pc = "idle"
  BY <1>1 DEF SignedInv, BuildRight
<1>3. CASE Conf = None
  BY <1>1, <1>2, <1>3, MovedToFailed DEF Unbuildable
<1>4. CASE Conf # None
  <2>1. boot' = "auth" /\ inline = None /\ config = EmptyConfig /\ todo = setup.files
    BY <1>1, <1>4 DEF BuiltInv, StagesRight, MergedRight
  <2>2. StagesRight' /\ MergedRight'
    BY <1>1, <2>1 DEF StagesRight, MergedRight, EmptyConfig
  <2>. QED
    BY <1>1, <1>2, <1>4, <2>1, <2>2, Moved DEF Boots, Stages
<1>. QED
  BY <1>3, <1>4

LEMMA AskResourceBuilt == SignedInv /\ BuiltInv /\ AskResource => BuiltInv'
<1>. SUFFICES ASSUME SignedInv, BuiltInv, AskResource PROVE BuiltInv'
  OBVIOUS
<1>1. /\ boot \in Stages /\ chan.pc = "idle"
      /\ UNCHANGED <<setup, inline, config, todo, check, local, fails>>
  BY DEF AskResource, bounds
<1>2. Conf # None /\ config = EmptyConfig /\ todo = setup.files /\ Conf' = Conf
  BY <1>1, ConfStays DEF BuiltInv, MergedRight, Stages
<1>3. CASE Conf[boot] = None
  <2>1. boot' = After(boot) /\ chan' = chan
    BY <1>3 DEF AskResource
  <2>2. \/ boot = "auth" /\ boot' = "sigstore"
        \/ boot = "sigstore" /\ boot' = "policy"
        \/ boot = "policy" /\ boot' = "ready"
    BY <1>1, <2>1 DEF After, Stages
  <2>3. BadResource("auth")' = BadResource("auth") /\ IsGot("sigstore", inline)' = IsGot("sigstore", inline)
    BY <1>1, BadStays, ContentStays DEF Stages, IsGot
  <2>4. StagesRight'
    BY <1>1, <1>2, <1>3, <2>2, <2>3 DEF StagesRight, BuiltInv
  <2>5. MergedRight'
    BY <1>1, <1>2, <1>3, <2>2 DEF MergedRight, Signing, Stages
  <2>. QED
    BY <1>1, <1>2, <2>1, <2>2, <2>4, <2>5, Moved DEF Boots, Stages
<1>4. CASE Conf[boot] # None
  <2>1. PICK st, uri : st = boot /\ uri = Conf[boot]
    OBVIOUS
  <2>2. GetResource(st, uri) /\ boot' = boot /\ st \in Stages /\ st # "key"
    BY <1>1, <1>4, <2>1 DEF AskResource, Stages
  <2>3. local[st] \in {None, Torn, Content(st)} /\ (local[st] # None => uri = "kbs")
    BY <2>1, <2>2 DEF BuiltInv, FilesRight
  <2>4. chan'.name = st /\ GotFor(st)'
    <3>1. Content(st)' = Content(st) /\ None # Torn /\ uri # None /\ Conf'[st] = uri
      BY <1>1, <1>2, <1>4, <2>1, <2>2, ContentStays, Constants
    <3>2. CASE uri = "kbs"
      <4>1. Scheme(uri) = "kbs"
        BY <3>2 DEF Scheme
      <4>2. chan' = [Idle EXCEPT !.pc = "checkLocal", !.name = st]
        BY <2>2, <4>1 DEF GetResource
      <4>3. chan'.pc = "checkLocal" /\ chan'.name = st
        BY <4>2 DEF Idle
      <4>. QED
        BY <3>1, <3>2, <4>3 DEF GotFor
    <3>3. CASE uri \in {"none", "file"}
      <4>1. Scheme(uri) = "file"
        BY <3>3 DEF Scheme
      <4>2. PICK c : c = Content(st)
        OBVIOUS
      <4>3. chan' = [pc |-> "done", name |-> st, data |-> c]
        BY <2>2, <4>1, <4>2 DEF GetResource
      <4>4. chan'.pc = "done" /\ chan'.name = st /\ chan'.data = c
        BY <4>3
      <4>5. local'[st] = None
        BY <1>1, <2>3, <3>3
      <4>6. IsGot(st, chan.data)'
        BY <3>1, <4>2, <4>4, <4>5 DEF IsGot
      <4>. QED
        BY <3>1, <3>3, <4>4, <4>6 DEF GotFor, Schemes
    <3>4. CASE uri \notin Schemes
      <4>1. Scheme(uri) \notin {"kbs", "file"}
        BY <3>4 DEF Scheme, Schemes
      <4>2. chan' = [Idle EXCEPT !.pc = "failed", !.name = st]
        BY <2>2, <4>1 DEF GetResource
      <4>3. chan'.pc = "failed" /\ chan'.name = st
        BY <4>2 DEF Idle
      <4>. QED
        BY <3>1, <3>4, <4>3 DEF GotFor
    <3>. QED
      BY <3>2, <3>3, <3>4 DEF Schemes
  <2>5. FilesRight'
    BY <1>1, FilesStay DEF BuiltInv
  <2>6. fails \in Nat /\ fails >= fails
    BY DEF BuiltInv
  <2>. QED
    BY <1>1, <2>1, <2>2, <2>4, <2>5, <2>6, ResourceStep DEF client
<1>. QED
  BY <1>3, <1>4

LEMMA BuildFailsBuilt == SignedInv /\ BuiltInv /\ BuildFails => BuiltInv'
<1>. SUFFICES ASSUME SignedInv, BuiltInv, BuildFails PROVE BuiltInv'
  OBVIOUS
<1>1. /\ boot \in Stages /\ chan.pc = "failed" /\ boot' = "failed" /\ chan' = Idle
      /\ UNCHANGED <<setup, inline, check, local, fails>>
  BY DEF BuildFails, bounds
<1>2. PICK st : st = boot
  OBVIOUS
<1>3. st \in Stages /\ GotFor(st)
  BY <1>1, <1>2 DEF BuiltInv, GettingRight
<1>4. Conf[st] # None /\ (Conf[st] \notin Schemes \/ fails > 0)
  BY <1>1, <1>3 DEF GotFor
<1>5. Unbuildable \/ fails > 0
  BY <1>3, <1>4 DEF Unbuildable, Named, BadResource, Schemes
<1>6. chan'.pc = "idle"
  BY <1>1 DEF Idle
<1>. QED
  BY <1>1, <1>5, <1>6, MovedToFailed

LEMMA TakeResourceBuilt == SignedInv /\ BuiltInv /\ TakeResource => BuiltInv'
<1>. SUFFICES ASSUME SignedInv, BuiltInv, TakeResource PROVE BuiltInv'
  OBVIOUS
<1>1. /\ boot \in Stages /\ chan.pc = "done" /\ chan' = Idle
      /\ UNCHANGED <<setup, config, todo, check, local, fails>>
  BY DEF TakeResource, bounds
<1>2. Conf # None /\ config = EmptyConfig /\ todo = setup.files /\ Conf' = Conf /\ chan'.pc = "idle"
  BY <1>1, ConfStays DEF BuiltInv, MergedRight, Stages, Idle
<1>3. PICK st, data : st = boot /\ data = chan.data
  OBVIOUS
<1>4. st \in Stages /\ Conf[st] # None /\ Conf[st] \in Schemes /\ IsGot(st, data)
  BY <1>1, <1>3 DEF BuiltInv, GettingRight, GotFor
<1>5. setup \in Setups
  BY DEF SignedInv, BuildRight
<1>6. Torn # Content(st) /\ None # Unreadable /\ None # Torn
  BY <1>4, <1>5, ContentIs, ContentAssumption, Constants DEF Stages
\* What does not parse is bad.
<1>7. Parses(data) <=> ~(Content(st) = Unreadable \/ local[st] = Torn)
  BY <1>4, <1>6 DEF Parses, IsGot
<1>8. BadResource("auth")' = BadResource("auth") /\ BadResource("policy")' = BadResource("policy")
  BY <1>1, BadStays DEF Stages
<1>9. CASE st = "auth"
  <2>1. inline' = inline /\ boot' = IF Parses(data) THEN "sigstore" ELSE "failed"
    BY <1>3, <1>9 DEF TakeResource
  <2>2. Parses(data) <=> ~BadResource("auth")
    BY <1>4, <1>7, <1>9 DEF BadResource, Schemes
  <2>3. CASE Parses(data)
    <3>1. inline = None
      BY <1>3, <1>9 DEF BuiltInv, StagesRight
    <3>2. StagesRight' /\ MergedRight'
      BY <1>1, <1>2, <1>8, <2>1, <2>2, <2>3, <3>1 DEF StagesRight, MergedRight, Stages
    <3>. QED
      BY <1>1, <1>2, <2>1, <2>3, <3>2, Moved DEF Boots, Stages
  <2>4. CASE ~Parses(data)
    <3>1. Unbuildable
      BY <1>4, <1>9, <2>2, <2>4 DEF Unbuildable, Named
    <3>. QED
      BY <1>1, <1>2, <2>1, <2>4, <3>1, MovedToFailed
  <2>. QED
    BY <2>3, <2>4
<1>10. CASE st = "sigstore"
  <2>1. inline' = data /\ boot' = "policy"
    BY <1>3, <1>10 DEF TakeResource
  <2>2. IsGot("sigstore", inline)'
    <3>1. Content("sigstore")' = Content("sigstore")
      BY <1>1, ContentIs, ContentStays DEF Stages
    <3>. QED
      BY <1>1, <1>4, <1>10, <2>1, <3>1 DEF IsGot
  <2>3. Conf.auth = None \/ ~BadResource("auth")
    BY <1>3, <1>10 DEF BuiltInv, StagesRight
  <2>4. StagesRight' /\ MergedRight'
    BY <1>1, <1>2, <1>4, <1>8, <1>10, <2>1, <2>2, <2>3 DEF StagesRight, MergedRight, Stages
  <2>. QED
    BY <1>1, <1>2, <2>1, <2>4, Moved DEF Boots, Stages
<1>11. CASE st = "policy"
  <2>1. inline' = inline
    BY <1>3, <1>11 DEF TakeResource
  <2>2. boot' = IF ~Parses(data) \/ ~ParsesAsYaml(inline) THEN "failed"
                ELSE IF inline = None THEN "ready" ELSE "files"
    BY <1>3, <1>11 DEF TakeResource
  <2>3. /\ Conf.auth = None \/ ~BadResource("auth")
        /\ IF Conf.sigstore = None THEN inline = None
           ELSE Conf.sigstore \in Schemes /\ IsGot("sigstore", inline)
    BY <1>3, <1>11 DEF BuiltInv, StagesRight
  <2>4. Parses(data) <=> ~BadResource("policy")
    BY <1>4, <1>7, <1>11 DEF BadResource, Schemes
  <2>5. Conf.policy # None
    BY <1>4, <1>11
  <2>6. ASSUME ~ParsesAsYaml(inline) PROVE Unbuildable
    <3>1. inline = Unreadable /\ inline # None /\ inline # Torn
      BY <1>5, <1>6, <2>6, Constants, ContentAssumption DEF ParsesAsYaml
    <3>2. Conf.sigstore # None /\ IsGot("sigstore", inline)
      BY <2>3, <3>1
    <3>3. Content("sigstore") = Unreadable
      BY <3>1, <3>2 DEF IsGot
    <3>4. BadResource("sigstore")
      BY <2>5, <3>1, <3>2, <3>3 DEF BadResource, Signing
    <3>. QED
      BY <3>2, <3>4 DEF Unbuildable, Named, Stages
  <2>7. CASE ~Parses(data) \/ ~ParsesAsYaml(inline)
    <3>1. ~Parses(data) => Unbuildable
      BY <1>4, <1>11, <2>4 DEF Unbuildable, Named
    <3>. QED
      BY <1>1, <1>2, <2>1, <2>2, <2>6, <2>7, <3>1, MovedToFailed
  <2>8. CASE Parses(data) /\ ParsesAsYaml(inline)
    <3>1. Conf.sigstore # None => inline # None
      <4>1. Conf.sigstore # None => Content("sigstore") # None
        BY <1>2, <1>5, ContentIs, ContentAssumption DEF Conf
      <4>. QED
        BY <1>6, <2>3, <4>1 DEF IsGot
    <3>2. boot' = IF inline = None THEN "ready" ELSE "files"
      BY <2>2, <2>8
    <3>3. boot' = "files" => Signing
      BY <2>3, <2>5, <3>2 DEF Signing
    <3>4. boot' = "ready" => ~Signing
      BY <3>1, <3>2 DEF Signing
    <3>5. Signing' = Signing /\ ParsesAsYaml(inline)' /\ IsGot("sigstore", inline)' = IsGot("sigstore", inline)
      <4>1. Content("sigstore")' = Content("sigstore")
        BY <1>1, ContentStays DEF Stages
      <4>. QED
        BY <1>1, <1>2, <2>1, <2>8, <4>1 DEF Signing, ParsesAsYaml, IsGot
    <3>6. StagesRight'
      BY <1>2, <1>8, <2>1, <2>3, <2>4, <2>8, <3>2, <3>3, <3>5 DEF StagesRight
    <3>7. MergedRight'
      <4>1. boot' = "files" => UnionOf(config, setup.files \ todo)' /\ todo' \subseteq setup'.files
        <5>1. setup.files \ todo = {}
          BY <1>2
        <5>. QED
          BY <1>1, <1>2, <5>1, UnionNone
      <4>2. boot' \in {"ready", "files"}
        BY <3>2
      <4>. QED
        BY <3>4, <3>5, <4>1, <4>2 DEF MergedRight, Stages
    <3>. QED
      BY <1>1, <1>2, <3>2, <3>6, <3>7, Moved DEF Boots
  <2>. QED
    BY <2>7, <2>8
<1>. QED
  BY <1>4, <1>9, <1>10, <1>11 DEF Stages

\* Merging.
LEMMA MergeFileBuilt ==
    ASSUME SignedInv, BuiltInv, NEW f \in todo, MergeFile(f)
    PROVE  BuiltInv'
<1>1. /\ boot = "files" /\ todo' = todo \ {f} /\ UpdateSelf(config, f, "files")
      /\ UNCHANGED <<setup, inline, chan, check, local, fails>>
  BY DEF MergeFile, bounds
<1>2. Signing /\ todo \subseteq setup.files /\ UnionOf(config, setup.files \ todo) /\ Conf # None
  BY <1>1 DEF BuiltInv, StagesRight, MergedRight
<1>3. chan'.pc = "idle"
  BY <1>1 DEF BuiltInv, GettingRight, SignedInv, BuildRight, Stages
<1>4. UnionOf(f, {f})
  BY UnionOne
<1>5. CASE Conflict(config, f)
  <2>1. PICK x \in setup.files \ todo, y \in {f} : Conflict(x, y)
    BY <1>2, <1>4, <1>5, UnionConflict
  <2>2. ~Agree
    BY <1>2, <2>1 DEF Agree, AllConfigs
  <2>. QED
    BY <1>1, <1>2, <1>3, <1>5, <2>2, MovedToFailed DEF UpdateSelf, Unbuildable
<1>6. CASE ~Conflict(config, f)
  <2>1. config' = Union(config, f) /\ boot' = "files"
    BY <1>1, <1>6 DEF UpdateSelf
  <2>2. PICK done : done = setup.files \ todo
    OBVIOUS
  <2>3. UnionOf(Union(config, f), done \cup {f})
    BY <1>2, <1>4, <1>6, <2>2, UnionJoin
  <2>4. setup.files \ todo' = done \cup {f}
    BY <1>1, <1>2, <2>2
  <2>5. UnionOf(config', setup.files \ todo')
    BY <2>1, <2>3, <2>4
  <2>6. MergedRight'
    BY <1>1, <1>2, <2>1, <2>5 DEF MergedRight, Stages
  <2>7. StagesRight'
    <3>1. Conf' = Conf /\ Signing' = Signing
      BY <1>1, ConfStays DEF Signing
    <3>2. /\ BadResource("auth")' = BadResource("auth") /\ BadResource("policy")' = BadResource("policy")
          /\ IsGot("sigstore", inline)' = IsGot("sigstore", inline) /\ ParsesAsYaml(inline)' = ParsesAsYaml(inline)
      BY <1>1, BadStays, ContentStays DEF Stages, IsGot, ParsesAsYaml
    <3>. QED
      BY <1>1, <2>1, <3>1, <3>2 DEF StagesRight, BuiltInv
  <2>. QED
    BY <1>1, <1>2, <1>3, <2>1, <2>6, <2>7, Moved DEF Boots
<1>. QED
  BY <1>5, <1>6

LEMMA MergeInlineBuilt == SignedInv /\ BuiltInv /\ MergeInline => BuiltInv'
<1>. SUFFICES ASSUME SignedInv, BuiltInv, MergeInline PROVE BuiltInv'
  OBVIOUS
<1>1. /\ boot = "files" /\ todo = {} /\ UpdateSelf(SigstoreOf(inline), config, "ready")
      /\ UNCHANGED <<setup, inline, todo, chan, check, local, fails>>
  BY DEF MergeInline, bounds
<1>2. Signing /\ UnionOf(config, setup.files \ todo) /\ Conf # None
  BY <1>1 DEF BuiltInv, StagesRight, MergedRight
<1>3. chan'.pc = "idle"
  BY <1>1 DEF BuiltInv, GettingRight, SignedInv, BuildRight, Stages
\* Of a torn copy nothing is left.
<1>4. PICK own, from : /\ own = SigstoreOf(inline)
                       /\ from = IF inline = Torn THEN {} ELSE {setup.sigstore}
  OBVIOUS
<1>5. UnionOf(own, from)
  <2>1. CASE inline = Torn
    BY <1>4, <2>1, UnionNone DEF SigstoreOf
  <2>2. CASE inline # Torn
    <3>1. inline = setup.sigstore
      BY <1>1, <1>2, <2>2, ContentIs DEF BuiltInv, StagesRight, Signing, IsGot
    <3>. QED
      BY <1>4, <2>2, <3>1, UnionOne DEF SigstoreOf
  <2>. QED
    BY <2>1, <2>2
<1>6. PICK files : files = setup.files
  OBVIOUS
<1>7. UnionOf(config, files)
  <2>1. setup.files \ todo = files
    BY <1>1, <1>6
  <2>. QED
    BY <1>2, <2>1
<1>8. CASE Conflict(own, config)
  <2>1. PICK x \in from, y \in files : Conflict(x, y)
    BY <1>5, <1>7, <1>8, UnionConflict
  <2>2. ~Agree
    BY <1>4, <1>6, <2>1 DEF Agree, AllConfigs
  <2>. QED
    BY <1>1, <1>2, <1>3, <1>4, <1>8, <2>2, MovedToFailed DEF UpdateSelf, Unbuildable
<1>9. CASE ~Conflict(own, config)
  <2>1. config' = Union(own, config) /\ boot' = "ready"
    BY <1>1, <1>4, <1>9 DEF UpdateSelf
  <2>2. UnionOf(Union(own, config), from \cup files)
    BY <1>5, <1>7, <1>9, UnionJoin
  <2>3. AllConfigs' = from \cup files
    BY <1>1, <1>4, <1>6 DEF AllConfigs
  <2>4. MergedRight'
    BY <2>1, <2>2, <2>3 DEF MergedRight, Stages
  <2>5. StagesRight'
    <3>1. Conf' = Conf /\ Signing' = Signing
      BY <1>1, ConfStays DEF Signing
    <3>2. /\ BadResource("auth")' = BadResource("auth") /\ BadResource("policy")' = BadResource("policy")
          /\ IsGot("sigstore", inline)' = IsGot("sigstore", inline) /\ ParsesAsYaml(inline)' = ParsesAsYaml(inline)
      BY <1>1, BadStays, ContentStays DEF Stages, IsGot, ParsesAsYaml
    <3>. QED
      BY <1>1, <2>1, <3>1, <3>2 DEF StagesRight, BuiltInv
  <2>. QED
    BY <1>1, <1>2, <1>3, <2>1, <2>4, <2>5, Moved DEF Boots
<1>. QED
  BY <1>8, <1>9

-----------------------------------------------------------------------------
(* The steps of a pull.                                                     *)

\* RightCredential, of any pull.
CredentialFor(auths, ref, input, cred) ==
    LET paths == {k \in DOMAIN auths : IsPath(k, ref.name)}
        hosts == {k \in DOMAIN auths : NormalizeKey(k) = NormalizeRegistry(ResolveRegistry(ref))}
    IN CASE input # None -> cred = input
         [] input = None /\ auths = None -> cred = Anonymous
         [] input = None /\ auths # None ->
              IF paths # {} THEN \E k \in paths : cred = auths[k] /\ \A l \in paths : Len(l) <= Len(k)
              ELSE IF hosts # {} THEN cred \in {auths[k] : k \in hosts}
              ELSE cred = Anonymous

\* credential_for_reference: the credential of a pull is the caller's, the one
\* of the longest path the image is under, one of its registry, or none.
THEOREM CredentialFound ==
    ASSUME NEW ref, IsName(ref.name), NEW input, NEW auths, auths # None => HasScopes(auths),
           NEW cred, cred \in AuthFor(ref, input, auths), cred # None
    PROVE  CredentialFor(auths, ref, input, cred)
<1>1. CASE input # None
  <2>1. cred = Decoded(input)
    BY <1>1 DEF AuthFor
  <2>. QED
    BY <1>1, <2>1 DEF CredentialFor, Decoded
<1>2. CASE input = None /\ auths = None
  BY <1>2 DEF CredentialFor, AuthFor
<1>3. CASE input = None /\ auths # None
  <2>1. PICK paths, hosts, key :
           /\ paths = {k \in DOMAIN auths : IsPath(k, ref.name)}
           /\ hosts = {k \in DOMAIN auths : NormalizeKey(k) = NormalizeRegistry(ResolveRegistry(ref))}
           /\ key = FirstIn(AuthKeys(ref), auths)
    OBVIOUS
  <2>2. IF paths = {} THEN key = None
        ELSE key # None /\ key \in paths /\ \A k \in paths : Len(k) <= Len(key)
    BY <1>3, <2>1, PathFound
  <2>3. cred \in IF key # None THEN {Decoded(auths[key])}
                 ELSE IF hosts # {} THEN {Decoded(auths[k]) : k \in hosts} ELSE {Anonymous}
    BY <1>3, <2>1 DEF AuthFor, Credentials
  <2>4. IF paths # {} THEN \E k \in paths : cred = auths[k] /\ \A l \in paths : Len(l) <= Len(k)
        ELSE IF hosts # {} THEN cred \in {auths[k] : k \in hosts}
        ELSE cred = Anonymous
    <3>1. \A x : Decoded(x) # None => Decoded(x) = x
      BY DEF Decoded
    <3>2. CASE paths # {}
      <4>1. cred = auths[key]
        BY <2>2, <2>3, <3>1, <3>2
      <4>. QED
        BY <2>2, <3>2, <4>1
    <3>3. CASE paths = {}
      BY <2>2, <2>3, <3>1, <3>3
    <3>. QED
      BY <3>2, <3>3
  <2>. QED
    BY <1>3, <2>1, <2>4 DEF CredentialFor
<1>. QED
  BY <1>1, <1>2, <1>3

\* What a pull begins with.
LEMMA Begun ==
    ASSUME SignedInv, NEW ref, NEW input, Start(ref, input)
    PROVE  \E cred \in AuthFor(ref, input, RegistryAuth) :
              /\ check'.ref = ref /\ check'.input = input /\ check'.cred = cred
              /\ check'.clean = (local["key"] \in {None, kbsKey})
              /\ IF cred = None \/ Conf.badCert THEN check'.pc = "idle" /\ check'.out = "error"
                 ELSE /\ check'.digest = Digest(ref)
                      /\ check'.pc = IF Conf.policy = None THEN "idle" ELSE "select"
                      /\ check'.out = IF Conf.policy = None THEN "accept" ELSE None
<1>1. PICK clean : clean = (local["key"] \in {None, kbsKey})
  OBVIOUS
<1>2. PICK cred \in AuthFor(ref, input, RegistryAuth) :
        LET begun == [NoCheck EXCEPT !.ref = ref, !.input = input, !.cred = cred, !.clean = clean]
        IN check' =
             IF cred = None \/ Conf.badCert THEN [begun EXCEPT !.out = "error"]
             ELSE [begun EXCEPT
                     !.digest = IF ref.digest # None THEN ref.digest ELSE tagged,
                     !.pc = IF Conf.policy = None THEN "idle" ELSE "select",
                     !.out = IF Conf.policy = None THEN "accept" ELSE None]
  BY <1>1 DEF Start
<1>3. PICK begun : begun = [NoCheck EXCEPT !.ref = ref, !.input = input, !.cred = cred, !.clean = clean]
  OBVIOUS
<1>4. /\ IsCheck(begun) /\ begun.ref = ref /\ begun.input = input /\ begun.cred = cred
      /\ begun.clean = clean /\ begun.pc = "idle"
  BY <1>3 DEF NoCheck, IsCheck, CheckFields
<1>5. CASE cred = None \/ Conf.badCert
  <2>1. check' = [begun EXCEPT !.out = "error"]
    BY <1>2, <1>3, <1>5
  <2>2. /\ check'.ref = ref /\ check'.input = input /\ check'.cred = cred /\ check'.clean = clean
        /\ check'.pc = "idle" /\ check'.out = "error"
    BY <1>4, <2>1 DEF IsCheck, CheckFields
  <2>. QED
    BY <1>1, <1>5, <2>2
<1>6. CASE ~(cred = None \/ Conf.badCert)
  <2>1. PICK d, p, o : /\ d = Digest(ref) /\ p = IF Conf.policy = None THEN "idle" ELSE "select"
                       /\ o = IF Conf.policy = None THEN "accept" ELSE None
    OBVIOUS
  <2>2. check' = [begun EXCEPT !.digest = d, !.pc = p, !.out = o]
    BY <1>2, <1>3, <1>6, <2>1 DEF Digest
  <2>3. /\ check'.ref = ref /\ check'.input = input /\ check'.cred = cred /\ check'.clean = clean
        /\ check'.digest = d /\ check'.pc = p /\ check'.out = o
    BY <1>4, <2>2 DEF IsCheck, CheckFields
  <2>. QED
    BY <1>1, <1>6, <2>1, <2>3
<1>. QED
  BY <1>5, <1>6

\* A pull takes its credential.
LEMMA StartBuilt ==
    ASSUME SignedInv, BuiltInv, NEW ref \in Images, NEW input, Start(ref, input)
    PROVE  BuiltInv'
<1>1. boot = "ready" /\ check.pc = "idle" /\ UNCHANGED <<client, chan, local, fails>>
  BY DEF Start, At
<1>2. PICK auths : auths = RegistryAuth
  OBVIOUS
<1>3. PICK cred \in AuthFor(ref, input, auths) :
        check'.ref = ref /\ check'.input = input /\ check'.cred = cred
  BY <1>2, Begun
<1>4. auths # None => HasScopes(auths)
  <2>1. setup \in Setups
    BY DEF SignedInv, BuildRight
  <2>2. Conf.auth # None => setup.auths # Unreadable
    BY <1>1, ContentIs DEF BuiltInv, StagesRight, BadResource
  <2>. QED
    BY <1>2, <2>1, <2>2, ContentAssumption DEF RegistryAuth
<1>5. cred # None => CredentialFor(auths, ref, input, cred)
  <2>1. IsName(ref.name)
    BY ContentAssumption
  <2>. QED
    BY <1>3, <1>4, <2>1, CredentialFound
<1>6. RegistryAuth' = auths
  BY <1>1, <1>2, ConfStays DEF RegistryAuth, client
<1>7. check'.cred # None => RightCredential'
  BY <1>3, <1>5, <1>6 DEF RightCredential, CredentialFor
<1>8. FilesRight'
  BY <1>1, FilesStay DEF BuiltInv, client
<1>9. GettingRight'
  BY <1>1 DEF BuiltInv, GettingRight, client, Stages
<1>10. fails \in Nat /\ fails >= fails
  BY DEF BuiltInv
<1>. QED
  BY <1>1, <1>7, <1>8, <1>9, <1>10, BuiltStep DEF client

\* A step within a check.
LEMMA CheckStep ==
    ASSUME SignedInv, BuiltInv, UNCHANGED <<client, local>>, fails' \in Nat, fails' >= fails,
           check'.cred = check.cred, check'.ref = check.ref, check'.input = check.input,
           boot \in Stages => chan' = chan,
           \/ chan' = chan /\ (check.pc = "key" => check'.pc = "key")
           \/ chan' = Idle \/ check'.pc = "key"
    PROVE  BuiltInv'
<1>1. chan'.pc # "idle" => boot \in Stages \/ check'.pc = "key"
  BY DEF BuiltInv, GettingRight, Idle
<1>. QED
  BY <1>1, BuiltFrame DEF client

\* What the steps of a check do not touch.
SamePull == check'.cred = check.cred /\ check'.ref = check.ref /\ check'.input = check.input
\* An end keeps them, as does a requirement that is met.
LEMMA EndKeeps ==
    ASSUME IsCheck(check), NEW out, End(out)
    PROVE  SamePull
BY DEF End, IsCheck, CheckFields, SamePull
LEMMA AllowedKeeps ==
    ASSUME IsCheck(check), Allowed
    PROVE  SamePull
<1>1. CASE check.i < Len(check.reqs)
  <2>1. PICK i : i = check.i + 1
    OBVIOUS
  <2>2. check' = [check EXCEPT !.pc = "req", !.i = i, !.key = None]
    BY <1>1, <2>1 DEF Allowed
  <2>. QED
    BY <2>2 DEF IsCheck, CheckFields, SamePull
<1>2. CASE ~(check.i < Len(check.reqs))
  BY <1>2, EndKeeps DEF Allowed
<1>. QED
  BY <1>1, <1>2

\* What is done with a requirement.
LEMMA RequirementCases ==
    ASSUME SignedInv, Requirement
    PROVE  \/ Req.type = "accept" /\ Allowed /\ chan' = chan
           \/ Req.type = "reject" /\ End("reject") /\ chan' = chan
           \/ /\ Req.type \in {"simple", "cosign"}
              /\ \/ ~WellFormed(Req) /\ End("reject") /\ chan' = chan
                 \/ /\ WellFormed(Req) /\ Req.path # None /\ GetResource("key", Req.path)
                    /\ check' = [check EXCEPT !.pc = "key"]
                 \/ /\ WellFormed(Req) /\ Req.path = None /\ chan' = chan
                    /\ check' = [check EXCEPT !.pc = "signatures", !.key = Req.data]
<1>1. check.pc \in Checking
  BY DEF Requirement, At, Checking
<1>2. Req.type \in RequirementTypes
  BY <1>1, ReqType DEF SignedInv, ListRight, Req
<1>3. CASE Req.type = "accept"
  BY <1>3 DEF Requirement
<1>4. CASE Req.type = "reject"
  BY <1>4 DEF Requirement
<1>5. CASE Req.type \in {"simple", "cosign"}
  <2>1. IF ~WellFormed(Req) THEN End("reject") /\ UNCHANGED chan
        ELSE IF Req.path # None
          THEN GetResource("key", Req.path) /\ check' = [check EXCEPT !.pc = "key"]
          ELSE check' = [check EXCEPT !.pc = "signatures", !.key = Req.data] /\ UNCHANGED chan
    BY <1>5 DEF Requirement
  <2>. QED
    BY <1>5, <2>1
<1>. QED
  BY <1>2, <1>3, <1>4, <1>5 DEF RequirementTypes

\* No step of a check builds.
LEMMA CheckBuilt ==
    ASSUME SignedInv, BuiltInv,
           Select \/ Requirement \/ TakeKey \/ SimpleSigning \/ Triangulate \/ Cosign
    PROVE  BuiltInv'
<1>1. IsCheck(check) /\ fails \in Nat /\ fails >= fails
  BY DEF SignedInv, ListRight, BuiltInv
<1>2. UNCHANGED <<client, local, fails>> /\ check.pc # "idle"
  BY DEF Select, Requirement, TakeKey, SimpleSigning, Triangulate, Cosign, At, bounds
<1>3. boot \notin Stages
  BY <1>2 DEF SignedInv, BuildRight, Stages
<1>4. CASE Select
  <2>1. PICK reqs : reqs = RequirementsForImage(check.ref)
    OBVIOUS
  <2>2. \/ check' = [check EXCEPT !.reqs = reqs, !.pc = "idle", !.out = "reject"]
        \/ check' = [check EXCEPT !.reqs = reqs, !.pc = "req", !.i = 1]
    BY <1>4, <2>1 DEF Select
  <2>3. SamePull
    BY <1>1, <2>2 DEF SamePull, IsCheck, CheckFields
  <2>4. chan' = chan /\ check.pc = "select"
    BY <1>4 DEF Select, At
  <2>. QED
    BY <1>1, <1>2, <1>3, <2>3, <2>4, CheckStep DEF SamePull
<1>5. CASE Requirement
  <2>1. \/ Allowed /\ chan' = chan
        \/ End("reject") /\ chan' = chan
        \/ check' = [check EXCEPT !.pc = "key"]
        \/ check' = [check EXCEPT !.pc = "signatures", !.key = Req.data] /\ chan' = chan
    BY <1>5, RequirementCases
  <2>2. SamePull
    <3>1. PICK key : key = Req.data
      OBVIOUS
    <3>2. check' = [check EXCEPT !.pc = "signatures", !.key = key] => SamePull
      BY <1>1 DEF SamePull, IsCheck, CheckFields
    <3>3. check' = [check EXCEPT !.pc = "key"] => SamePull
      BY <1>1 DEF SamePull, IsCheck, CheckFields
    <3>. QED
      BY <1>1, <2>1, <3>1, <3>2, <3>3, EndKeeps, AllowedKeeps
  <2>3. chan' = chan \/ check'.pc = "key"
    <3>1. check' = [check EXCEPT !.pc = "key"] => check'.pc = "key"
      BY <1>1 DEF IsCheck, CheckFields
    <3>. QED
      BY <2>1, <3>1
  <2>4. check.pc = "req"
    BY <1>5 DEF Requirement, At
  <2>. QED
    BY <1>1, <1>2, <1>3, <2>2, <2>3, <2>4, CheckStep DEF SamePull
<1>6. CASE TakeKey
  <2>1. PICK key : key = chan.data
    OBVIOUS
  <2>2. chan' = Idle /\ (check' = [check EXCEPT !.pc = "signatures", !.key = key] \/ End("reject"))
    BY <1>6, <2>1 DEF TakeKey
  <2>3. check' = [check EXCEPT !.pc = "signatures", !.key = key] => SamePull
    BY <1>1 DEF SamePull, IsCheck, CheckFields
  <2>4. SamePull
    BY <1>1, <2>2, <2>3, EndKeeps
  <2>. QED
    BY <1>1, <1>2, <1>3, <2>2, <2>4, CheckStep DEF SamePull
<1>7. CASE SimpleSigning \/ Cosign
  <2>1. (Allowed \/ End("reject")) /\ chan' = chan /\ check.pc # "key"
    BY <1>7 DEF SimpleSigning, Cosign, At
  <2>2. SamePull
    BY <1>1, <2>1, EndKeeps, AllowedKeeps
  <2>. QED
    BY <1>1, <1>2, <1>3, <2>1, <2>2, CheckStep DEF SamePull
<1>8. CASE Triangulate
  <2>1. PICK d : d = IF check.ref.digest # None THEN check.ref.digest ELSE tagged
    OBVIOUS
  <2>2. check' = [check EXCEPT !.pc = "layers", !.source = d] /\ chan' = chan /\ check.pc # "key"
    BY <1>8, <2>1 DEF Triangulate, At
  <2>3. SamePull
    BY <1>1, <2>2 DEF SamePull, IsCheck, CheckFields
  <2>. QED
    BY <1>1, <1>2, <1>3, <2>2, <2>3, CheckStep DEF SamePull
<1>. QED
  BY <1>4, <1>5, <1>6, <1>7, <1>8

\* The world changes, or a check fails.
LEMMA SurroundingsBuilt ==
    ASSUME SignedInv, BuiltInv, CheckFails \/ TagMoves \/ KeyRotates
    PROVE  BuiltInv'
<1>1. IsCheck(check) /\ fails \in Nat
  BY DEF SignedInv, ListRight, BuiltInv
<1>2. UNCHANGED <<client, chan, local>> /\ (fails' = fails \/ fails' = fails + 1)
  BY DEF CheckFails, TagMoves, KeyRotates, Fail
<1>3. fails' \in Nat /\ fails' >= fails
  BY <1>1, <1>2
<1>4. \/ check' = [check EXCEPT !.pc = "idle", !.out = "reject", !.clean = FALSE] /\ check.pc # "key"
      \/ check' = [check EXCEPT !.clean = FALSE]
  BY DEF CheckFails, TagMoves, KeyRotates
<1>5. SamePull /\ (check.pc = "key" => check'.pc = "key")
  BY <1>1, <1>4 DEF SamePull, IsCheck, CheckFields
<1>. QED
  BY <1>2, <1>3, <1>5, CheckStep DEF SamePull

LEMMA CrashBuilt == SignedInv /\ BuiltInv /\ Crash => BuiltInv'
<1>. SUFFICES ASSUME SignedInv, BuiltInv, Crash PROVE BuiltInv'
  OBVIOUS
<1>1. /\ chan' = Idle /\ check' = NoCheck /\ UNCHANGED <<setup, local, fails>>
      /\ boot' = "config" /\ inline' = None /\ config' = EmptyConfig /\ todo' = setup.files
  BY DEF Crash
<1>2. chan'.pc = "idle" /\ check'.cred = None
  BY <1>1 DEF Idle, NoCheck
<1>3. FilesRight'
  BY <1>1, FilesStay DEF BuiltInv
<1>4. GettingRight' /\ StagesRight' /\ MergedRight'
  BY <1>1, <1>2 DEF GettingRight, StagesRight, MergedRight, Stages
<1>. QED
  BY <1>1, <1>2, <1>3, <1>4 DEF BuiltInv, Boots

\* The steps of the client preserve how it is built.
LEMMA BuiltNext == SignedInv /\ BuiltInv /\ [Next]_vars => BuiltInv'
<1>. SUFFICES ASSUME SignedInv, BuiltInv, [Next]_vars PROVE BuiltInv'
  OBVIOUS
<1>1. CASE CheckLocal \/ Fetch \/ OpenLocal \/ FillLocal \/ GetFails
  BY <1>1, CheckLocalBuilt, FetchBuilt, OpenLocalBuilt, FillLocalBuilt, GetFailsBuilt
<1>2. CASE LoadConfig \/ AskResource \/ TakeResource \/ BuildFails \/ MergeInline
  BY <1>2, LoadConfigBuilt, AskResourceBuilt, TakeResourceBuilt, BuildFailsBuilt, MergeInlineBuilt
<1>3. CASE \E f \in todo : MergeFile(f)
  BY <1>3, MergeFileBuilt
<1>4. CASE \E ref \in Images, input \in setup.inputs : Start(ref, input)
  BY <1>4, StartBuilt
<1>5. CASE Select \/ Requirement \/ TakeKey \/ SimpleSigning \/ Triangulate \/ Cosign
  BY <1>5, CheckBuilt
<1>6. CASE CheckFails \/ TagMoves \/ KeyRotates \/ Crash
  BY <1>6, SurroundingsBuilt, CrashBuilt
<1>7. CASE UNCHANGED vars
  <2>1. fails \in Nat /\ fails >= fails /\ UNCHANGED <<client, chan, check, local, fails>>
    BY <1>7 DEF BuiltInv, vars, bounds
  <2>. QED
    BY <2>1, CheckStep
<1>. QED
  BY <1>1, <1>2, <1>3, <1>4, <1>5, <1>6, <1>7 DEF Next

\* A copy of the sigstore configuration is torn while it is written, or when
\* writing it has failed and with it the build; a later build sees a torn copy
\* only if a process has died.
TornInv ==
    /\ crashes \in Nat
    /\ inline = Torn => crashes > 0
    /\ crashes = 0 /\ local["sigstore"] = Torn =>
          boot = "failed" \/ (boot = "sigstore" /\ chan.pc \in {"fill", "failed"})

LEMMA TornInit == Init => TornInv
BY Constants DEF Init, TornInv, Stages

\* The copy is written by the build alone.
LEMMA TornNext == SignedInv /\ BuiltInv /\ TornInv /\ [Next]_vars => TornInv'
<1>. SUFFICES ASSUME SignedInv, BuiltInv, TornInv, [Next]_vars PROVE TornInv'
  OBVIOUS
<1>1. None # Torn /\ setup \in Setups
  BY Constants DEF SignedInv, BuildRight
<1>2. Torn # Content("sigstore")
  BY <1>1, ContentIs, ContentAssumption
<1>3. CASE CheckLocal \/ Fetch
  <2>1. UNCHANGED <<client, local, crashes>> /\ chan.pc \in {"checkLocal", "fetch"}
    BY <1>3 DEF CheckLocal, Fetch, bounds
  <2>. QED
    BY <2>1 DEF TornInv, client
<1>4. CASE OpenLocal
  <2>1. /\ UNCHANGED <<client, crashes>> /\ chan.pc = "open"
        /\ local' = [local EXCEPT ![chan.name] = Torn] /\ chan' = [chan EXCEPT !.pc = "fill"]
    BY <1>4 DEF OpenLocal, bounds
  <2>2. chan'.pc = "fill"
    BY <2>1, Getting DEF IsChan, ChanFields
  <2>3. local'["sigstore"] = local["sigstore"] \/ chan.name = "sigstore"
    BY <2>1
  <2>4. chan.name = "sigstore" => boot = "sigstore"
    BY <2>1, Getting
  <2>. QED
    BY <2>1, <2>2, <2>3, <2>4 DEF TornInv, client
<1>5. CASE FillLocal
  <2>1. /\ UNCHANGED <<client, crashes>> /\ chan.pc = "fill"
        /\ local' = [local EXCEPT ![chan.name] = chan.data]
    BY <1>5 DEF FillLocal, bounds
  <2>2. PICK st, d : st = chan.name /\ d = chan.data
    OBVIOUS
  <2>3. CASE st = "sigstore"
    <3>1. d = Content("sigstore")
      BY <2>1, <2>2, <2>3, Getting DEF GotFor
    <3>2. "sigstore" \in DOMAIN local
      BY DEF SignedInv, KeptRight, Names, Stages
    <3>3. local'["sigstore"] # Torn
      BY <1>2, <2>1, <2>2, <2>3, <3>1, <3>2
    <3>. QED
      BY <2>1, <3>3 DEF TornInv, client
  <2>4. CASE st # "sigstore"
    <3>1. local'["sigstore"] = local["sigstore"]
      BY <2>1, <2>2, <2>4
    <3>2. boot # "sigstore"
      BY <2>1, <2>2, <2>4, Getting
    <3>. QED
      BY <2>1, <3>1, <3>2 DEF TornInv, client
  <2>. QED
    BY <2>3, <2>4
<1>6. CASE GetFails
  <2>1. UNCHANGED <<client, local, crashes>> /\ chan.pc # "idle" /\ chan' = [chan EXCEPT !.pc = "failed"]
    BY <1>6 DEF GetFails
  <2>2. chan'.pc = "failed"
    BY <2>1, Getting DEF IsChan, ChanFields
  <2>. QED
    BY <2>1, <2>2 DEF TornInv, client
<1>7. CASE LoadConfig \/ AskResource
  <2>1. UNCHANGED <<inline, local, crashes>> /\ chan.pc = "idle"
    BY <1>7 DEF LoadConfig, AskResource, bounds, SignedInv, BuildRight
  <2>2. boot # "failed"
    BY <1>7 DEF LoadConfig, AskResource, Stages
  <2>. QED
    BY <2>1, <2>2 DEF TornInv
<1>8. CASE TakeResource
  <2>1. UNCHANGED <<local, crashes>> /\ boot \in Stages /\ chan.pc = "done"
    BY <1>8 DEF TakeResource, bounds
  <2>2. inline' = IF boot = "sigstore" THEN chan.data ELSE inline
    BY <1>8 DEF TakeResource
  <2>3. boot = "sigstore" => IsGot("sigstore", chan.data)
    BY <2>1 DEF BuiltInv, GettingRight, GotFor
  <2>4. crashes = 0 => local["sigstore"] # Torn
    BY <2>1 DEF TornInv, Stages
  <2>5. boot = "sigstore" /\ crashes = 0 => inline' # Torn
    BY <1>2, <2>2, <2>3, <2>4 DEF IsGot
  <2>. QED
    BY <2>1, <2>2, <2>4, <2>5 DEF TornInv
<1>9. CASE BuildFails
  <2>1. UNCHANGED <<inline, local, crashes>> /\ boot' = "failed"
    BY <1>9 DEF BuildFails, bounds
  <2>. QED
    BY <2>1 DEF TornInv
<1>10. CASE MergeInline \/ \E f \in todo : MergeFile(f)
  <2>1. UNCHANGED <<inline, local, crashes>> /\ boot = "files"
    BY <1>10 DEF MergeInline, MergeFile, bounds
  <2>. QED
    BY <2>1 DEF TornInv
<1>11. CASE \E ref \in Images, input \in setup.inputs : Start(ref, input)
  BY <1>11 DEF Start, TornInv, client
<1>12. CASE Select \/ Requirement \/ TakeKey \/ SimpleSigning \/ Triangulate \/ Cosign \/ CheckFails \/ TagMoves \/ KeyRotates
  <2>1. UNCHANGED <<client, local, crashes>>
    BY <1>12 DEF Select, Requirement, TakeKey, SimpleSigning, Triangulate, Cosign, CheckFails, TagMoves,
       KeyRotates, bounds
  <2>2. boot = "sigstore" => chan' = chan
    <3>1. boot = "sigstore" => check.pc = "idle"
      BY DEF SignedInv, BuildRight
    <3>. QED
      BY <1>12, <3>1 DEF Select, Requirement, TakeKey, SimpleSigning, Triangulate, Cosign, CheckFails,
         TagMoves, KeyRotates, At
  <2>. QED
    BY <2>1, <2>2 DEF TornInv, client
<1>13. CASE Crash
  <2>1. crashes' = crashes + 1 /\ inline' = None
    BY <1>13 DEF Crash
  <2>. QED
    BY <1>1, <2>1 DEF TornInv
<1>14. CASE UNCHANGED vars
  BY <1>14 DEF vars, client, bounds, TornInv
<1>. QED
  BY <1>3, <1>4, <1>5, <1>6, <1>7, <1>8, <1>9, <1>10, <1>11, <1>12, <1>13, <1>14 DEF Next

\* A client that is built is as its resources say, and one that is not built
\* has a reason.
LEMMA BuiltIsConfigured == SignedInv /\ BuiltInv /\ TornInv => ClientIsConfigured
<1>. SUFFICES ASSUME SignedInv, BuiltInv, TornInv PROVE ClientIsConfigured
  OBVIOUS
<1>1. ASSUME boot = "ready" PROVE ~Unbuildable /\ (Signing => IsUnion)
  <2>1. Conf # None /\ (Signing => UnionOf(config, AllConfigs))
    BY <1>1 DEF BuiltInv, MergedRight
  <2>2. Signing => IsUnion
    BY <2>1 DEF UnionOf, IsUnion
  <2>3. Signing => Agree
    BY <2>1, UnionAgrees DEF Agree
  <2>4. Conf.auth # None => ~BadResource("auth")
    BY <1>1 DEF BuiltInv, StagesRight
  <2>5. Conf.policy # None => ~BadResource("policy")
    BY <1>1 DEF BuiltInv, StagesRight
  <2>6. Conf.sigstore # None => ~BadResource("sigstore")
    <3>1. Conf.sigstore # None => Conf.sigstore \in Schemes /\ IsGot("sigstore", inline)
      BY <1>1 DEF BuiltInv, StagesRight
    <3>2. Conf.policy # None => ParsesAsYaml(inline)
      BY <1>1 DEF BuiltInv, StagesRight
    <3>. QED
      BY <3>1, <3>2 DEF BadResource, Schemes, Signing, ParsesAsYaml, IsGot
  <2>7. \A st \in Named : ~BadResource(st)
    BY <2>4, <2>5, <2>6 DEF Named, Stages
  <2>. QED
    BY <2>1, <2>2, <2>3, <2>7 DEF Unbuildable
<1>. QED
  BY <1>1 DEF ClientIsConfigured, BuiltInv, TornInv

\* ClientBuilder::build: whatever order the directory is read in and whatever a
\* crash has left in the files, a client that is built has all that the files
\* and the KBS say, but what was in a sigstore configuration that a crash has
\* torn; one that is refused has a reason, and a registry is shown the
\* credential that is meant for the image.
THEOREM ClientAlwaysConfigured == Spec => []ClientIsConfigured
<1>1. Init => SignedInv /\ BuiltInv /\ TornInv
  BY SignedInit, BuiltInit, TornInit
<1>2. SignedInv /\ BuiltInv /\ TornInv /\ [Next]_vars => (SignedInv /\ BuiltInv /\ TornInv)'
  BY SignedStep, BuiltNext, TornNext
<1>3. SignedInv /\ BuiltInv /\ TornInv => ClientIsConfigured
  BY BuiltIsConfigured
<1>. QED
  BY <1>1, <1>2, <1>3, PTL DEF Spec

-----------------------------------------------------------------------------
(* What a requirement demands is what is looked for.                        *)

\* What a requirement demands depends on the image, the client and the key.
LEMMA MeetsStays ==
    ASSUME UNCHANGED <<setup, config, kbsKey>>,
           check'.cred = check.cred, check'.ref = check.ref, check'.digest = check.digest, NEW r
    PROVE  Meets(r)' = Meets(r)
<1>1. KeysNow(r)' = KeysNow(r)
  BY DEF KeysNow
<1>2. Location(check.ref)' = Location(check.ref)
  BY DEF Location
<1>3. SimpleStore' = SimpleStore /\ Store' = Store
  <2>1. ASSUME NEW sigs PROVE Found(sigs)' = Found(sigs)
    BY DEF Found
  <2>2. PICK url, more : url = Location(check.ref) /\ more = setup.registry
    OBVIOUS
  <2>3. SimpleStore = IF url \in FileUrls THEN Found(SimpleSigs[url]) ELSE {}
    BY <2>2 DEF SimpleStore
  <2>4. SimpleStore' = IF url \in FileUrls THEN Found(SimpleSigs[url])' ELSE {}
    BY <1>2, <2>2 DEF SimpleStore, Found
  <2>5. Store = (IF more = None THEN {} ELSE Found(more)) /\ Store' = (IF more = None THEN {} ELSE Found(more)')
    BY <2>2 DEF Store, Found
  <2>. QED
    BY <2>1, <2>3, <2>4, <2>5
<1>4. Usable' = Usable
  BY <1>3, ConfStays DEF Usable, Signing
<1>5. ASSUME NEW s PROVE IsSignatureOf(s, r, KeysNow(r))' = IsSignatureOf(s, r, KeysNow(r))
  BY <1>1 DEF IsSignatureOf
<1>. QED
  BY <1>3, <1>4, <1>5 DEF Meets

\* The requirements of an image do not change.
LEMMA RequirementsStay ==
    ASSUME setup' = setup, NEW ref
    PROVE  RequirementsForImage(ref)' = RequirementsForImage(ref)
BY DEF RequirementsForImage

\* requirements_for_image: of all the scopes of the policy that cover an image
\* the search finds the most specific one, whatever the names look like.
THEOREM PolicyFound ==
    ASSUME setup \in Setups, setup.policy # Unreadable, NEW ref \in Images
    PROVE  PolicyFor(ref) = RequirementsForImage(ref)
<1>1. PICK map : map = setup.policy.docker
  OBVIOUS
<1>2. HasScopes(map) /\ IsName(ref.name)
  BY <1>1, ContentAssumption
<1>3. PICK S : S = CoveringScopes(ref, map) \cup ({<<>>} \cap DOMAIN map)
  OBVIOUS
<1>4. PICK found : found = FirstIn(<<Whole(ref)>> \o Namespaces(ref) \o <<<<>>>>, map)
  OBVIOUS
<1>5. found = (IF S = {} THEN None ELSE MostSpecific(ref, S)) /\ (S # {} => found # None)
  BY <1>2, <1>3, <1>4, PolicyScopeFound
<1>6. RequirementsForImage(ref) = IF found = None THEN setup.policy.default ELSE map[found]
  BY <1>1, <1>4 DEF RequirementsForImage
<1>7. PolicyFor(ref) = IF S = {} THEN setup.policy.default ELSE map[MostSpecific(ref, S)]
  BY <1>1, <1>3 DEF PolicyFor
<1>. QED
  BY <1>5, <1>6, <1>7

\* base_url: the most specific scope of the configuration that covers an image
\* says where its signatures are.
THEOREM LocationFound ==
    ASSUME HasScopes(config.docker), NEW ref \in Images
    PROVE  BaseUrl(ref) = Location(ref)
<1>1. PICK map : map = config.docker
  OBVIOUS
<1>2. HasScopes(map) /\ IsName(ref.name)
  BY <1>1, ContentAssumption
<1>3. PICK S : S = CoveringScopes(ref, map)
  OBVIOUS
<1>4. PICK found : found = FirstIn(<<Whole(ref)>> \o Namespaces(ref), map)
  OBVIOUS
<1>5. found = (IF S = {} THEN None ELSE MostSpecific(ref, S)) /\ (S # {} => found # None)
  BY <1>2, <1>3, <1>4, ScopeFound
<1>6. BaseUrl(ref) = IF found = None THEN config.default ELSE map[found]
  BY <1>1, <1>4 DEF BaseUrl
<1>7. Location(ref) = IF S = {} THEN config.default ELSE map[MostSpecific(ref, S)]
  BY <1>1, <1>3 DEF Location
<1>. QED
  BY <1>5, <1>6, <1>7

\* The signatures that are found.
LEMMA SignaturesFound ==
    ASSUME SignedInv, BuiltInv, boot = "ready", Conf.policy # None, check.ref \in Images
    PROVE  Signatures = IF Usable THEN Store \cup SimpleStore ELSE {}
<1>1. setup \in Setups /\ Conf # None
  BY DEF SignedInv, BuildRight, BuiltInv
<1>2. inline # None <=> Signing
  <2>1. Conf.sigstore # None => setup.sigstore # None
    BY <1>1, ContentAssumption DEF Conf
  <2>2. IF Conf.sigstore = None THEN inline = None ELSE IsGot("sigstore", inline)
    BY DEF BuiltInv, StagesRight
  <2>. QED
    BY <2>1, <2>2, ContentIs, Constants DEF IsGot, Signing
<1>3. Store = RegistrySigs
  BY DEF Store, RegistrySigs, Found, AtImage
<1>4. RegistryFails <=> ~(setup.registry # None => check.cred # Anonymous /\ \A s \in Store : s.base64)
  BY DEF RegistryFails, Store, Found, AtImage
<1>5. CASE ~Signing
  BY <1>2, <1>5 DEF Signatures, Usable
<1>6. CASE RegistryFails
  BY <1>4, <1>6 DEF Signatures, Usable
<1>7. CASE Signing /\ ~RegistryFails
  <2>1. HasScopes(config.docker)
    <3>1. inline # Torn => setup.sigstore # None /\ setup.sigstore # Unreadable
      <4>1. ~BadResource("policy") /\ ParsesAsYaml(inline) /\ IsGot("sigstore", inline)
        BY <1>7 DEF BuiltInv, StagesRight, Signing
      <4>2. inline # Torn => inline = setup.sigstore
        BY <4>1, ContentIs DEF IsGot
      <4>. QED
        BY <1>2, <1>7, <4>1, <4>2 DEF ParsesAsYaml
    <3>2. \A a \in AllConfigs : HasScopes(a.docker)
      BY <1>1, <3>1, ContentAssumption DEF AllConfigs
    <3>3. UnionOf(config, AllConfigs)
      BY <1>7 DEF BuiltInv, MergedRight
    <3>. QED
      BY <3>2, <3>3 DEF UnionOf, HasScopes
  <2>2. PICK url : url = BaseUrl(check.ref)
    OBVIOUS
  <2>3. Location(check.ref) = url
    <3>1. PICK ref : ref = check.ref
      OBVIOUS
    <3>. QED
      BY <2>1, <2>2, <3>1, LocationFound
  <2>4. PICK dir : dir = IF url \in FileUrls THEN AtImage(SimpleSigs[url]) ELSE {}
    OBVIOUS
  <2>5. SimpleStore = dir
    BY <2>3, <2>4 DEF SimpleStore, Found, AtImage
  <2>6. CASE config = EmptyConfig
    <3>1. Signatures = RegistrySigs
      BY <1>2, <1>7, <2>6 DEF Signatures
    <3>2. SimpleStore = {}
      <4>1. DOMAIN config.docker = {} /\ config.default = None
        BY <2>6 DEF EmptyConfig
      <4>2. Location(check.ref) = None
        BY <4>1 DEF Location, CoveringScopes
      <4>. QED
        BY <4>2, ContentAssumption DEF SimpleStore
    <3>3. Usable
      BY <1>4, <1>7, <2>6 DEF Usable
    <3>. QED
      BY <1>3, <3>1, <3>2, <3>3
  <2>7. CASE config # EmptyConfig
    <3>1. Signatures = IF dir = {} THEN {} ELSE RegistrySigs \cup dir
      BY <1>2, <1>7, <2>2, <2>4, <2>7 DEF Signatures
    <3>2. Usable <=> dir # {}
      BY <1>4, <1>7, <2>5, <2>7 DEF Usable
    <3>. QED
      BY <1>3, <2>5, <3>1, <3>2
  <2>. QED
    BY <2>6, <2>7
<1>. QED
  BY <1>5, <1>6, <1>7

\* A simple signature is accepted just if the requirement is met ...
LEMMA SimpleDecides ==
    ASSUME SignedInv, BuiltInv, boot = "ready", Conf.policy # None, check.ref \in Images,
           Req.type = "simple", WellFormed(Req), KeysNow(Req) = {check.key}
    PROVE  SimpleAllows <=> Meets(Req)
<1>1. Signatures = IF Usable THEN Store \cup SimpleStore ELSE {}
  BY SignaturesFound
<1>2. PICK r, key : r = Req /\ key = check.key
  OBVIOUS
<1>3. \A s : Judge(r, s) <=> s.issuer = s.by /\ IsSignatureOf(s, r, {key})
  BY <1>2 DEF Judge, IsSignatureOf, SignedReference, SignedDigest
<1>4. SimpleAllows <=> \E s \in Signatures : Judge(r, s)
  BY <1>2 DEF SimpleAllows
<1>5. Meets(r) <=> Usable /\ \E s \in Store \cup SimpleStore : s.issuer = s.by /\ IsSignatureOf(s, r, {key})
  BY <1>2 DEF Meets
<1>. QED
  BY <1>1, <1>2, <1>3, <1>4, <1>5

\* ... and so are cosign signatures.
LEMMA CosignDecides ==
    ASSUME Req.type = "cosign", WellFormed(Req), KeysNow(Req) = {check.key}, check.source = check.digest
    PROVE  CosignAllows <=> Meets(Req)
<1>1. PICK r, key, d, ref : r = Req /\ key = check.key /\ d = check.digest /\ ref = check.ref
  OBVIOUS
<1>2. Layers = {s \in CosignSigs : s.at = d /\ s.digest = d}
  BY <1>1 DEF Layers
<1>3. CosignAllows <=> /\ \E s \in CosignSigs : s.at = d /\ s.digest = d /\ s.by = key
                       /\ r.rule # None => \A s \in CosignSigs : s.at = d /\ s.digest = d => Matches(r.rule, ref, s.ref)
  BY <1>1, <1>2 DEF CosignAllows, SignedReference, SignedDigest
<1>4. \A s : IsSignatureOf(s, r, {key}) <=> s.by = key /\ s.digest = d /\ (r.rule # None => Matches(r.rule, ref, s.ref))
  BY <1>1 DEF IsSignatureOf
<1>5. Meets(r) <=> /\ \E s \in CosignSigs : s.at = d /\ IsSignatureOf(s, r, {key})
                   /\ r.rule # None => \A s \in CosignSigs : s.at = d /\ s.digest = d => Matches(r.rule, ref, s.ref)
  BY <1>1 DEF Meets
<1>. QED
  BY <1>1, <1>3, <1>4, <1>5

\* Without a key there is no signature.
LEMMA NoKeyNoSignature ==
    ASSUME Req.type \in {"simple", "cosign"}, KeysNow(Req) = {}
    PROVE  ~Meets(Req)
<1>1. \A s : ~IsSignatureOf(s, Req, KeysNow(Req))
  BY DEF IsSignatureOf
<1>. QED
  BY <1>1 DEF Meets

-----------------------------------------------------------------------------
(* The steps that bring a verdict about.                                    *)

\* There is neither a check nor a verdict before the client is built.
LEMMA NoVerdictYet ==
    ASSUME check'.pc = "idle", check'.out = None
    PROVE  VerdictInv'
BY DEF VerdictInv, InProgress, Checking

\* There is no check at the start.
LEMMA VerdictInit == Init => VerdictInv
<1>. SUFFICES ASSUME Init PROVE VerdictInv
  OBVIOUS
<1>1. check.pc = "idle" /\ check.out = None
  BY DEF Init, NoCheck
<1>. QED
  BY <1>1 DEF VerdictInv, InProgress, Checking

\* No step of the builder gives a verdict.
LEMMA BuilderVerdict ==
    ASSUME VerdictInv, boot # "ready", check' = check
    PROVE  VerdictInv'
<1>1. check.pc = "idle" /\ check.out = None
  BY DEF VerdictInv, InProgress
<1>. QED
  BY <1>1, NoVerdictYet

\* What a verdict depends on stays.
LEMMA VerdictStays ==
    ASSUME UNCHANGED <<setup, config, kbsKey>>, check' = check, NEW reqs
    PROVE  Verdict(reqs)' = Verdict(reqs) /\ \A r : Meets(r)' = Meets(r)
<1>1. \A r : Meets(r)' = Meets(r)
  BY MeetsStays
<1>. QED
  BY <1>1 DEF Verdict

\* How far a check is.
LEMMA ProgressStays ==
    ASSUME InProgress, UNCHANGED <<setup, boot>>, check'.pc = check.pc, check'.out = check.out,
           check'.ref = check.ref, check'.cred = check.cred, check'.digest = check.digest,
           check'.reqs = check.reqs
    PROVE  InProgress'
<1>1. PICK ref : ref = check.ref
  OBVIOUS
<1>2. RequirementsForImage(ref)' = RequirementsForImage(ref)
  BY RequirementsStay
<1>3. RequirementsForImage(check.ref)' = RequirementsForImage(check.ref)
  BY <1>1, <1>2 DEF RequirementsForImage
<1>4. Live' = Live
  BY ConfStays DEF Live
<1>. QED
  BY <1>3, <1>4 DEF InProgress, IsDigest

\* A step of the channel.
LEMMA KeyStep ==
    ASSUME VerdictInv, UNCHANGED <<client, check, registry>>,
           check.clean /\ check.pc # "idle" /\ Undisturbed =>
              /\ local'["key"] \in {None, kbsKey} \/ (check.pc = "key" /\ chan'.pc = "fill")
              /\ check.pc = "key" => KeyGot'
    PROVE  VerdictInv'
<1>1. InProgress'
  BY ProgressStays DEF VerdictInv, client
<1>2. PICK reqs : reqs = RequirementsForImage(check.ref)
  OBVIOUS
<1>3. Verdict(reqs)' = Verdict(reqs) /\ \A r : Meets(r)' = Meets(r)
  BY VerdictStays DEF client, registry
<1>4. Verdict(RequirementsForImage(check.ref))' = Verdict(RequirementsForImage(check.ref))
  <2>1. RequirementsForImage(check.ref)' = reqs
    BY <1>2 DEF RequirementsForImage, client
  <2>. QED
    BY <1>2, <1>3, <2>1 DEF Verdict
<1>5. Live' = Live
  BY ConfStays DEF Live, client
<1>6. ASSUME check.clean, check.pc # "idle" PROVE Undisturbed'
  <2>1. Undisturbed
    BY <1>6 DEF VerdictInv
  <2>2. Req' = Req /\ Digest(check.ref)' = Digest(check.ref) /\ kbsKey' = kbsKey
    BY DEF Req, Digest, registry
  <2>3. WellFormed(Req)' = WellFormed(Req) /\ KeysNow(Req)' = KeysNow(Req)
    BY <2>2 DEF WellFormed, KeysNow
  <2>. QED
    BY <1>3, <1>6, <2>1, <2>2, <2>3 DEF Undisturbed
<1>. QED
  BY <1>1, <1>4, <1>5, <1>6 DEF VerdictInv

\* Nothing happens.
LEMMA UnchangedVerdict ==
    ASSUME VerdictInv, UNCHANGED <<client, chan, check, registry, local>>
    PROVE  VerdictInv'
<1>1. KeyGot' = KeyGot
  BY DEF KeyGot, Req, WellFormed, KeysNow, registry
<1>. QED
  BY <1>1, KeyStep DEF Undisturbed

\* A key is got.
LEMMA ChannelVerdict ==
    ASSUME SignedInv, BuiltInv, VerdictInv, CheckLocal \/ Fetch \/ OpenLocal \/ FillLocal
    PROVE  VerdictInv'
<1>1. chan.pc # "idle" /\ UNCHANGED <<client, check, registry>>
  BY DEF CheckLocal, Fetch, OpenLocal, FillLocal
<1>2. CASE check.pc # "key"
  <2>1. boot # "ready"
    BY <1>1, <1>2, Getting DEF Stages
  <2>. QED
    BY <1>1, <2>1, BuilderVerdict
<1>3. CASE check.pc = "key"
  <2>1. chan.name = "key" /\ IsChan(chan) /\ Req.data = None
    BY <1>1, <1>3, Getting DEF SignedInv, KeyRight
  <2>2. "key" \in Names /\ local = [n \in Names |-> local[n]]
    BY DEF Names, SignedInv, KeptRight
  <2>3. Req' = Req /\ WellFormed(Req)' = WellFormed(Req) /\ KeysNow(Req)' = KeysNow(Req) /\ kbsKey' = kbsKey
    BY <1>1 DEF Req, WellFormed, KeysNow, registry
  <2>4. Scheme(Req.path) = "kbs" => KeysNow(Req) = {kbsKey}
    BY <2>1 DEF KeysNow
  <2>. SUFFICES ASSUME check.clean, Undisturbed
                PROVE  (local'["key"] \in {None, kbsKey} \/ chan'.pc = "fill") /\ KeyGot'
    BY <1>1, <1>3, KeyStep
  <2>5. KeyGot /\ (local["key"] \in {None, kbsKey} \/ chan.pc = "fill")
    BY <1>3 DEF Undisturbed
  <2>6. CASE CheckLocal
    <3>1. local' = local /\ chan.pc = "checkLocal"
      BY <2>6 DEF CheckLocal
    <3>2. PICK d : d = local["key"]
      OBVIOUS
    <3>3. d \in {None, kbsKey} /\ KeysNow(Req) = {kbsKey}
      BY <2>4, <2>5, <3>1, <3>2 DEF KeyGot
    <3>4. chan' = IF d # None THEN [chan EXCEPT !.pc = "done", !.data = d] ELSE [chan EXCEPT !.pc = "fetch"]
      BY <2>1, <2>6, <3>2 DEF CheckLocal
    <3>5. (d # None => chan'.pc = "done" /\ chan'.data = d) /\ (d = None => chan'.pc = "fetch")
      BY <2>1, <3>4 DEF IsChan, ChanFields
    <3>. QED
      BY <2>3, <2>5, <3>1, <3>2, <3>3, <3>5 DEF KeyGot
  <2>7. CASE Fetch
    <3>1. local' = local /\ chan.pc = "fetch"
      BY <2>7 DEF Fetch
    <3>2. chan' = [chan EXCEPT !.pc = "open", !.data = kbsKey]
      BY <2>1, <2>7 DEF Fetch, Content
    <3>3. chan'.pc = "open" /\ chan'.data = kbsKey
      BY <2>1, <3>2 DEF IsChan, ChanFields
    <3>. QED
      BY <2>3, <2>5, <3>1, <3>3 DEF KeyGot
  <2>8. CASE OpenLocal
    <3>1. chan.pc = "open" /\ chan' = [chan EXCEPT !.pc = "fill"]
      BY <2>8 DEF OpenLocal
    <3>2. chan'.pc = "fill" /\ chan'.data = chan.data
      BY <2>1, <3>1 DEF IsChan, ChanFields
    <3>. QED
      BY <2>3, <2>5, <3>1, <3>2 DEF KeyGot
  <2>9. CASE FillLocal
    <3>1. chan.pc = "fill" /\ chan' = [chan EXCEPT !.pc = "done"] /\ local' = [local EXCEPT !["key"] = chan.data]
      BY <2>1, <2>9 DEF FillLocal
    <3>2. chan'.pc = "done" /\ chan'.data = chan.data
      BY <2>1, <3>1 DEF IsChan, ChanFields
    <3>3. chan.data = kbsKey /\ KeysNow(Req) = {kbsKey}
      BY <2>4, <2>5, <3>1 DEF KeyGot
    <3>4. local'["key"] = kbsKey
      BY <2>2, <3>1, <3>3
    <3>. QED
      BY <2>3, <2>5, <3>2, <3>3, <3>4 DEF KeyGot
  <2>. QED
    BY <2>6, <2>7, <2>8, <2>9
<1>. QED
  BY <1>2, <1>3

\* A fault, or a change of the world, of which the check knows nothing.
LEMMA DisturbedVerdict ==
    ASSUME SignedInv, VerdictInv, GetFails \/ CheckFails \/ TagMoves \/ KeyRotates
    PROVE  VerdictInv'
<1>1. IsCheck(check) /\ UNCHANGED client
  BY DEF SignedInv, ListRight, GetFails, CheckFails, TagMoves, KeyRotates
<1>2. CASE check' = [check EXCEPT !.clean = FALSE]
  <2>1. /\ check'.pc = check.pc /\ check'.out = check.out /\ check'.ref = check.ref
        /\ check'.cred = check.cred /\ check'.digest = check.digest /\ check'.reqs = check.reqs
        /\ check'.clean = FALSE
    BY <1>1, <1>2 DEF IsCheck, CheckFields
  <2>2. InProgress'
    BY <1>1, <2>1, ProgressStays DEF VerdictInv, client
  <2>. QED
    BY <2>1, <2>2 DEF VerdictInv
<1>3. CASE CheckFails
  <2>1. check' = [check EXCEPT !.pc = "idle", !.out = "reject", !.clean = FALSE] /\ check.pc # "idle"
    BY <1>3 DEF CheckFails
  <2>2. check'.pc = "idle" /\ check'.ref = check.ref /\ check'.clean = FALSE
    BY <1>1, <2>1 DEF IsCheck, CheckFields
  <2>3. boot' = "ready" /\ check.ref \in Images
    BY <1>1, <2>1 DEF VerdictInv, InProgress, client
  <2>4. InProgress'
    BY <2>2, <2>3 DEF InProgress, Checking
  <2>. QED
    BY <2>2, <2>4 DEF VerdictInv
<1>. QED
  BY <1>2, <1>3 DEF GetFails, TagMoves, KeyRotates

\* A pull begins.
LEMMA StartVerdict ==
    ASSUME SignedInv, VerdictInv, NEW ref \in Images, NEW input, Start(ref, input)
    PROVE  VerdictInv'
<1>1. boot = "ready" /\ UNCHANGED <<client, registry, local>>
  BY DEF Start
<1>2. PICK cred :
        /\ check'.ref = ref /\ check'.cred = cred
        /\ check'.clean = (local["key"] \in {None, kbsKey})
        /\ IF cred = None \/ Conf.badCert THEN check'.pc = "idle" /\ check'.out = "error"
           ELSE /\ check'.digest = Digest(ref)
                /\ check'.pc = IF Conf.policy = None THEN "idle" ELSE "select"
                /\ check'.out = IF Conf.policy = None THEN "accept" ELSE None
  BY Begun
<1>3. Conf' = Conf /\ boot' = "ready" /\ tagged' = tagged /\ kbsKey' = kbsKey
  BY <1>1, ConfStays DEF client, registry
<1>4. check'.pc \in {"idle", "select"} /\ (check'.pc = "select" => Live' /\ check'.out = None)
  BY <1>2, <1>3 DEF Live
<1>5. check'.out # None => ~Live'
  BY <1>2, <1>3 DEF Live
<1>6. InProgress'
  BY <1>2, <1>3, <1>4 DEF InProgress, Checking
<1>7. ASSUME check'.clean, check'.pc # "idle" PROVE Undisturbed'
  <2>1. check'.pc = "select" /\ check'.digest = Digest(ref)
    BY <1>2, <1>4, <1>7
  <2>2. check'.digest = Digest(check.ref)'
    BY <1>2, <1>3, <2>1 DEF Digest
  <2>3. local'["key"] \in {None, kbsKey'}
    BY <1>1, <1>2, <1>3, <1>7
  <2>. QED
    BY <2>1, <2>2, <2>3 DEF Undisturbed, Checking
<1>. QED
  BY <1>5, <1>6, <1>7 DEF VerdictInv

\* A check that goes on: its image, and what was found of it, stay.
LEMMA GoesOnVerdict ==
    ASSUME SignedInv, VerdictInv, check.pc \in Checking, UNCHANGED <<client, registry, local>>,
           SamePull, check'.digest = check.digest, check'.reqs = check.reqs,
           check'.out = check.out, check'.clean = check.clean, check'.pc \in Checking,
           check.clean /\ Undisturbed => Undisturbed'
    PROVE  VerdictInv'
<1>1. PICK ref : ref = check.ref
  OBVIOUS
<1>2. InProgress /\ check.pc # "idle"
  BY DEF VerdictInv, Checking
<1>3. RequirementsForImage(check.ref)' = RequirementsForImage(check.ref) /\ Live' = Live
  BY ConfStays DEF RequirementsForImage, client, SamePull, Live
<1>4. InProgress'
  BY <1>2, <1>3 DEF InProgress, IsDigest, client, SamePull, Checking
<1>5. check'.out = None
  BY <1>2 DEF InProgress
<1>. QED
  BY <1>2, <1>4, <1>5 DEF VerdictInv

\* A check that ends.
LEMMA EndVerdict ==
    ASSUME SignedInv, VerdictInv, check.pc # "idle", UNCHANGED <<client, registry>>,
           SamePull, check'.digest = check.digest, check'.clean = check.clean, check'.pc = "idle",
           check.clean => Verdict(RequirementsForImage(check.ref))'
    PROVE  VerdictInv'
<1>1. boot' = "ready" /\ check'.ref \in Images
  BY DEF VerdictInv, InProgress, client, SamePull
<1>2. InProgress'
  BY <1>1 DEF InProgress, Checking
<1>. QED
  BY <1>2 DEF VerdictInv

\* The requirement in progress decides: it is not met.
LEMMA RejectVerdict ==
    ASSUME SignedInv, VerdictInv, check.pc \in Checking, UNCHANGED <<client, registry>>, End("reject"),
           check.clean => ~Meets(Req)
    PROVE  VerdictInv'
<1>1. check' = [check EXCEPT !.pc = "idle", !.out = "reject"] /\ IsCheck(check) /\ check.pc # "idle"
  BY DEF End, SignedInv, ListRight, Checking
<1>2. /\ SamePull /\ check'.digest = check.digest /\ check'.clean = check.clean
      /\ check'.pc = "idle" /\ check'.out = "reject"
  BY <1>1 DEF SamePull, IsCheck, CheckFields
<1>3. PICK i, reqs : i = check.i /\ reqs = check.reqs
  OBVIOUS
<1>4. i \in 1..Len(reqs) /\ reqs = RequirementsForImage(check.ref) /\ Req = reqs[i]
  BY <1>3 DEF SignedInv, ListRight, VerdictInv, InProgress, Req
<1>5. RequirementsForImage(check.ref)' = reqs
  BY <1>2, <1>4 DEF RequirementsForImage, client, SamePull
<1>6. ASSUME check.clean PROVE ~Meets(reqs[i])'
  <2>1. PICK r : r = reqs[i]
    OBVIOUS
  <2>2. ~Meets(r)
    BY <1>4, <1>6, <2>1
  <2>3. Meets(r)' = Meets(r)
    BY <1>2, MeetsStays DEF client, registry, SamePull
  <2>. QED
    BY <2>1, <2>2, <2>3
<1>7. ASSUME check.clean PROVE Verdict(RequirementsForImage(check.ref))'
  <2>1. Verdict(reqs)'
    BY <1>2, <1>4, <1>6, <1>7 DEF Verdict
  <2>. QED
    BY <1>5, <2>1 DEF Verdict
<1>. QED
  BY <1>1, <1>2, <1>7, EndVerdict

\* It is met: the next one decides, or there is none.
LEMMA AllowedVerdict ==
    ASSUME SignedInv, VerdictInv, check.pc \in Checking, check.pc # "key",
           UNCHANGED <<client, registry, local>>, Allowed, check.clean => Meets(Req)
    PROVE  VerdictInv'
<1>1. IsCheck(check) /\ check.pc # "idle"
  BY DEF SignedInv, ListRight, Checking
<1>2. PICK i, n, reqs : i = check.i /\ reqs = check.reqs /\ n = Len(reqs)
  OBVIOUS
<1>3. i \in 1..n /\ n \in Nat /\ reqs = RequirementsForImage(check.ref) /\ Req = reqs[i]
  <2>1. IsRequirements(reqs) /\ i \in 1..n
    BY <1>2 DEF SignedInv, ListRight
  <2>2. n \in Nat
    BY <1>2, <2>1, ReqType
  <2>. QED
    BY <1>2, <2>1, <2>2 DEF VerdictInv, InProgress, Req
<1>4. ASSUME check.clean PROVE \A r, j : j \in 1..i /\ r = reqs[j] => Meets(r)
  <2>1. Undisturbed
    BY <1>1, <1>4 DEF VerdictInv
  <2>2. \A r, j : j \in 1..(i - 1) /\ r = reqs[j] => Meets(r)
    BY <1>2, <2>1 DEF Undisturbed
  <2>3. \A j \in 1..i : j \in 1..(i - 1) \/ j = i
    BY <1>3
  <2>. QED
    BY <1>3, <1>4, <2>2, <2>3
<1>5. CASE i < n
  <2>1. PICK k : k = i + 1
    OBVIOUS
  <2>2. check' = [check EXCEPT !.pc = "req", !.i = k, !.key = None]
    BY <1>2, <1>5, <2>1 DEF Allowed
  <2>3. /\ SamePull /\ check'.digest = check.digest /\ check'.reqs = check.reqs /\ check'.out = check.out
        /\ check'.clean = check.clean /\ check'.pc = "req" /\ check'.i = k
    BY <1>1, <2>2 DEF SamePull, IsCheck, CheckFields
  <2>4. ASSUME check.clean, Undisturbed PROVE Undisturbed'
    <3>1. \A r : Meets(r)' = Meets(r)
      BY <2>3, MeetsStays DEF client, registry, SamePull
    <3>2. 1..(k - 1) = 1..i
      BY <1>3, <2>1
    <3>3. \A r, j : j \in 1..(k - 1) /\ r = reqs[j] => Meets(r)'
      BY <1>4, <2>4, <3>1, <3>2
    <3>4. check'.digest = Digest(check.ref)'
      BY <2>3, <2>4 DEF Undisturbed, Digest, SamePull, registry
    <3>5. local'["key"] \in {None, kbsKey'}
      BY <2>4 DEF Undisturbed, registry
    <3>. QED
      BY <1>2, <2>3, <3>3, <3>4, <3>5 DEF Undisturbed
  <2>. QED
    BY <2>3, <2>4, GoesOnVerdict DEF Checking
<1>6. CASE ~(i < n)
  <2>1. check' = [check EXCEPT !.pc = "idle", !.out = "accept"]
    BY <1>2, <1>6 DEF Allowed, End
  <2>2. /\ SamePull /\ check'.digest = check.digest /\ check'.clean = check.clean
        /\ check'.pc = "idle" /\ check'.out = "accept"
    BY <1>1, <2>1 DEF SamePull, IsCheck, CheckFields
  <2>3. RequirementsForImage(check.ref)' = reqs
    BY <1>3, <2>2 DEF RequirementsForImage, client, SamePull
  <2>4. i = n /\ reqs # <<>> /\ check.digest \notin Malformed
    <3>1. i = n
      BY <1>3, <1>6
    <3>2. reqs # <<>>
      BY <1>2, <1>3
    <3>. QED
      BY <3>1, <3>2 DEF VerdictInv, InProgress, IsDigest
  <2>5. ASSUME check.clean PROVE Verdict(RequirementsForImage(check.ref))'
    <3>1. \A r : Meets(r)' = Meets(r)
      BY <2>2, MeetsStays DEF client, registry, SamePull
    <3>2. \A j \in 1..Len(reqs) : Meets(reqs[j])'
      <4>1. ASSUME NEW j \in 1..Len(reqs) PROVE Meets(reqs[j])'
        <5>1. PICK r : r = reqs[j]
          OBVIOUS
        <5>2. Meets(r)
          BY <1>2, <1>4, <2>4, <2>5, <5>1
        <5>3. Meets(r)'
          BY <3>1, <5>2
        <5>. QED
          BY <5>1, <5>3
      <4>. QED
        BY <4>1
    <3>3. Verdict(reqs)'
      BY <2>2, <2>4, <3>2 DEF Verdict
    <3>. QED
      BY <2>3, <3>3 DEF Verdict
  <2>. QED
    BY <1>1, <2>2, <2>5, EndVerdict
<1>. QED
  BY <1>5, <1>6

LEMMA SelectVerdict == SignedInv /\ VerdictInv /\ Select => VerdictInv'
<1>. SUFFICES ASSUME SignedInv, VerdictInv, Select PROVE VerdictInv'
  OBVIOUS
<1>1. check.pc = "select" /\ UNCHANGED <<client, chan, registry, local>> /\ IsCheck(check)
  BY DEF Select, At, SignedInv, ListRight
<1>2. PICK reqs : reqs = RequirementsForImage(check.ref)
  OBVIOUS
<1>3. InProgress /\ check.out = None /\ boot' = "ready" /\ check.ref \in Images /\ Live
  BY <1>1 DEF VerdictInv, InProgress, client
<1>4. CASE ~IsDigest(check.digest) \/ reqs = <<>>
  <2>1. check' = [check EXCEPT !.reqs = reqs, !.pc = "idle", !.out = "reject"]
    BY <1>2, <1>4 DEF Select
  <2>2. /\ SamePull /\ check'.digest = check.digest /\ check'.clean = check.clean
        /\ check'.pc = "idle" /\ check'.out = "reject"
    BY <1>1, <2>1 DEF SamePull, IsCheck, CheckFields
  <2>3. RequirementsForImage(check.ref)' = reqs
    BY <1>1, <1>2, <2>2 DEF RequirementsForImage, client, SamePull
  <2>4. Verdict(reqs)'
    BY <1>4, <2>2 DEF Verdict, IsDigest
  <2>5. Verdict(RequirementsForImage(check.ref))'
    BY <2>3, <2>4 DEF Verdict
  <2>. QED
    BY <1>1, <2>2, <2>5, EndVerdict
<1>5. CASE ~(~IsDigest(check.digest) \/ reqs = <<>>)
  <2>1. check' = [check EXCEPT !.reqs = reqs, !.pc = "req", !.i = 1]
    BY <1>2, <1>5 DEF Select
  <2>2. /\ SamePull /\ check'.digest = check.digest /\ check'.clean = check.clean /\ check'.reqs = reqs
        /\ check'.pc = "req" /\ check'.out = check.out /\ check'.i = 1
    BY <1>1, <2>1 DEF SamePull, IsCheck, CheckFields
  <2>3. RequirementsForImage(check.ref)' = reqs /\ Live' = Live
    BY <1>1, <1>2, <2>2, ConfStays DEF RequirementsForImage, client, SamePull, Live
  <2>4. InProgress'
    BY <1>3, <1>5, <2>2, <2>3 DEF InProgress, IsDigest, SamePull, Checking
  <2>5. ASSUME check.clean PROVE Undisturbed'
    <3>1. Undisturbed
      BY <1>1, <2>5 DEF VerdictInv
    <3>2. check'.digest = Digest(check.ref)' /\ local'["key"] \in {None, kbsKey'}
      BY <1>1, <2>2, <3>1 DEF Undisturbed, Digest, SamePull, registry
    <3>3. 1..(check'.i - 1) = {}
      BY <2>2
    <3>. QED
      BY <2>2, <3>2, <3>3 DEF Undisturbed
  <2>. QED
    BY <1>3, <2>2, <2>4, <2>5 DEF VerdictInv
<1>. QED
  BY <1>4, <1>5

\* The parts of a check that goes on with the same requirement.
LEMMA SameRequirement ==
    ASSUME Undisturbed, check.pc \in Checking, check.pc # "key" \/ chan.pc # "fill",
           UNCHANGED <<client, registry, local>>, SamePull,
           check'.digest = check.digest, check'.reqs = check.reqs, check'.i = check.i
    PROVE  /\ check'.digest = Digest(check.ref)' /\ local'["key"] \in {None, kbsKey'}
           /\ \A r, j : j \in 1..(check'.i - 1) /\ r = check'.reqs[j] => Meets(r)'
           /\ Req' = Req /\ WellFormed(Req)' = WellFormed(Req) /\ KeysNow(Req)' = KeysNow(Req)
           /\ kbsKey' = kbsKey
<1>1. \A r : Meets(r)' = Meets(r)
  BY MeetsStays DEF client, registry, SamePull
<1>2. check'.digest = Digest(check.ref)' /\ local'["key"] \in {None, kbsKey'}
  BY DEF Undisturbed, Digest, SamePull, registry
<1>3. Req' = Req
  BY DEF Req
<1>4. WellFormed(Req)' = WellFormed(Req) /\ KeysNow(Req)' = KeysNow(Req)
  BY <1>3 DEF WellFormed, KeysNow, registry
<1>. QED
  BY <1>1, <1>2, <1>3, <1>4 DEF Undisturbed, registry

LEMMA RequirementVerdict == SignedInv /\ VerdictInv /\ Requirement => VerdictInv'
<1>. SUFFICES ASSUME SignedInv, VerdictInv, Requirement PROVE VerdictInv'
  OBVIOUS
<1>1. /\ check.pc = "req" /\ UNCHANGED <<client, registry, local>> /\ IsCheck(check)
      /\ check.pc \in Checking
  BY DEF Requirement, At, SignedInv, ListRight, Checking
<1>2. CASE Req.type = "accept" /\ Allowed
  <2>1. Meets(Req)
    BY <1>2 DEF Meets
  <2>. QED
    BY <1>1, <1>2, <2>1, AllowedVerdict
<1>3. CASE Req.type = "reject" /\ End("reject")
  <2>1. ~Meets(Req)
    BY <1>3 DEF Meets
  <2>. QED
    BY <1>1, <1>3, <2>1, RejectVerdict
<1>4. CASE Req.type \in {"simple", "cosign"} /\ ~WellFormed(Req) /\ End("reject")
  <2>1. ~Meets(Req)
    BY <1>4 DEF Meets
  <2>. QED
    BY <1>1, <1>4, <2>1, RejectVerdict
<1>5. CASE /\ Req.type \in {"simple", "cosign"} /\ WellFormed(Req) /\ Req.path # None
           /\ GetResource("key", Req.path) /\ check' = [check EXCEPT !.pc = "key"]
  <2>1. /\ SamePull /\ check'.digest = check.digest /\ check'.reqs = check.reqs /\ check'.out = check.out
        /\ check'.clean = check.clean /\ check'.pc = "key" /\ check'.i = check.i
    BY <1>1, <1>5 DEF SamePull, IsCheck, CheckFields
  <2>2. PICK uri : uri = Req.path
    OBVIOUS
  <2>3. KeysNow(Req) = CASE Scheme(uri) = "file" -> {GuestKey} [] Scheme(uri) = "kbs" -> {kbsKey} [] OTHER -> {}
    BY <1>5, <2>2 DEF KeysNow, WellFormed
  <2>4. ASSUME Undisturbed PROVE KeyGot'
    <3>1. Req' = Req /\ WellFormed(Req)' = WellFormed(Req) /\ KeysNow(Req)' = KeysNow(Req) /\ kbsKey' = kbsKey
      BY <1>1, <2>1, <2>4, SameRequirement
    <3>2. CASE Scheme(uri) = "kbs"
      <4>1. chan' = [Idle EXCEPT !.pc = "checkLocal", !.name = "key"]
        BY <1>5, <2>2, <3>2 DEF GetResource
      <4>2. chan'.pc = "checkLocal"
        BY <4>1 DEF Idle
      <4>. QED
        BY <1>5, <2>2, <3>1, <3>2, <4>2 DEF KeyGot
    <3>3. CASE Scheme(uri) = "file"
      <4>1. chan' = [pc |-> "done", name |-> "key", data |-> GuestKey]
        BY <1>5, <2>2, <3>3 DEF GetResource
      <4>2. chan'.pc = "done" /\ chan'.data = GuestKey
        BY <4>1
      <4>. QED
        BY <1>5, <2>3, <3>1, <3>3, <4>2 DEF KeyGot
    <3>4. CASE Scheme(uri) \notin {"kbs", "file"}
      <4>1. chan' = [Idle EXCEPT !.pc = "failed", !.name = "key"]
        BY <1>5, <2>2, <3>4 DEF GetResource
      <4>2. chan'.pc = "failed"
        BY <4>1 DEF Idle
      <4>3. KeysNow(Req) = {}
        BY <2>3, <3>4
      <4>. QED
        BY <1>5, <3>1, <4>2, <4>3 DEF KeyGot
    <3>. QED
      BY <3>2, <3>3, <3>4
  <2>5. ASSUME Undisturbed PROVE Undisturbed'
    <3>1. /\ check'.digest = Digest(check.ref)' /\ local'["key"] \in {None, kbsKey'}
          /\ \A r, j : j \in 1..(check'.i - 1) /\ r = check'.reqs[j] => Meets(r)'
      BY <1>1, <2>1, <2>5, SameRequirement
    <3>. QED
      BY <2>1, <2>4, <2>5, <3>1 DEF Undisturbed
  <2>. QED
    BY <1>1, <2>1, <2>5, GoesOnVerdict DEF Checking
<1>6. CASE /\ Req.type \in {"simple", "cosign"} /\ WellFormed(Req) /\ Req.path = None
           /\ check' = [check EXCEPT !.pc = "signatures", !.key = Req.data]
  <2>1. PICK key : key = Req.data
    OBVIOUS
  <2>2. /\ SamePull /\ check'.digest = check.digest /\ check'.reqs = check.reqs /\ check'.out = check.out
        /\ check'.clean = check.clean /\ check'.pc = "signatures" /\ check'.i = check.i /\ check'.key = key
    BY <1>1, <1>6, <2>1 DEF SamePull, IsCheck, CheckFields
  <2>3. KeysNow(Req) = {key}
    BY <1>6, <2>1 DEF KeysNow, WellFormed
  <2>4. ASSUME Undisturbed PROVE Undisturbed'
    <3>1. /\ check'.digest = Digest(check.ref)' /\ local'["key"] \in {None, kbsKey'}
          /\ \A r, j : j \in 1..(check'.i - 1) /\ r = check'.reqs[j] => Meets(r)'
          /\ Req' = Req /\ WellFormed(Req)' = WellFormed(Req) /\ KeysNow(Req)' = KeysNow(Req)
      BY <1>1, <2>2, <2>4, SameRequirement
    <3>. QED
      BY <1>6, <2>2, <2>3, <3>1 DEF Undisturbed
  <2>. QED
    BY <1>1, <2>2, <2>4, GoesOnVerdict DEF Checking
<1>. QED
  BY <1>2, <1>3, <1>4, <1>5, <1>6, RequirementCases

LEMMA TakeKeyVerdict == SignedInv /\ VerdictInv /\ TakeKey => VerdictInv'
<1>. SUFFICES ASSUME SignedInv, VerdictInv, TakeKey PROVE VerdictInv'
  OBVIOUS
<1>1. /\ check.pc = "key" /\ UNCHANGED <<client, registry, local>> /\ IsCheck(check)
      /\ check.pc \in Checking /\ chan.pc \in {"done", "failed"}
  BY DEF TakeKey, At, SignedInv, ListRight, Checking
<1>2. check.clean => Undisturbed /\ KeyGot
  BY <1>1 DEF VerdictInv, Undisturbed
<1>3. CASE chan.pc = "done"
  <2>1. PICK key : key = chan.data
    OBVIOUS
  <2>2. check' = [check EXCEPT !.pc = "signatures", !.key = key]
    BY <1>3, <2>1 DEF TakeKey
  <2>3. /\ SamePull /\ check'.digest = check.digest /\ check'.reqs = check.reqs /\ check'.out = check.out
        /\ check'.clean = check.clean /\ check'.pc = "signatures" /\ check'.i = check.i /\ check'.key = key
    BY <1>1, <2>2 DEF SamePull, IsCheck, CheckFields
  <2>4. ASSUME check.clean, Undisturbed PROVE Undisturbed'
    <3>1. /\ check'.digest = Digest(check.ref)' /\ local'["key"] \in {None, kbsKey'}
          /\ \A r, j : j \in 1..(check'.i - 1) /\ r = check'.reqs[j] => Meets(r)'
          /\ Req' = Req /\ WellFormed(Req)' = WellFormed(Req) /\ KeysNow(Req)' = KeysNow(Req)
      BY <1>1, <2>3, <2>4, SameRequirement
    <3>2. WellFormed(Req) /\ Req.type \in {"simple", "cosign"} /\ KeysNow(Req) = {key}
      BY <1>2, <1>3, <2>1, <2>4 DEF KeyGot
    <3>. QED
      BY <2>3, <3>1, <3>2 DEF Undisturbed
  <2>. QED
    BY <1>1, <2>3, <2>4, GoesOnVerdict DEF Checking
<1>4. CASE chan.pc # "done"
  <2>1. End("reject") /\ chan.pc = "failed"
    BY <1>1, <1>4 DEF TakeKey
  <2>2. check.clean => ~Meets(Req)
    BY <1>2, <2>1, NoKeyNoSignature DEF KeyGot
  <2>. QED
    BY <1>1, <2>1, <2>2, RejectVerdict
<1>. QED
  BY <1>3, <1>4

LEMMA SimpleSigningVerdict == SignedInv /\ BuiltInv /\ VerdictInv /\ SimpleSigning => VerdictInv'
<1>. SUFFICES ASSUME SignedInv, BuiltInv, VerdictInv, SimpleSigning PROVE VerdictInv'
  OBVIOUS
<1>1. /\ check.pc = "signatures" /\ Req.type = "simple" /\ UNCHANGED <<client, registry, local>>
      /\ check.pc \in Checking /\ IF SimpleAllows THEN Allowed ELSE End("reject")
  BY DEF SimpleSigning, At, Checking
<1>2. check.clean => WellFormed(Req) /\ KeysNow(Req) = {check.key}
  BY <1>1 DEF VerdictInv, Undisturbed
<1>3. boot = "ready" /\ Conf.policy # None /\ check.ref \in Images
  BY <1>1 DEF VerdictInv, InProgress, Live
<1>4. check.clean => (SimpleAllows <=> Meets(Req))
  BY <1>1, <1>2, <1>3, SimpleDecides
<1>5. CASE SimpleAllows
  BY <1>1, <1>4, <1>5, AllowedVerdict
<1>6. CASE ~SimpleAllows
  BY <1>1, <1>4, <1>6, RejectVerdict
<1>. QED
  BY <1>5, <1>6

LEMMA TriangulateVerdict == SignedInv /\ VerdictInv /\ Triangulate => VerdictInv'
<1>. SUFFICES ASSUME SignedInv, VerdictInv, Triangulate PROVE VerdictInv'
  OBVIOUS
<1>1. /\ check.pc = "signatures" /\ Req.type = "cosign" /\ UNCHANGED <<client, registry, local>>
      /\ IsCheck(check) /\ check.pc \in Checking
  BY DEF Triangulate, At, SignedInv, ListRight, Checking
<1>2. PICK d : d = Digest(check.ref)
  OBVIOUS
<1>3. check' = [check EXCEPT !.pc = "layers", !.source = d]
  BY <1>2 DEF Triangulate, Digest
<1>4. /\ SamePull /\ check'.digest = check.digest /\ check'.reqs = check.reqs /\ check'.out = check.out
      /\ check'.clean = check.clean /\ check'.pc = "layers" /\ check'.i = check.i
      /\ check'.key = check.key /\ check'.source = d
  BY <1>1, <1>3 DEF SamePull, IsCheck, CheckFields
<1>5. ASSUME Undisturbed PROVE Undisturbed'
  <2>1. /\ check'.digest = Digest(check.ref)' /\ local'["key"] \in {None, kbsKey'}
        /\ \A r, j : j \in 1..(check'.i - 1) /\ r = check'.reqs[j] => Meets(r)'
        /\ Req' = Req /\ WellFormed(Req)' = WellFormed(Req) /\ KeysNow(Req)' = KeysNow(Req)
    BY <1>1, <1>4, <1>5, SameRequirement
  <2>2. WellFormed(Req) /\ KeysNow(Req) = {check.key} /\ d = check.digest
    BY <1>1, <1>2, <1>5 DEF Undisturbed
  <2>. QED
    BY <1>1, <1>4, <2>1, <2>2 DEF Undisturbed
<1>. QED
  BY <1>1, <1>4, <1>5, GoesOnVerdict DEF Checking

LEMMA CosignVerdict == SignedInv /\ VerdictInv /\ Cosign => VerdictInv'
<1>. SUFFICES ASSUME SignedInv, VerdictInv, Cosign PROVE VerdictInv'
  OBVIOUS
<1>1. /\ check.pc = "layers" /\ UNCHANGED <<client, registry, local>>
      /\ check.pc \in Checking /\ IF CosignAllows THEN Allowed ELSE End("reject")
  BY DEF Cosign, At, Checking
<1>2. check.clean => /\ WellFormed(Req) /\ KeysNow(Req) = {check.key}
                     /\ Req.type = "cosign" /\ check.source = check.digest
  BY <1>1 DEF VerdictInv, Undisturbed
<1>3. check.clean => (CosignAllows <=> Meets(Req))
  BY <1>2, CosignDecides
<1>4. CASE CosignAllows
  BY <1>1, <1>3, <1>4, AllowedVerdict
<1>5. CASE ~CosignAllows
  BY <1>1, <1>3, <1>5, RejectVerdict
<1>. QED
  BY <1>4, <1>5

\* The steps of a check preserve what is known of its verdict.
LEMMA VerdictNext == SignedInv /\ BuiltInv /\ VerdictInv /\ [Next]_vars => VerdictInv'
<1>. SUFFICES ASSUME SignedInv, BuiltInv, VerdictInv, [Next]_vars PROVE VerdictInv'
  OBVIOUS
<1>1. CASE CheckLocal \/ Fetch \/ OpenLocal \/ FillLocal
  BY <1>1, ChannelVerdict
<1>2. CASE \/ LoadConfig \/ AskResource \/ TakeResource \/ BuildFails \/ MergeInline
           \/ \E f \in todo : MergeFile(f)
  <2>1. boot # "ready" /\ check' = check
    BY <1>2 DEF LoadConfig, AskResource, TakeResource, BuildFails, MergeInline, MergeFile, Stages
  <2>. QED
    BY <2>1, BuilderVerdict
<1>3. CASE \E ref \in Images, input \in setup.inputs : Start(ref, input)
  BY <1>3, StartVerdict
<1>4. CASE Select \/ Requirement \/ TakeKey \/ SimpleSigning \/ Triangulate \/ Cosign
  BY <1>4, SelectVerdict, RequirementVerdict, TakeKeyVerdict, SimpleSigningVerdict, TriangulateVerdict,
     CosignVerdict
<1>5. CASE GetFails \/ CheckFails \/ TagMoves \/ KeyRotates
  BY <1>5, DisturbedVerdict
<1>6. CASE Crash
  <2>1. check'.pc = "idle" /\ check'.out = None
    BY <1>6 DEF Crash, NoCheck
  <2>. QED
    BY <2>1, NoVerdictYet
<1>7. CASE UNCHANGED vars
  BY <1>7, UnchangedVerdict DEF vars
<1>. QED
  BY <1>1, <1>2, <1>3, <1>4, <1>5, <1>6, <1>7 DEF Next

\* The verdict is that of the policy.
LEMMA VerdictInvIsRight == SignedInv /\ VerdictInv => VerdictIsRight
<1>. SUFFICES ASSUME SignedInv, VerdictInv,
                     check.out # None, check.clean, check.cred # None, ~Conf.badCert, Conf.policy # None
              PROVE  Verdict(PolicyFor(check.ref))
  BY DEF VerdictIsRight, Verdict
<1>1. PICK ref : ref = check.ref
  OBVIOUS
<1>2. ref \in Images /\ setup \in Setups /\ setup.policy # Unreadable
  BY <1>1 DEF VerdictInv, InProgress, SignedInv, BuildRight
<1>3. PolicyFor(ref) = RequirementsForImage(ref)
  BY <1>2, PolicyFound
<1>. QED
  BY <1>1, <1>3 DEF VerdictInv, Live

\* check_image_signature: of an image whose check was not disturbed the verdict
\* is that of the most specific scope of the policy that covers it, and no
\* check before, whose key is still in the file, has changed it.
THEOREM VerdictAlwaysRight == Spec => []VerdictIsRight
<1>1. Init => SignedInv /\ BuiltInv /\ VerdictInv
  BY SignedInit, BuiltInit, VerdictInit
<1>2. SignedInv /\ BuiltInv /\ VerdictInv /\ [Next]_vars => (SignedInv /\ BuiltInv /\ VerdictInv)'
  BY SignedStep, BuiltNext, VerdictNext
<1>3. SignedInv /\ VerdictInv => VerdictIsRight
  BY VerdictInvIsRight
<1>. QED
  BY <1>1, <1>2, <1>3, PTL DEF Spec

=============================================================================

-------------------------- MODULE SignaturePolicy ---------------------------
(***************************************************************************)
(* image-rs: ClientBuilder::build, and the SignatureValidator it makes,    *)
(* which decides by the image security policy whether an image may be used.*)
(*                                                                         *)
(* A client is built once: it gets the registry credentials, the sigstore  *)
(* configuration and the policy, and adds to the configuration the files   *)
(* of a directory, which is read in any order.  A pull takes a credential; *)
(* the check of the image picks the requirements of the policy's scope for *)
(* the image and takes them one after the other.  What the KBS has given,  *)
(* a key or one of the client's own resources, is kept in a file for good. *)
(*                                                                         *)
(* The registry is not trusted and does not stand still: what the image's  *)
(* tag names may change between the pull of the manifest and the cosign    *)
(* client's own look at it.  Keys change in the KBS; the process may die.  *)
(***************************************************************************)
EXTENDS ClientConfig, FiniteSets

CONSTANTS
    Setups,        \* a client's configuration file and the resources it names
    Images,        \* the references that are pulled
    Digests,       \* manifest digests
    Malformed,     \* those Digest::try_from does not take
    Keys,          \* public keys
    Torn,          \* a file that was truncated and not filled
    GuestKey,      \* the key in the guest's own file system
    FileUrls,      \* the sigstore locations with the scheme "file"
    SimpleSigs,    \* the simple signatures at a location
    CosignSigs,    \* the cosign signatures in the registry
    MaxChecks, MaxMoves, MaxRotations, MaxFails, MaxCrashes   \* bounds

\* A policy that parses: lists of requirements, each of a known type.
RequirementTypes == {"accept", "reject", "simple", "cosign"}
IsRequirements(reqs) ==
    /\ reqs \in Seq({reqs[i] : i \in DOMAIN reqs})
    /\ \A i \in DOMAIN reqs : reqs[i].type \in RequirementTypes
IsPolicy(policy) ==
    /\ IsRequirements(policy.default)
    /\ \A scope \in DOMAIN policy.docker : IsRequirements(policy.docker[scope])

\* A name: it has a registry, which may have a port, and begins with no token
\* that only separators and wildcards have.  A scope is a text, too.
IsText(s) == s \in Seq({s[i] : i \in DOMAIN s})
IsName(name) ==
    /\ IsText(name) /\ name # <<>> /\ name[1] \notin {"/", "*"}
    /\ \A i, j \in 1..Len(name) : name[i] = ":" /\ name[j] = ":" => i = j
HasScopes(map) == \A scope \in DOMAIN map : scope # None /\ IsText(scope)

ASSUME SignaturePolicyAssumption ==
    /\ Malformed \subseteq Digests
    /\ {None, Torn} \cap (Keys \cup Digests) = {} /\ GuestKey \in Keys
    /\ None # Torn /\ None \notin {"accept", "reject", "error"}
    /\ \A url \in FileUrls : \A s \in SimpleSigs[url] : s.by \in Keys
    /\ \A s \in CosignSigs : s.by \in Keys
    /\ \A st \in Setups :
          /\ st.policy # Unreadable => IsPolicy(st.policy)
          /\ st.registry # None => \A s \in st.registry : s.by \in Keys

\* What is absent, torn or does not parse is told from what is there.
ASSUME ContentAssumption ==
    /\ None # Unreadable /\ Torn # Unreadable /\ None \notin FileUrls
    /\ \A ref \in Images : IsName(ref.name)
    /\ \A st \in Setups :
          /\ Torn # st.auths /\ Torn # st.sigstore /\ Torn # st.policy
          /\ st.policy # Unreadable => HasScopes(st.policy.docker)
          /\ st.auths # Unreadable /\ st.auths # None => HasScopes(st.auths)
          /\ \A f \in st.files : HasScopes(f.docker)
          /\ st.sigstore # Unreadable /\ st.sigstore # None => HasScopes(st.sigstore.docker)
          /\ ConfigFrom(st.file) # None /\ ConfigFrom(st.file).sigstore # None => st.sigstore # None

VARIABLES
    setup,     \* the configuration file, the resources, the registry's extension,
               \* and the credentials a caller may give (None: none)
    boot,      \* how far ClientBuilder::build is
    inline,    \* the sigstore configuration as it was got
    config,    \* the merged sigstore configuration
    todo,      \* the configuration files not yet read
    chan,      \* the SecureChannel: the resource that is being got
    check,     \* the pull and its check in progress
    tagged,    \* the digest every tag of the registry names now
    kbsKey,    \* the key the KBS has now
    local,     \* the file each resource of the KBS is kept in
    given,     \* (history) the keys the KBS has given
    checks, moves, rotations, fails, crashes

registry == <<tagged, kbsKey>>
client == <<setup, boot, inline, config, todo>>
bounds == <<checks, moves, rotations, fails, crashes>>
vars == <<client, chan, check, registry, local, given, bounds>>

Stages == {"auth", "sigstore", "policy"}
EmptyConfig == [default |-> None, docker |-> <<>>]
NoCheck == [pc |-> "idle", ref |-> None, input |-> None, cred |-> None, digest |-> None,
            reqs |-> <<>>, i |-> 0, key |-> None, source |-> None, out |-> None, clean |-> TRUE]
Idle == [pc |-> "idle", name |-> None, data |-> None]

Init ==
    /\ setup \in Setups
    /\ boot = "config" /\ inline = None /\ config = EmptyConfig /\ todo = setup.files
    /\ chan = Idle /\ check = NoCheck
    /\ tagged \in Digests /\ kbsKey \in Keys
    /\ local = [name \in Stages \cup {"key"} |-> None]
    /\ given = {}
    /\ checks = 0 /\ moves = 0 /\ rotations = 0 /\ fails = 0 /\ crashes = 0

Fail == fails < MaxFails /\ fails' = fails + 1

-----------------------------------------------------------------------------
(* ResourceProvider and SecureChannel::get_resource.                        *)

Content(name) ==
    CASE name = "auth" -> setup.auths [] name = "sigstore" -> setup.sigstore
      [] name = "policy" -> setup.policy [] name = "key" -> kbsKey

\* By the scheme of the URI; the guest's own key is in its own file.
GetResource(name, uri) ==
    chan' = CASE Scheme(uri) = "kbs" -> [Idle EXCEPT !.pc = "checkLocal", !.name = name]
              [] Scheme(uri) = "file" ->
                   [pc |-> "done", name |-> name,
                    data |-> IF name = "key" THEN GuestKey ELSE Content(name)]
              [] OTHER -> [Idle EXCEPT !.pc = "failed", !.name = name]

CheckLocal ==
    /\ chan.pc = "checkLocal"
    /\ chan' = IF local[chan.name] # None
                 THEN [chan EXCEPT !.pc = "done", !.data = local[chan.name]]
                 ELSE [chan EXCEPT !.pc = "fetch"]
    /\ UNCHANGED <<client, check, registry, local, given, bounds>>

Fetch ==
    /\ chan.pc = "fetch"
    /\ chan' = [chan EXCEPT !.pc = "open", !.data = Content(chan.name)]
    /\ given' = IF chan.name = "key" THEN given \cup {kbsKey} ELSE given
    /\ UNCHANGED <<client, check, registry, local, bounds>>

\* fs::write truncates and fills.
OpenLocal ==
    /\ chan.pc = "open"
    /\ local' = [local EXCEPT ![chan.name] = Torn]
    /\ chan' = [chan EXCEPT !.pc = "fill"]
    /\ UNCHANGED <<client, check, registry, given, bounds>>

FillLocal ==
    /\ chan.pc = "fill"
    /\ local' = [local EXCEPT ![chan.name] = chan.data]
    /\ chan' = [chan EXCEPT !.pc = "done"]
    /\ UNCHANGED <<client, check, registry, given, bounds>>

\* The service does not answer, or the file cannot be written.
GetFails ==
    /\ chan.pc \in {"fetch", "open", "fill"} /\ Fail
    /\ chan' = [chan EXCEPT !.pc = "failed"]
    /\ check' = [check EXCEPT !.clean = FALSE]
    /\ UNCHANGED <<client, registry, local, given, checks, moves, rotations, crashes>>

-----------------------------------------------------------------------------
(* ClientBuilder::build.                                                    *)

Conf == ConfigFrom(setup.file)

LoadConfig ==
    /\ boot = "config"
    /\ boot' = IF Conf = None THEN "failed" ELSE "auth"
    /\ UNCHANGED <<setup, inline, config, todo, chan, check, registry, local, given, bounds>>

After(stage) ==
    CASE stage = "auth" -> "sigstore" [] stage = "sigstore" -> "policy" [] stage = "policy" -> "ready"

\* Credentials, sigstore configuration and policy, each if it has a URI.
AskResource ==
    /\ boot \in Stages /\ chan.pc = "idle"
    /\ IF Conf[boot] = None
         THEN boot' = After(boot) /\ UNCHANGED chan
         ELSE GetResource(boot, Conf[boot]) /\ UNCHANGED boot
    /\ UNCHANGED <<setup, inline, config, todo, check, registry, local, given, bounds>>

\* The sigstore configuration is parsed with the policy, and not without one.
\* An empty file is no JSON; as YAML it is a configuration that says nothing.
Parses(data) == data \notin {Unreadable, Torn}
ParsesAsYaml(data) == data # Unreadable
SigstoreOf(data) == IF data = Torn THEN EmptyConfig ELSE data

TakeResource ==
    /\ boot \in Stages /\ chan.pc = "done"
    /\ chan' = Idle
    /\ inline' = IF boot = "sigstore" THEN chan.data ELSE inline
    /\ boot' = CASE boot = "auth" -> IF Parses(chan.data) THEN "sigstore" ELSE "failed"
                 [] boot = "sigstore" -> "policy"
                 [] boot = "policy" -> IF ~Parses(chan.data) \/ ~ParsesAsYaml(inline) THEN "failed"
                                       ELSE IF inline = None THEN "ready" ELSE "files"
    /\ UNCHANGED <<setup, config, todo, check, registry, local, given, bounds>>

BuildFails ==
    /\ boot \in Stages /\ chan.pc = "failed"
    /\ boot' = "failed" /\ chan' = Idle
    /\ UNCHANGED <<setup, inline, config, todo, check, registry, local, given, bounds>>

-----------------------------------------------------------------------------
(* SignatureValidator::new: the configuration.                              *)

\* Two values for one thing.
Conflict(a, b) ==
    \/ a.default # None /\ b.default # None /\ a.default # b.default
    \/ \E ns \in DOMAIN a.docker \cap DOMAIN b.docker : a.docker[ns] # b.docker[ns]

\* SigstoreConfig::update_self without its error.
Union(a, b) ==
    [default |-> IF b.default # None THEN b.default ELSE a.default,
     docker |-> [ns \in DOMAIN a.docker \cup DOMAIN b.docker |->
                   IF ns \in DOMAIN a.docker THEN a.docker[ns] ELSE b.docker[ns]]]

UpdateSelfOverrides(old, input, next) ==
    /\ config' = Union(old, input)
    /\ boot' = next
UpdateSelf(old, input, next) ==
    IF Conflict(old, input)
      THEN boot' = "failed" /\ UNCHANGED config
      ELSE config' = Union(old, input) /\ boot' = next

\* new_from_configs merges the files, in the order of the directory ...
MergeFile(f) ==
    /\ boot = "files" /\ f \in todo
    /\ todo' = todo \ {f}
    /\ UpdateSelf(config, f, "files")
    /\ UNCHANGED <<setup, inline, chan, check, registry, local, given, bounds>>

\* ... and update_from_path adds the result to what the KBS gave.
MergeInline ==
    /\ boot = "files" /\ todo = {}
    /\ UpdateSelf(SigstoreOf(inline), config, "ready")
    /\ UNCHANGED <<setup, inline, todo, chan, check, registry, local, given, bounds>>

-----------------------------------------------------------------------------
(* check_image_signature.                                                   *)

At(pc) == check.pc = pc
End(out) == check' = [check EXCEPT !.pc = "idle", !.out = out]

Req == check.reqs[check.i]

\* SigPayload: the digest that was signed, and the reference it was signed for.
SignedDigest(s) == s.digest = check.digest
SignedReference(rule, s) == Matches(rule, check.ref, s.ref)

\* pull_image: a credential, a client for the registry, the manifest; without
\* a policy there is nothing to check.
RegistryAuth == IF Conf.auth = None THEN None ELSE setup.auths
Start(ref, input) ==
    /\ boot = "ready" /\ At("idle") /\ checks < MaxChecks
    /\ checks' = checks + 1
    /\ \E cred \in AuthFor(ref, input, RegistryAuth) :
        LET begun == [NoCheck EXCEPT !.ref = ref, !.input = input, !.cred = cred,
                          !.clean = local["key"] \in {None, kbsKey}]
        IN check' =
             IF cred = None \/ Conf.badCert THEN [begun EXCEPT !.out = "error"]
             ELSE [begun EXCEPT
                     !.digest = IF ref.digest # None THEN ref.digest ELSE tagged,
                     !.pc = IF Conf.policy = None THEN "idle" ELSE "select",
                     !.out = IF Conf.policy = None THEN "accept" ELSE None]
    /\ UNCHANGED <<client, chan, registry, local, given, moves, rotations, fails, crashes>>

\* Policy::requirements_for_image: the whole reference, its namespaces, the
\* transport's own default, the policy's default.
RequirementsForImage(ref) ==
    LET scope == FirstIn(<<Whole(ref)>> \o Namespaces(ref) \o <<<<>>>>, setup.policy.docker)
    IN IF scope = None THEN setup.policy.default ELSE setup.policy.docker[scope]

\* Digest::try_from takes it: a known algorithm and hex digits of its length.
IsDigest(d) == d \notin Malformed

Select ==
    /\ At("select")
    /\ LET reqs == RequirementsForImage(check.ref)
       IN check' = IF ~IsDigest(check.digest) \/ reqs = <<>>
                     THEN [check EXCEPT !.reqs = reqs, !.pc = "idle", !.out = "reject"]
                     ELSE [check EXCEPT !.reqs = reqs, !.pc = "req", !.i = 1]
    /\ UNCHANGED <<client, chan, registry, local, given, bounds>>

\* This requirement is met: the next one, or the image is allowed.
Allowed ==
    IF check.i < Len(check.reqs)
      THEN check' = [check EXCEPT !.pc = "req", !.i = @ + 1, !.key = None]
      ELSE End("accept")

\* check_reference_rule_types: cosign signatures name a repository only.
CosignRules == {"matchRepository", "exactRepository"}

\* What can be said of a requirement before a key is looked for.
WellFormed(req) ==
    /\ req.type = "simple" => req.gpg
    /\ req.type = "cosign" => req.rule = None \/ req.rule.type \in CosignRules
    /\ (req.path # None) # (req.data # None)

Requirement ==
    /\ At("req")
    /\ CASE Req.type = "accept" -> Allowed /\ UNCHANGED chan
         [] Req.type = "reject" -> End("reject") /\ UNCHANGED chan
         [] Req.type \in {"simple", "cosign"} ->
              IF ~WellFormed(Req) THEN End("reject") /\ UNCHANGED chan
              ELSE IF Req.path # None
                THEN GetResource("key", Req.path) /\ check' = [check EXCEPT !.pc = "key"]
                ELSE /\ check' = [check EXCEPT !.pc = "signatures", !.key = Req.data]
                     /\ UNCHANGED chan
    /\ UNCHANGED <<client, registry, local, given, bounds>>

TakeKey ==
    /\ At("key") /\ chan.pc \in {"done", "failed"}
    /\ IF chan.pc = "done" THEN check' = [check EXCEPT !.pc = "signatures", !.key = chan.data]
                           ELSE End("reject")
    /\ chan' = Idle
    /\ UNCHANGED <<client, registry, local, given, bounds>>

-----------------------------------------------------------------------------
(* Simple signing.                                                          *)

\* SigstoreConfig::base_url.
BaseUrl(ref) ==
    LET ns == FirstIn(<<Whole(ref)>> \o Namespaces(ref), config.docker)
    IN IF ns = None THEN config.default ELSE config.docker[ns]

\* format_sigstore_name: the directory is named without the registry.
Repository(name) == SubSeq(name, Head(Cuts(name, "/")) + 1, Len(name))
SigstoreName(ref, digest) == <<Repository(ref.name), digest>>

\* get_signatures_from_registry, of a registry with the extension: it wants a
\* credential, and every signature has to be one in base64.
AtImage(sigs) == {s \in sigs : s.at = SigstoreName(check.ref, check.digest)}
RegistryFails ==
    setup.registry # None /\ (check.cred = Anonymous \/ \E s \in AtImage(setup.registry) : ~s.base64)
RegistrySigs == IF setup.registry = None THEN {} ELSE AtImage(setup.registry)

\* get_signatures: the registry's and, if anything is configured, the files of
\* the image's directory, which has to be there.  An error gives none.
Signatures ==
    LET url == BaseUrl(check.ref)
        dir == IF url \in FileUrls THEN AtImage(SimpleSigs[url]) ELSE {}
    IN CASE inline = None \/ RegistryFails -> {}
         [] inline # None /\ ~RegistryFails /\ config = EmptyConfig -> RegistrySigs
         [] inline # None /\ ~RegistryFails /\ config # EmptyConfig ->
              IF dir = {} THEN {} ELSE RegistrySigs \cup dir

\* judge_single_signature: the key verifies it and is the one it names, the
\* reference is as the rule demands, and the digest is the image's.
SimpleRule(req) == IF req.rule = None THEN [type |-> "matchRepoDigestOrExact"] ELSE req.rule
Judge(req, s) ==
    /\ s.by = check.key /\ s.issuer = s.by
    /\ SignedReference(SimpleRule(req), s)
    /\ SignedDigest(s)

\* One accepted signature is enough.
SimpleAllows == \E s \in Signatures : Judge(Req, s)

SimpleSigning ==
    /\ At("signatures") /\ Req.type = "simple"
    /\ IF SimpleAllows THEN Allowed ELSE End("reject")
    /\ UNCHANGED <<client, chan, registry, local, given, bounds>>

-----------------------------------------------------------------------------
(* Cosign.                                                                  *)

\* triangulate asks the registry for the digest again ...
Triangulate ==
    /\ At("signatures") /\ Req.type = "cosign"
    /\ check' = [check EXCEPT !.pc = "layers",
                     !.source = IF check.ref.digest # None THEN check.ref.digest ELSE tagged]
    /\ UNCHANGED <<client, chan, registry, local, given, bounds>>

\* ... and the client gives the signatures it finds there for that digest, by
\* whomever.  One has to be by the key, and every payload has to be of the image.
Layers == {s \in CosignSigs : s.at = check.source /\ s.digest = check.source}
CosignAllowsAnyDigest ==
    /\ \E s \in Layers : s.by = check.key
    /\ \A s \in Layers : Req.rule # None => SignedReference(Req.rule, s)
CosignAllows ==
    /\ \E s \in Layers : s.by = check.key
    /\ \A s \in Layers :
          /\ Req.rule # None => SignedReference(Req.rule, s)
          /\ SignedDigest(s)

Cosign ==
    /\ At("layers")
    /\ IF CosignAllows THEN Allowed ELSE End("reject")
    /\ UNCHANGED <<client, chan, registry, local, given, bounds>>

-----------------------------------------------------------------------------
(* The surroundings.                                                        *)

\* The registry or a file of signatures cannot be read: an error is a refusal.
CheckFails ==
    /\ check.pc \in {"signatures", "layers"} /\ Fail
    /\ check' = [check EXCEPT !.pc = "idle", !.out = "reject", !.clean = FALSE]
    /\ UNCHANGED <<client, chan, registry, local, given, checks, moves, rotations, crashes>>

TagMoves ==
    /\ moves < MaxMoves /\ moves' = moves + 1
    /\ \E d \in Digests \ {tagged} : tagged' = d
    /\ check' = [check EXCEPT !.clean = FALSE]
    /\ UNCHANGED <<client, chan, kbsKey, local, given, checks, rotations, fails, crashes>>

KeyRotates ==
    /\ rotations < MaxRotations /\ rotations' = rotations + 1
    /\ \E k \in Keys \ {kbsKey} : kbsKey' = k
    /\ check' = [check EXCEPT !.clean = FALSE]
    /\ UNCHANGED <<client, chan, tagged, local, given, checks, moves, fails, crashes>>

\* The process dies; the files stay as they are, and a new client is built.
Crash ==
    /\ crashes < MaxCrashes /\ crashes' = crashes + 1
    /\ chan' = Idle /\ check' = NoCheck
    /\ boot' = "config" /\ inline' = None /\ config' = EmptyConfig /\ todo' = setup.files
    /\ UNCHANGED <<setup, registry, local, given, checks, moves, rotations, fails>>

-----------------------------------------------------------------------------
Next ==
    \/ CheckLocal \/ Fetch \/ OpenLocal \/ FillLocal \/ GetFails
    \/ LoadConfig \/ AskResource \/ TakeResource \/ BuildFails
    \/ MergeInline \/ \E f \in todo : MergeFile(f)
    \/ \E ref \in Images, input \in setup.inputs : Start(ref, input)
    \/ Select \/ Requirement \/ TakeKey \/ SimpleSigning \/ Triangulate \/ Cosign
    \/ CheckFails \/ TagMoves \/ KeyRotates \/ Crash

Spec == Init /\ [][Next]_vars

-----------------------------------------------------------------------------
(* Properties.                                                              *)

\* What a scope means, said of the scope and not of the order of a search: it
\* is the reference itself, or a path above it, or a domain its host is in.
HostEnd(name) == CHOOSE k \in 0..Len(name) :
    /\ \A j \in 1..k : name[j] \notin {"/", ":"}
    /\ k < Len(name) => name[k + 1] \in {"/", ":"}
IsPath(scope, name) ==
    /\ scope # <<>> /\ IsPrefix(scope, name)
    /\ Len(scope) < Len(name) => name[Len(scope) + 1] = "/"
IsDomain(scope, name) ==
    \E i \in 1..HostEnd(name) :
        name[i] = "." /\ scope = <<"*", ".">> \o SubSeq(name, i + 1, HostEnd(name))
Rank(scope, ref) ==
    IF scope = Whole(ref) THEN 3
    ELSE IF IsPath(scope, ref.name) THEN 2
    ELSE IF IsDomain(scope, ref.name) THEN 1 ELSE 0
MostSpecific(ref, scopes) == CHOOSE s \in scopes : \A t \in scopes :
    Rank(s, ref) > Rank(t, ref) \/ (Rank(s, ref) = Rank(t, ref) /\ Len(s) >= Len(t))
CoveringScopes(ref, map) == {s \in DOMAIN map : Rank(s, ref) > 0}

PolicyFor(ref) ==
    LET scopes == CoveringScopes(ref, setup.policy.docker)
                    \cup ({<<>>} \cap DOMAIN setup.policy.docker)
    IN IF scopes = {} THEN setup.policy.default
       ELSE setup.policy.docker[MostSpecific(ref, scopes)]

\* What the sigstore configurations say together: the files, and what the KBS
\* gave, of which nothing is left if the copy of it was torn.
AllConfigs == setup.files \cup (IF inline = Torn THEN {} ELSE {setup.sigstore})
Agree == \A a, b \in AllConfigs : ~Conflict(a, b)
IsUnion ==
    /\ config.default = None <=> \A a \in AllConfigs : a.default = None
    /\ \A a \in AllConfigs : a.default \in {None, config.default}
    /\ DOMAIN config.docker = UNION {DOMAIN a.docker : a \in AllConfigs}
    /\ \A a \in AllConfigs : \A ns \in DOMAIN a.docker : config.docker[ns] = a.docker[ns]

\* A reason for a client not to be built: one that stays, or a fault.
Named == {stage \in Stages : Conf[stage] # None}
Signing == Conf.policy # None /\ Conf.sigstore # None
BadResource(stage) ==
    \/ Conf[stage] \notin {"none", "file", "kbs"}
    \/ stage # "sigstore" /\ (Content(stage) = Unreadable \/ local[stage] = Torn)
    \/ stage = "sigstore" /\ Signing /\ Content(stage) = Unreadable /\ inline # Torn
Unbuildable ==
    \/ Conf = None
    \/ \E stage \in Named : BadResource(stage)
    \/ Signing /\ ~Agree

\* The credential a pull shows: the caller's, the one of the longest path that
\* the image is under, one of the registry's, or none.
RightCredential ==
    LET auths == RegistryAuth
        paths == {k \in DOMAIN auths : IsPath(k, check.ref.name)}
        hosts == {k \in DOMAIN auths : NormalizeKey(k) = NormalizeRegistry(ResolveRegistry(check.ref))}
    IN CASE check.input # None -> check.cred = check.input
         [] check.input = None /\ auths = None -> check.cred = Anonymous
         [] check.input = None /\ auths # None ->
              IF paths # {} THEN \E k \in paths : check.cred = auths[k] /\ \A l \in paths : Len(l) <= Len(k)
              ELSE IF hosts # {} THEN check.cred \in {auths[k] : k \in hosts}
              ELSE check.cred = Anonymous

\* ClientBuilder::build: whatever order the directory is read in, a client has
\* all that the files and the KBS say, and it is refused only when two of them
\* contradict each other or a resource is bad; also credentials or a policy that
\* an earlier client has kept and a crash has torn, which no later build gets
\* anew.  The exception is a sigstore configuration so torn: the client is built
\* from the files alone, and all that the KBS has said is lost; that never
\* happens unless a process has died.  To a registry the client shows the
\* credential that is meant for the image.
ClientIsConfigured ==
    /\ boot = "failed" => Unbuildable \/ fails > 0
    /\ boot = "ready" => ~Unbuildable /\ (Signing => IsUnion)
    /\ inline = Torn => crashes > 0
    /\ check.cred # None => RightCredential

\* A signature of the image, by a key the requirement trusts, for a reference
\* that the requirement's rule matches.  Without a rule, a simple requirement has
\* a default one, but a cosign requirement has none: a signature for any other
\* reference will do, although CosignParameters names match-exact as the default.
\* A key of the KBS is one the KBS has given, even if it has another one by now.
TrustedKeys(req) ==
    IF req.data # None THEN {req.data} ELSE IF Scheme(req.path) = "file" THEN {GuestKey} ELSE given
IsSignatureOf(s, req, keys) ==
    /\ s.by \in keys
    /\ s.digest = check.digest
    /\ CASE req.type = "simple" -> Matches(SimpleRule(req), check.ref, s.ref)
         [] req.type = "cosign" -> req.rule # None => Matches(req.rule, check.ref, s.ref)
AllSigs(req) ==
    IF req.type = "cosign" THEN CosignSigs
    ELSE (UNION {SimpleSigs[u] : u \in FileUrls}) \cup (IF setup.registry = None THEN {} ELSE setup.registry)

Met(req) ==
    /\ req.type # "reject"
    /\ req.type \in {"simple", "cosign"} =>
          \E s \in AllSigs(req) : IsSignatureOf(s, req, TrustedKeys(req))

\* check_image_signature: an image is accepted only if, for every requirement
\* that asks for a signature, a trusted key has signed the very digest that
\* was pulled, and for a reference that the requirement's rule matches, if it is
\* a simple one or has a rule; for a cosign requirement without a rule nothing is
\* said of the reference.  It holds also if the tag has moved between the pull
\* and the look at the signatures, a key has changed, its file is torn by a
\* crash, or the registry or the KBS has failed on the way.
AcceptedIsSigned ==
    check.out = "accept" /\ Conf.policy # None =>
        \A i \in 1..Len(check.reqs) : Met(check.reqs[i])

\* A requirement that the image meets, in a world that stands still.
Location(ref) ==
    LET scopes == CoveringScopes(ref, config.docker)
    IN IF scopes = {} THEN config.default ELSE config.docker[MostSpecific(ref, scopes)]
\* A path with another scheme than "file" and "kbs" leads to no key.
KeysNow(req) ==
    IF req.data # None THEN {req.data}
    ELSE CASE Scheme(req.path) = "file" -> {GuestKey} [] Scheme(req.path) = "kbs" -> {kbsKey}
           [] OTHER -> {}
\* Simple signatures are looked for in the registry, if it has the extension,
\* and in the image's directory; a registry that will not answer, or a missing
\* directory, spoils the others.
Found(sigs) == {s \in sigs : s.at = SigstoreName(check.ref, check.digest)}
SimpleStore == IF Location(check.ref) \in FileUrls THEN Found(SimpleSigs[Location(check.ref)]) ELSE {}
Store == IF setup.registry = None THEN {} ELSE Found(setup.registry)
Usable ==
    /\ Signing
    /\ setup.registry # None => check.cred # Anonymous /\ \A s \in Store : s.base64
    /\ config = EmptyConfig \/ SimpleStore # {}
Meets(req) ==
    CASE req.type = "accept" -> TRUE
      [] req.type = "reject" -> FALSE
      [] req.type = "simple" ->
           /\ WellFormed(req) /\ Usable
           /\ \E s \in Store \cup SimpleStore :
                  s.issuer = s.by /\ IsSignatureOf(s, req, KeysNow(req))
      [] req.type = "cosign" ->
           /\ WellFormed(req)
           /\ \E s \in CosignSigs :
                  s.at = check.digest /\ IsSignatureOf(s, req, KeysNow(req))
           /\ req.rule # None =>
                \A s \in CosignSigs : s.at = check.digest /\ s.digest = check.digest =>
                    Matches(req.rule, check.ref, s.ref)

\* check_image_signature: with no fault, no move of a tag and no change of a
\* key, the verdict is that of the most specific scope of the policy that
\* covers the image, so a narrow "reject" is never passed over for a wide
\* "accept", whatever ports and domains the host's name has.  One good simple
\* signature is enough, whatever else is in the directory; an earlier check,
\* whose key is still in the file, does not change the verdict of a later one.
VerdictIsRight ==
    check.out # None /\ check.clean /\ check.cred # None /\ ~Conf.badCert /\ Conf.policy # None =>
        LET reqs == PolicyFor(check.ref)
        IN check.out = "accept" <=>
             /\ check.digest \notin Malformed /\ reqs # <<>>
             /\ \A i \in 1..Len(reqs) : Meets(reqs[i])
=============================================================================

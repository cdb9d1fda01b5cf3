# Guest components: a TLA+ verification project

The guest components run inside a confidential virtual machine (CVM): an
attestation agent proves to a key broker what the guest is, a data hub fetches
the secrets and images that proof earns, and `image-rs` turns image references
into mounted bundles. This fork splits the last task over two CVMs: an *image
CVM* pulls an image, packs its rootfs into one file and shares the pages with
the *runtime CVM*, which mounts them.

Paths below are relative to the repository (`src/...` in `PROJECT.json`).
`PROJECT.json` gives, for each definition, the lines it stands for.

## 1. Inventory

| Part | State it keeps | Operations | What is hard |
|---|---|---|---|
| Event log (AAEL), `attestation-agent/.../eventlog` | a file in `/run`, the measurement registers, a mutex | `EventLog::new`, `extend_init_entry`, `extend_entry` | two stores written one after the other; crash or failure between them; the repair at start-up |
| Agent and attesters, `attestation-agent/{attestation-agent,attester}` | platform, initdata binding, TSM directories, device files | start-up, `GetEvidence`, `GetToken`, `BindInitData` | requests without a lock over global device state; log and quote read at different times |
| Image CVM server, `hub/src/bin/vsock-ttrpc-server.rs`, `image-rs/src/shared_rootfs.rs` | cache entries, temporary files, bundle index, pending files, image files, digest sidecars, RMM shares | `prepare_rootfs_response` on the tonic and on the fast port | concurrent requests with files as the only coordination; files that outlive a crash; polling with a timeout |
| Runtime CVM pull, `image-rs/src/image.rs` (`guest_pull_image`), `vsock_ttrpc_client` | three statics (stream, prefetched answer, lock), one block device, the bundle's mounts, `config.json` | pull, prefetch, preconnect | values that are stale when used; four commands of which any may fail; restarts of either side |
| Image pull, `image-rs/src/{image,pull,layer_store,meta_store,bundle}.rs`, `nydus/` | layer and image database in memory and in `meta_store.json`, layer directories, mounts, nydus daemons | `pull_image`, layer tasks | layers complete in any order and are retried; one failure drops the others; restart with directories nobody names |
| Layer handling, `image-rs/src/{pull,decrypt,decoder,stream,unpack}`, `ocicrypt-rs`, `coco_keyprovider` | the layer's directory, cipher state, wrapped keys | encrypt, wrap, unwrap, decrypt, decompress, unpack, verify | entries are unpacked before they are verified; order of entries; publisher and guest must agree |
| Client builder and signature policy, `image-rs/src/{builder,config,auth,resource,signature}` | policy, merged sigstore configuration, credentials, kept resource files | `ClientBuilder::build`, `check_image_signature` | which scope or credential wins; a tag that is resolved twice; files that a crash tears and a rotation outdates |
| RCAR client, `kbs_protocol/src/client/rcar_client.rs`, `deps/crypto` | key pair, token, session cookie | `get_token`, `get_resource` | three nested retry loops, a request lost after the server acted on it, expiry, damaged responses |
| Token client, `kbs_protocol/src/client/token_client.rs`, `token_provider/aa` | token and key of the hub's client | `get_resource`, the agent's `GetToken` | the wait ends before the agent's work does: orphans beside current requests |
| Hub, `confidential-data-hub/{hub,kms}` | the KBS client and the image client, each behind a mutex; mounts, password and key files, credential files | start-up, resources, sealed secrets, key unwrapping, secure mounts, image pulls | a mutex held across awaits; a pull that calls its own hub; commands that outlive a dropped handler |
| REST server, `api-server-rest` | a router behind a mutex | forward to hub and agent | one slow request holds all |

How they meet: the runtime's pull (RuntimeShare) asks the image CVM's server
(SharedRootfs), which has the hub's image client pull the image (ImagePull).
Each layer goes through LayerPipeline; the policy, keys and credentials the
pull needs (SignaturePolicy) come from the hub (DataHub) over its client
(TokenClient), which takes its tokens from the agent (Agent), which runs the
handshake (RcarClient). The event log (EventLog) is part of the agent and is
what its evidence is replayed against. The REST server (ApiServer) stands in
front of the hub.

What makes each part correct is in the table of runs below; what can go wrong
in each is listed, at the line where it bites, under `hazards` in
`PROJECT.json`.

## 2. Modules

`MC<module>` gives TLC the constants that a cfg cannot write, and the symmetry.
No cfg replaces a definition. Compositions: Agent extends EventLog; DataHub
extends TokenClient and Secrets and takes the packets of KeyWrap; ApiServer
extends DataHub; LayerPipeline extends KeyWrap and Unpack; RcarClient extends
TeeKeys; SignaturePolicy extends References and ClientConfig.

**EventLog** models the file and the registers, which outlive the agent
process. A register is the sequence of digests it was extended with (a
collision-free hash). `CreateLog`, `OpenEmptyLog`, `CheckLog` are the cases of
`EventLog::new`; `RecoverExtend` the repair; `AppendInit`/`ExtendInit` the two
writes of `extend_init_entry`, `AppendEntry`/`ExtendEntry` those of
`extend_entry`, under the mutex. Each write may fail and the agent may die
between any two. The parser's trimming of a line is modelled by the set
`Padded`: the digest read back of such a line is another one. Only the content
of an event is checked for a newline (`Multiline`: refused). A newline in its
domain or operation is accepted; one `writeln!` then leaves several lines in the
file (`Pieces`, `FileLines`) while one digest, that of the whole, is extended.
The history variable `disturbed` records what the start-up check cannot undo.

**Agent** puts the process around the log: `DetectTeeType` in the code's order,
`BindInitData` (TDX and SNP compare, the vTPMs extend PCR 8), then the log, then
requests. `GetEvidence` is a program counter over what each attester does with
shared devices: the TSM report's configfs directory (`TsmReportPathNew`,
`WriteInblob`, `ReadOutblob`, `CheckInblobWriteRace`, and `OtherWrites` of
another process), Gramine's two pseudo files, the one-call attesters. `Collect`
reads the log after the quote was taken. Data is the request it came from and
its length.

**SharedRootfs** models one request of the image CVM's server as a program
counter over the file operations of `prepare_rootfs_response` and
`prepare_shared_rootfs_cache_from_bundle`; several requests interleave at every
file operation but one: the write of a bundle index (temporary file and rename)
is one step, since two of them at once leave the entry of one or an unreadable
one, which reads as none. Temporary files are tracked by what a file descriptor
refers to after another request's rename, so that torn and overwritten entries
occur. An image file is absent, partial or complete; a format with a fixed size
has its size while it is partial. A digest sidecar is recognised by size and
mtime. A *world* says which references have one image and which have one
sanitised name. A failing pull, mkfs, share, mark, index or entry write, a
cancelled handler and a crash of the server are actions.

**RuntimeShare** models `guest_pull_image` and the fast client. The image CVM
appears as an epoch that a restart increments (connections and shares of an
older epoch are dead) and as answers with a number each. Mount points are
stacks, so that mounting twice shows. Whether a mounted device lets itself be
destroyed is left open, as the driver is not part of the repository.

**ImageStore** says what `pull_image` promises: every bundle handed out is made
of the layers that the image's manifest lists, each once, none above one that
the manifest has only above it, of an image the policy accepts. For a manifest
that repeats no layer that is the manifest's list. The code keeps less than its
comment "will be ready" in two cases, which the module states as exceptions: of
a layer that the manifest repeats the place may be any of its places (the code
keeps the first, an overlay should have the last), and the bundle of a nydus
image whose daemon did not start is empty.
**ImagePull** is the algorithm: manifest, signature check, concurrent layer
tasks (`buffer_unordered`) with retries, layer directories numbered by
`layers_index`, the meta store in memory and on disk, the overlay mount, or the
nydus daemon. Its `Abstract` instance is the refinement mapping, checked as
`ImplementsImageStore`. Layer contents are identities: a directory holds a
layer, a part of it, or something else.

**Unpack** is `unpack.rs` over a small tree: entries in order, whiteouts and
opaque markers as overlayfs reads them, attributes, the times of directories
last. The tar and file system operations it calls are external. **KeyWrap** is
the wrapping of a layer's key by JWE or a key provider, `coco_keyprovider`'s
`WrapKey` and the hub's unwrapping of both packet versions. **LayerPipeline**
composes them: a publisher encrypts block by block and finalises, or adds a
recipient (`Rewrap`); the registry may damage, cut or replace bytes; the guest
decrypts, decompresses, hashes and unpacks entry by entry and only then
verifies. Its reference definition of the result is the changeset the image
specification describes.

**References** has image references as sequences of tokens, the namespaces that
`get_image_namespaces` walks, and the rules of `matches_docker_reference`.
**ClientConfig** has the configuration's checks and the choice of a registry
credential. **SignaturePolicy** builds the client (each resource fetched, kept
and read back), merges the files of the sigstore directory in any order, then
checks an image: the scope's requirements one after the other, the key from the
policy, a guest's file or the KBS with its local copy, simple signatures from a
directory or the registry's extension, cosign signatures through a second look
at the tag (`Triangulate`). Around it tags move, keys rotate, requests fail and
the process dies.

**TeeKeys** is the TEE key pair and the encrypted response, with cryptography
as records and the lengths the code depends on. **RcarClient** models
`get_token` and `get_resource` of the client with an evidence provider. The key
broker is modelled from the requests: a session with a nonce and, once
attested, a key. Every request may be lost before or after the broker acted on
it.

**TokenClient** models the hub's client and the agent's service of its token
requests. Of a handshake it uses what RcarClient shows: it ends, in an error or
in a token for its own key. **Secrets** has resource URIs, the two layouts of a
sealed secret, what the KMS drivers export and import, and `secret_cli`.
**DataHub** runs the hub: a request is a list of references to resolve one after
the other, through the KBS client's mutex, and what its handler does with the
values (commands, mounts, files); the start is such a request too. An image
pull takes the OnceCell, then the image client's mutex, and sends the requests
image-rs makes to the hub's own socket. **ApiServer** adds the REST server.
A *scene* fixes configuration, stores and what each client asks for.

The theorems are in eight modules of their own, each of which extends the module
it is about: **AgentProofs** (with EventLog), **SharedRootfsProofs**,
**ImagePullProofs**, **RuntimeShareProofs**, **RcarClientProofs**,
**ApiServerProofs** (with TokenClient and DataHub), **SignaturePolicyProofs** and
**LayerPipelineProofs** (with Unpack and KeyWrap).

## 3. Runs

| Run | Question | Bounds |
|---|---|---|
| `agent` | Are acknowledged requests measured, in order, and everything measured logged? Does an undisturbed log replay, and does the log in the evidence cover its quote? Is a quote over its own request's data? Are TSM directories removed, is the initdata bound before requests are served? Does every request end? | 18 platforms; 2 callers, 4 lines (plain, trimmed, a newline in the content, split by a newline in the domain), 2 registers, 3 log lines, 2 evidence or token requests, 1 crash, 1 failure |
| `eventlog_recovery`, `evidence_race`, `layer_rewrap` | What comments and docs say of the start-up check, of report data and of adding keys to an encrypted layer: violated, see findings | as their passing runs, or smaller |
| `shared_race` | Can an answer be for another image? Can a half-written image or the digest of one be handed out, or a cache entry become unreadable or stale, by a race? | 2 threads and 2 formats. Without failures 3 requests for 2 references of one image; with 1 failure or cancellation 3 for one reference, 2 for 2 references of one image (with and without digests), 2 for 2 references of one sanitised name |
| `shared_crash` | Do entries and shares stay with their image? Is every request answered, also one waiting for a dead one's pending file? | 2 requests, 1 crash; for 2 images, or both for one reference with 1 failure or cancellation |
| `runtime` | Does a successful pull leave the image asked for, with mounts nested and no answer used twice? Does a pull fail only for a reason that is not a stale stream, prefetch, mount or device? Does it end? | 2 pulls into a bundle, 2 references, 2 prefetches or preconnects, 1 restart of either side, 1 failure |
| `pull` | Are the meta store and the mounts sound through failures and restarts? Is what is handed out trusted and complete (refinement of ImageStore)? Does every pull end? | 4 images that share layers, one with a repeated layer, one not trusted, one of nydus; 2 pulls, 1 restart, 2 failures for 2 attempts per layer, 2 downloads at a time |
| `layer` | Is what is stored the archive as a changeset, attributes included? Is an intact layer stored, and does nothing unverified stay? Does handling end? | archives of up to 3 of 11 entries (files, links, directories, a path without its parents, whiteouts, opaque markers, one of them of the root), every media type and digest algorithm; every wrapper, recipient and key combination of two owners; one damage |
| `signature` | Is a client configured as its files and the KBS say, in any order? Is an accepted image signed by a trusted key, and a quiet check's verdict the policy's? | setups that vary scopes, requirements, files, registry signatures, credentials; 2 keys, 3 digests (one malformed), 2 checks, 1 move of the tag, 1 rotation, 1 failure, 1 crash |
| `rcar` | Are errors justified and evidence fresh? Does every call return? | the code's limits (5, 3, 3), 2 calls, 4 kinds of client |
| `hub` | Do token and key stay together beside orphans? Is every request answered with what was published for it? Are mounts backed, and is the key file of a mounted LUKS device gone? Does the hub serve only with its credentials? Does every request end? | 2 clients in each of the scenes (resources, sealed secrets, mounts, starts that go wrong, REST, pulls), 2 agent jobs |

Why these bounds are enough to be interesting: a race needs two requests, and a
third shows what the two left behind; one crash or failure can hit every step,
and a second one hits the recovery of the first; two retries suffice for a
boundary to be passed once; an order matters among two or three entries, files
or wrappers. `CHECK_DEADLOCK FALSE` stands everywhere because the bounds on
calls, crashes and failures make every model stop, and the systems themselves
may be idle; that requests do not wait for each other for ever is what the
liveness properties say.

Each property has a mutant in `PROJECT.json`: the definition of an operation
changed the way a plausible slip would, under which TLC finds the property
violated. The mutated forms stand next to the definitions they change.

### Fairness

Weak fairness of a process's own steps is what an executor that polls every
ready task gives, together with requests that end in an answer or in the
timeout that the code sets (`KBS_REQ_TIMEOUT_SEC`, the token provider's 50
seconds, `FAST_PREFETCH_TIMEOUT_SECS`, the layer timeouts) and commands that
end. Strong fairness stands in three places: for tokio's mutex, which is FIFO,
so that a waiter gets it in the end (EventLog and Agent, RuntimeShare); and for
the end of SharedRootfs's polling loop, whose deadline passes however often the
pending file is seen. No fairness is assumed of which answer arrives, of crashes
or of failures.

### Findings

* `eventlog_recovery`: when the check at start-up fails, `EventLog::new` extends
  the digest of the *first* event although the unextended one is the last.
* `evidence_race`: on Gramine the report data and the quote are one pair of
  files for all requests, used without a lock: a request may be answered with a
  quote over another's data.
* `layer_rewrap`: `encrypt_layer` for a layer that is encrypted already returns
  a default finalizer, which writes empty options over those of the layer:
  nobody can decrypt it any more.

The lines, and the comments they contradict, are quoted in `PROJECT.json`.

Some properties that hold are conditional, and the condition is the lesson.
`LogReplaysToRegister` excludes logs with a line measured into another register
(the check replays every line against `init_pcr`), lines that end in white
space (`AAEventlog::from_str` trims them), and lines that a newline in their
domain or operation splits: read back, these are several events for one extend,
so that the log replays no more and every later start takes it for damaged.
`MeasuredLinesLogged` and `EvidenceLogCoversQuote` hold of such a line only in
the sense that its pieces stand in the log, one after the other; no single event
that a verifier parses has the digest. `MountsIntact` and `ImplementsImageStore`
say nothing of the order of a repeated layer with those between its places, and
the latter excepts nydus bundles without a daemon. `KeyFileRemoved` speaks of
requests that succeed: one that fails before `luks-encrypt-storage` has opened
the device leaves the plaintext key in `/tmp`. `RepliedImagesComplete` excludes
images whose build was cut short or overlapped another (`hurt`),
`CachedEntriesStayValid` in addition entries two requests wrote at once
(`clash`): the pending file does not exclude two builders.
`RepliesMatchRequests` excludes references whose sanitised names collide.
`VerdictIsRight` excludes checks whose key file is torn or older than the KBS's
key: the file is never read anew, so such checks refuse good images.
`AcceptedIsSigned` has no such exception, but counts a key the KBS once gave as
trusted, and says of a cosign requirement without a rule only that the digest is
signed, whatever reference the signature names. `ClientIsConfigured` excepts a
sigstore configuration that a crash tore (below).

### Remarks

Met while modelling; the models have all of this as the code does.

*Agent.* `domain` and `operation` of a measurement go unchecked from the request
into the line (`ttrpc_dep/server.rs:88-94`; only the content is checked,
`eventlog/mod.rs:186-195`). An empty AAEL is opened read-only and the INIT line
is then written through that handle, so no later start succeeds (`OpenEmptyLog`,
`AppendInitRefused`). Only TDX has `get_runtime_measurement`, and TDX with TSM
reports refuses extends: with the event log enabled the agent starts on no other
configuration. `pad` cuts longer initdata, which TDX and SNP then accept. PCR 8
of a vTPM is extended anew at every start, and by gRPC's `BindInitData` with
anything. The CSV attester unwraps device errors. On IBM SE evidence covers only
the nonce. `MockedEvidenceProvider`'s evidence is not JSON.

*Keys and layers.* The comment at `encryption.rs:249` says that one key wrapper
is tried after the other; a bad key file ends the JWE loop with `?`. The public
nonce overrides the private one and is not covered by the HMAC.
`coco_keyprovider` reads "keypath" for the algorithm (`enc_mods/mod.rs:85`), wants
base64 where `ocicrypt-rs` sends JSON, and ignores the HTTP status of
`register_kek`; the same key id with a random KEK overwrites the first. The zstd
decoder reads one frame only. An opaque marker at an archive's root becomes an
attribute of the layer's directory, where overlayfs does not ask for it: the
layers below stay visible. `create_image_meta` keeps the first of a repeated
layer, so that a file which a layer between the two replaces has the wrong
content in the mount.

*Pulls.* `start_nydus_service` looks at the JoinError of `spawn_blocking` and
not at the daemon's own error, so that a bundle over an empty directory is
handed out and filed; a cached nydus image fails in a new bundle; nydus images
reach `meta_store.json` only with the next OCI pull.

*Policy and client.* `signedIdentity` "Defaults to "match-exact" if not
specified", while simple signing takes `MatchRepoDigestOrExact` and cosign
checks no reference at all (`policy/mod.rs:42-44` names match-exact as the
default); `RemapIdentity` strips its prefix also where it ends inside a path
component; the references of all cosign payloads are compared, also of those the
key did not sign. Kept KBS resources are never refreshed. A torn policy or
credential file fails every later client build. A torn sigstore configuration
does not: an empty document is a `SigstoreConfig` with neither field, so the
client is built from the directory's files alone and what the KBS has configured
is lost for good. Among credential keys that normalise to one registry a hash
map's order decides. With the registry's extension one undecodable signature
rejects the image, and a missing sigstore directory spoils signatures the
registry has.

*Hub.* `luks-encrypt-storage` removes the LUKS key file once it has opened the
device; the paths that fail before leave it. A failing gocryptfs leaves ossfs
mounted. Exports of the sts and ecs clients drop settings. The signature of a
sealed secret is not checked. An OSS field given as `kbs://` URL is used as plain
text. `AA_KBC_PARAMS` of the environment wins over the configuration file. The
condition at sev `client.rs:87` is inverted: the client is never initialised and
the first use panics. The REST router's mutex serialises all REST requests. JWE
lengths are not checked before slicing (panics of the task, in RcarClient); RSA
keys in PKCS#8 are refused by `from_pem`.

## 4. Proofs

The theorems hold for every value of the constants that satisfies the modules'
`ASSUME`s, so for any number of callers, requests, images, layers, clients,
resources, policies, crashes and failures. What is assumed is of four kinds:
special values (`None`, `Torn`, `Unreadable`, `Err`, ...) are different and lie
outside the sets they are told apart from, `Nat` and the strings of outcomes
included; limits and bounds are naturals, and the code's own limits positive; a
constant that stands for a file or an answer has the fields that its type in the
code has (`EntryRecord`, `IsPolicy`, the PEM forms of a key); and a history
constant is what it is the history of (`PublishedRight`: the published
credential is what the KBS has under the configured name; `ApiServerAssumption`:
what a client of a scene wants, and the plaintexts of its mount, are what its
references denote in the scene's stores, computed without the requests' steps).
Some assumptions say more: in SharedRootfs the sanitised name of an image id is
that of nothing else, in SignaturePolicy every signature is by a key (so that a
torn key file has signed nothing), the name of an image begins with neither a
slash nor an asterisk and has at most one colon, that of the registry's port, a
configuration that names a sigstore configuration has one to get, and the
content of no resource is what the truncation of its file leaves
(`ContentAssumption`); and in LayerPipeline a layer is encrypted if and only if
its media type says so, and an archive's entries have paths below the root. TLC
evaluates all of them in the runs.

Each proof module states an inductive invariant, which TLC checked on the
instance of the run before it was proved, and shows that each action keeps each
part of it. None of the properties is inductive as it stands.

`AgentProofs`, first of the event log alone:

* `TypeCorrect`, `AppendOnly`: the state keeps its types, the log its lines;
* `ReplayCorrect` (`LogReplaysToRegister`). The property speaks of an idle agent
  only. `IInv` adds: the caller between its two writes is the one that holds the
  mutex (`LockInv`); from its first line on the file starts with INIT
  (`FileInv`); and in *every* state of an undisturbed log the register lacks at
  most the last line, which is that of the holder, or one the start-up check can
  name (`ReplayInv`). The core is `AccumulateAppend`: replaying one line more is
  one extend more;
* `MeasuredOnlyLogged` (`MeasuredLinesLogged`), with the line a holder is about
  to extend (`MeasuredInv`); a line in pieces is accounted for by the
  pieces that stand together (`Accounts`);
* `AckedAreMeasured` (`AckedRequestsMeasured`). That the answered requests are a
  subsequence of the log and of the register is said by an order-preserving
  function (`Embeds`, and `EmbedsLines` for lines that may stand in several
  pieces), which grows by one pair with each answer; `AckedInv` says that the
  holder's line is the last of the file (`StandsLast`), after all that the
  function has used, and that the last digest is still free for its answer.

and then of the agent with the log in it:

* `AgentReplayCorrect`, `AgentMeasuredLogged`, `AgentAckedMeasured`: the log's
  properties hold of the agent, because each of its steps is a step of EventLog
  or leaves the log's variables unchanged (`AgentStep`);
* `InitDataAlwaysBound`: `BindInv` extends the property to the states between
  binding and serving, and says of PCR 8 in all states that only gRPC requests
  put anything else into it;
* `QuoteCorrect` (`QuoteAnswersRequest`): after a request's inblob was written, a
  generation of one means that the inblob is the request's (`TsmInv`), from the
  quote on the quote is over the request's data (`QuoteInv`), and a later start
  detects the same platform (`ServingInv`), so that an answer keeps its meaning;
* `TsmEntriesCorrect`, from `TsmInv` and `LeakInv`;
* `EvidenceLogCovers` (`EvidenceLogCoversQuote`): a quoted register was a register
  of some earlier state, whose digests had their lines then (`MeasuredInv`,
  `ReplayInv`), and the log read later extends the log of that state.

`SharedRootfsProofs`, of the image CVM's server: `CacheStaysCorrect`,
`AnswersAreRight`, `AnsweredImagesAreComplete`, `CacheStaysValid`. `FileInv` says
of every file that can be read, and of every temporary file and open descriptor,
that its entry is of an image its key stands for, with a share of it; `ReqInv`
what a request knows at each place of its program; `BuildInv` that of an image
whose builds did not get into each other's way an incomplete file belongs to one
request which runs mkfs, and only one request gets past a format; `KeyInv` that
of a key which no two requests wrote at once the files are as the one writer
left them. The last two are where the conditions `hurt` and `clash` come from.

`ImagePullProofs`, of `pull_image`: `LayerStoreSound`, `MountsStayIntact`,
`MountsAreVerified` and the refinement `PullImplementsStore`. The heart of the
invariant is who names a directory: the meta store, its file or a mount name
directories with the layers they are filed for (`StoreInv`, `MountInv`); a task
that still writes has a directory that nothing else names (`TaskInv`), so a
retry that removes it harms nobody; and all directories are below the counter
(`DirInv`), also of a new client, which counts them anew. For the refinement each
step is shown to hand out one right bundle, an empty one of an image that a
daemon serves, or none. That a manifest with
repeated layers is fetched once per layer, and that this list has the manifest's
layers in an order that the manifest allows (`Shows`), needs an induction, which
is done by the least number principle.

`RuntimeShareProofs`, of the runtime's pull: `PulledBundleCorrect`,
`MountsStayNested`, `AnswersAreUsedOnce`, `PullsFailForAReason`. `NumInv`: an
answer is in one place only, with one prefetch, in the static, or taken;
`PullInv`: what a pull holds is of its own image, at each place; `DoneInv`: what
is mounted when it returns. `ReasonInv`: the epoch of an
answer is one that the image CVM had, so that a dead share stays dead; and after
`destroy_device` a device is left only below a mounted bundle.

`RcarClientProofs`, of the handshake: `EvidenceStaysFresh`, `CallsEndForAReason`.
The invariant relates each client to its session: a handshake past its challenge
has that challenge's evidence, unless the session has been replaced, and the
attempts of the three nested loops are paid for by failures and expiries.

`ApiServerProofs`, of the hub, its client of the KBS and the REST server:
`TokenAlwaysMatches`, `KeyFilesAreRemoved`, `ServesOnlyWithCredentials`, and
`CallBelongsToItsHolder`, which is what the others rest on: a request waits for
the shared client only while it holds the mutex, and the call in progress is for
its resource (`MutexInv`), although a dropped handler leaves its call behind.
`BootInv`: a configured credential is still to be fetched or is in its file.
`KeyInv`: a key file is that of a LUKS request which was not answered with
success, and a request that has mounted a LUKS device has ended and has no key
file.
`RequestsAlwaysAnsweredRight` and `MountsAlwaysBacked` need all of this and
`AnswerInv` in addition, whose parts are:

* `CallInv`: a call that ends as unauthorized, for a resource that is not denied,
  has lost a token at every one of its attempts, so that its error is another
  party's doing;
* `ProcessInv`: who serves has the client, the parameters and the credential
  files that the scene's configuration calls for, so that a plan made with these
  files is the one the scene means;
* `RecordOK`: what a request has got are the values of its first references, in
  order, and what is to do are the next ones (`GotOK`, `LengthOK`); what it waits
  for is what its next reference is resolved with (`WaitOK`); a pull past the
  making of the image client had all of its configured resources (`StageOK`);
* `LeftOK`: a request that has gone on to its third secret has its bucket mounted,
  and the key file of LUKS holds the key it got; `RestOK`: where a REST request
  stands in the hub.

`LayerPipelineProofs`, of a layer from the publisher to the guest's directory:

* `MergedTreeHolds` (`MergedTreeIsChangeset`) and `AttributesHold`
  (`AttributesRestored`), for every archive, image below, media type and damage.
  The properties speak of a finished layer; `LayerInv` says of every prefix of
  the archive that, as long as the bytes read are the publisher's, the tree is
  that of the entries read (`TreeAfter`), merges with any image below to the
  changeset of these entries (`Merged`), and has their attributes except for the
  times of directories, which are set last (`Restored`). Each kind of entry is
  shown to keep these; that what had been read is the publisher's is known only
  at the end, when the digest fits;
* `NothingUnverified` (`NothingUnverifiedStays`), from the same invariant;
* `OpenedLayerHolds`: publisher and guest agree. `PublisherOK` says what is in
  the registry, block by block; `AgreeInv` that an undamaged blob gives the guest
  the publisher's key, nonce, HMAC and entries, so that only a key that it cannot
  unwrap, the media type, the digest's algorithm or the archive itself makes it
  refuse the layer. `PlainLayerIsStored` is `IntactLayerIsStored` for layers that
  are not encrypted.

`TreeAfter` is a recursive function, which the prover does not unfold by itself:
that a function with the equations exists is shown for every length by the least
number principle, and the `CHOOSE` behind the definition then has it
(`TreeAfterDef`).

`SignaturePolicyProofs`, of the client and the policy:

* `AcceptedAreSigned` (`AcceptedIsSigned`). `KeptRight` and `ChannelRight`
  follow a key from the KBS into its file and out of it, through a crash that
  tears the file; `KeyRight`: the key a requirement is checked with is one it
  trusts, or torn; `ListRight`: the requirements before the current one are met.
  What was met stays so, since the digest and the reference of a check do not
  change and the KBS takes no key back;
* `PolicyFound`, `LocationFound`, `CredentialFound`: the searches by
  `get_image_namespaces` and `auth_keys_for_key` find what the properties say
  without a search, the most specific scope and the longest path. `CutsAre`,
  `ParentsAre`, `HostIs` and `WildcardsAre` say what the operators on names
  compute; the list of scopes has every scope that covers the reference
  (`ScopesDescend`), in the order of rank and length, and two scopes of the same
  rank and length are one (`OneOfARank`), so the first that the map has is the
  one that `MostSpecific` chooses (`FirstIsBest`);
* `ClientAlwaysConfigured` (`ClientIsConfigured`). `BuiltInv` says of each
  resource's file that it holds the resource or is torn, and is there only if
  the KBS has the resource (`FilesRight`); that what is got is what the file
  holds, if there is one (`GettingRight`); that only a crash leaves a torn
  sigstore configuration in the client (`TornInv`), in which case the files
  alone are merged; that the stages passed were good (`StagesRight`); and that
  the merged configuration is the union of the files read so far
  (`MergedRight`), which neither the order nor the final merge can spoil, since
  a conflict of two unions is one of two of their members (`UnionJoin`,
  `UnionConflict`);
* `VerdictAlwaysRight` (`VerdictIsRight`). `VerdictInv` says of a check that
  nothing has disturbed: its digest is what the reference names, the key's file
  holds the KBS's key or is being filled by this check, the key got is the only
  one of the requirement's `KeysNow`, and the requirements before the current
  one are met (`Undisturbed`). `SimpleDecides` and `CosignDecides` show that
  what the code looks for at each requirement is what `Meets` demands.

`Cuts` is a recursive function and is treated as `TreeAfter` is.

The proofs changed the models in a few places. `CASE`s whose guards overlapped
(TeeKeys, SignaturePolicy, DataHub, SharedRootfs), of which TLC takes the first
and logic any, are now exclusive. A policy's key path without a scheme is a file
for the code and was the KBS in `TrustedKeys`; one with another scheme leads to
no key, for which `KeysNow` had the KBS's, and the run has a requirement with
one now. The registry in `RightCredential` is normalised as the keys are. A
`UNION` beside a `\cup` was read in two ways by the tools and has parentheses.
The proof of `MergedTreeIsChangeset` and `AttributesRestored` failed until four
cases were as in the code and its libraries: an entry below something that is no
directory fails; a *directory* whose name starts with `.wh.` is converted like a
file; what is converted is not among the directories whose times are set last;
and an opaque marker of the layer's root, which overlayfs does not look at, is
an exception of the property. The entries that show them are in the run now. The
handlers of DataHub take the scene as a parameter where they compute a plan, so
that the same operators say what a scene expects.

Only model-checked: liveness under fairness (out of the prover's reach), and of
`IntactLayerIsStored` the part that says *which* guests can unwrap the key of an
encrypted layer: the configurations of wrappers and recipients are built by
filtering sequences, and that each recipient finds its packet holds for the
configurations that the tools produce and not for all values of the constants.

## 5. Not modelled

Hardware access of the attesters, ciphers and signatures, generated protocol
code, the nydus daemon and the device mapper (dm-verity), the occlum
snapshotter (what its mounts do is decided by the occlum runtime), the older KBC
modules, command line tools that make one call. The bytes of a log line are
written in one step: a torn line would need lines that are parts of lines. Key
rings of several keys and the syntax of references are left out, and so are the
size estimate for ext4 and HTTP signing in the KMS drivers. In ImagePull an image
has one reference, and the verdict on it is a constant. The reasons stand with
each component in `PROJECT.json`.

## 6. Plan

Done: all modules of section 2 and the proofs of section 4.

Theorems worth proving next: action properties of the caches (an entry of
SharedRootfs is replaced only by one of the same image).

Compositions left: RuntimeShare with an abstract SharedRootfs, so that the image
CVM's answers are those the server gives; ImagePull with SignaturePolicy, so that
two references may share an image id.

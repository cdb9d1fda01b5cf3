----------------------------- MODULE ImagePull ------------------------------
(***************************************************************************)
(* image-rs: ImageClient::pull_image with its layer downloads, layer store *)
(* and meta store.                                                         *)
(*                                                                         *)
(* One client serves one pull at a time (the hub keeps it in a Mutex and   *)
(* pull_image takes &mut self), but the layers of a pull are downloaded    *)
(* and unpacked concurrently and complete in any order.  The meta store    *)
(* lives in memory and is written to meta_store.json after a successful    *)
(* pull; layer directories and mounts outlive the process.                 *)
(*                                                                         *)
(* A nydus image is pulled by its bootstrap alone, which a daemon inside   *)
(* the client's process serves below the bundle's overlay.  Every pull is  *)
(* into a bundle of its own, unless an action says otherwise.              *)
(***************************************************************************)
EXTENDS Integers, Sequences, FiniteSets

CONSTANTS
    Images,         \* image ids
    Digests,        \* compressed layer digests
    LayersOf,       \* the manifest's layers of an image, lowest first
    Nydus,          \* the images whose last layer is a nydus bootstrap
    Trusted,        \* the images the signature policy accepts
    MaxConcurrent,  \* max_concurrent_layer_downloads_per_image
    Attempts,       \* LAYER_PULL_ATTEMPTS
    None,
    Corrupt,        \* content that is not the layer's
    MaxPulls,       \* bound on pulls
    MaxCrashes,     \* bound on crashes
    MaxFails        \* bound on failures of the registry, the disk, a mount

ASSUME ImagePullAssumption ==
    /\ LayersOf \in [Images -> Seq(Digests)]
    /\ Nydus \subseteq Images /\ \A img \in Nydus : LayersOf[img] # <<>>
    /\ Trusted \subseteq Images
    /\ MaxConcurrent \in Nat \ {0}
    /\ Attempts \in Nat \ {0}
    /\ None \notin Images \cup Digests \cup Nat \cup {"served", "failed", "gone"}
    /\ Corrupt \notin Digests
    /\ MaxPulls \in Nat /\ MaxCrashes \in Nat /\ MaxFails \in Nat

VARIABLES
    pull,      \* the pull in progress
    task,      \* its layer tasks, one per unique layer
    layerDb,   \* meta_store.layer_db: digest -> directory, or None
    imageDb,   \* meta_store.image_db: image -> directories of its layers
    disk,      \* meta_store.json
    dirs,      \* the layer directories that exist, and what is in them
    nextDir,   \* layers_index
    mounts,    \* the overlay mounts made: the image, its stack of directories
               \* and the nydus daemon that serves it
    answered,  \* (history) the mounts that were returned to the caller
    verified,  \* (history) the images whose signature was checked
    pulls, crashes, fails

vars == <<pull, task, layerDb, imageDb, disk, dirs, nextDir, mounts, answered,
          verified, pulls, crashes, fails>>

store == <<layerDb, imageDb>>
fsys == <<disk, dirs, nextDir, mounts>>
bounds == <<pulls, crashes, fails>>

-----------------------------------------------------------------------------
\* create_image_meta: a layer that repeats an earlier one is dropped.
UniqueLayers(img) ==
    LET l == LayersOf[img]
        First(i) == \A j \in 1..(i - 1) : l[j] # l[i]
        Rank(i) == Cardinality({j \in 1..i : First(j)})
        n == Cardinality({i \in 1..Len(l) : First(i)})
    IN [k \in 1..n |-> l[CHOOSE i \in 1..Len(l) : First(i) /\ Rank(i) = k]]

\* The manifest's last layer is annotated as a nydus bootstrap.
IsNydusImage(img) == img \in Nydus

\* The layers a pull downloads: do_pull_image_with_nydus takes the bootstrap.
Fetched(img) ==
    IF IsNydusImage(img) THEN <<LayersOf[img][Len(LayersOf[img])]>> ELSE UniqueLayers(img)

Reversed(s) == [i \in 1..Len(s) |-> s[Len(s) - i + 1]]

\* What an overlay over the directories stack (uppermost first) shows.
Content(d) == IF d \in DOMAIN dirs THEN dirs[d] ELSE None
Contents(stack) == [i \in 1..Len(stack) |-> Content(stack[i])]

EmptyStore == [layers |-> [d \in Digests |-> None], images |-> [i \in Images |-> <<>>]]
NoTask == [pc |-> "waiting", attempt |-> 1, dir |-> None]
NoPull == [pc |-> "idle", image |-> None, daemon |-> None]

Init ==
    /\ pull = NoPull
    /\ task = <<>>
    /\ layerDb = EmptyStore.layers
    /\ imageDb = EmptyStore.images
    /\ disk = EmptyStore
    /\ dirs = <<>>
    /\ nextDir = 0
    /\ mounts = <<>>
    /\ answered = {}
    /\ verified = {}
    /\ pulls = 0 /\ crashes = 0 /\ fails = 0

At(pc) == pull.pc = pc
Goto(pc) == pull' = [pull EXCEPT !.pc = pc]
Fail == fails < MaxFails /\ fails' = fails + 1

\* pull_image returns an error.
Abort == pull' = NoPull /\ task' = <<>>

-----------------------------------------------------------------------------
(* pull_image.                                                              *)

Start(img) ==
    /\ At("idle") /\ pulls < MaxPulls
    /\ pulls' = pulls + 1
    /\ pull' = [NoPull EXCEPT !.pc = "manifest", !.image = img]
    /\ UNCHANGED <<task, store, fsys, answered, verified, crashes, fails>>

\* Manifest and config are pulled; an image that is in image_db goes straight
\* to its bundle.
Manifest ==
    /\ At("manifest")
    /\ Goto(IF imageDb[pull.image] # <<>> THEN "mountCached" ELSE "signature")
    /\ UNCHANGED <<task, store, fsys, answered, verified, bounds>>

SkipSignature ==
    /\ At("signature")
    /\ pull' = [pull EXCEPT !.pc = "layers"]
    /\ task' = [i \in 1..Len(Fetched(pull.image)) |-> NoTask]
    /\ UNCHANGED <<store, fsys, answered, verified, bounds>>
CheckSignatureLogsVerdict ==
    /\ At("signature")
    /\ verified' = verified \cup {pull.image}
    /\ Goto("layers")
    /\ task' = [i \in 1..Len(Fetched(pull.image)) |-> NoTask]
    /\ UNCHANGED <<store, fsys, answered, bounds>>
\* check_image_signature, then create_image_meta and the layer stream.
CheckSignature ==
    /\ At("signature")
    /\ IF pull.image \in Trusted
         THEN /\ verified' = verified \cup {pull.image}
              /\ Goto("layers")
              /\ task' = [i \in 1..Len(Fetched(pull.image)) |-> NoTask]
         ELSE Abort /\ UNCHANGED verified
    /\ UNCHANGED <<store, fsys, answered, bounds>>

\* Registry, policy or manifest trouble before the layers.
EarlyError ==
    /\ pull.pc \in {"manifest", "signature"} /\ Fail
    /\ Abort
    /\ UNCHANGED <<store, fsys, answered, verified, pulls, crashes>>

-----------------------------------------------------------------------------
(* async_pull_layers: task i pulls the i-th unique layer.                   *)

LayerOf(i) == Fetched(pull.image)[i]
InFlightAndDone == {i \in DOMAIN task : task[i].pc # "waiting"}
InFlight == {i \in DOMAIN task : task[i].pc \in {"fetch", "unpack", "verify"}}

\* buffer_unordered: tasks start in order, at most MaxConcurrent in flight.
\* pull_layer_with_retry begins every attempt with a look at layer_db.
StartTask(i) ==
    /\ At("layers") /\ task[i].pc = "waiting"
    /\ \A j \in 1..(i - 1) : task[j].pc # "waiting"
    /\ Cardinality(InFlight) < MaxConcurrent
    /\ task' = IF layerDb[LayerOf(i)] # None
                 THEN [task EXCEPT ![i].pc = "done", ![i].dir = layerDb[LayerOf(i)]]
                 ELSE [task EXCEPT ![i].pc = "fetch"]
    /\ UNCHANGED <<pull, store, fsys, answered, verified, bounds>>

\* async_handle_layer takes the next directory; unpack deletes what is there
\* and creates it.
OpenLayer(i) ==
    /\ At("layers") /\ task[i].pc = "fetch"
    /\ task' = [task EXCEPT ![i].pc = "unpack", ![i].dir = nextDir]
    /\ nextDir' = nextDir + 1
    /\ dirs' = [d \in DOMAIN dirs \cup {nextDir} |->
                  IF d = nextDir THEN "partial" ELSE dirs[d]]
    /\ UNCHANGED <<pull, store, disk, mounts, answered, verified, bounds>>

\* The blob is decrypted, decompressed and unpacked; it may not be what the
\* image's configuration says it is.
Unpack(i) ==
    /\ At("layers") /\ task[i].pc = "unpack"
    /\ \E c \in {LayerOf(i), Corrupt} :
          /\ c = Corrupt => fails < MaxFails
          /\ fails' = IF c = Corrupt THEN fails + 1 ELSE fails
          /\ dirs' = [dirs EXCEPT ![task[i].dir] = c]
    /\ task' = [task EXCEPT ![i].pc = "verify"]
    /\ UNCHANGED <<pull, store, disk, nextDir, mounts, answered, verified, pulls, crashes>>

\* The next attempt, or the error of the last one, which drops the other
\* tasks where they are and with them the pull.
Retry(i) ==
    IF task[i].attempt < Attempts
      THEN /\ task' = [task EXCEPT ![i] = [pc |-> "fetch", attempt |-> @.attempt + 1,
                                           dir |-> None]]
           /\ UNCHANGED pull
      ELSE Abort

RemoveDir(d) == dirs' = [x \in DOMAIN dirs \ {d} |-> dirs[x]]

\* The size and diff id checks; a layer that fails is removed.
VerifyNothing(i) ==
    /\ At("layers") /\ task[i].pc = "verify"
    /\ task' = [task EXCEPT ![i].pc = "done"]
    /\ UNCHANGED <<pull, dirs, store, disk, nextDir, mounts, answered, verified, bounds>>
Verify(i) ==
    /\ At("layers") /\ task[i].pc = "verify"
    /\ IF dirs[task[i].dir] = LayerOf(i)
         THEN /\ task' = [task EXCEPT ![i].pc = "done"]
              /\ UNCHANGED <<pull, dirs>>
         ELSE /\ RemoveDir(task[i].dir)
              /\ Retry(i)
    /\ UNCHANGED <<store, disk, nextDir, mounts, answered, verified, bounds>>

\* The stream does not open in time, breaks, or unpacking fails or times out.
LayerError(i) ==
    /\ At("layers") /\ task[i].pc \in {"fetch", "unpack"} /\ Fail
    /\ RemoveDir(task[i].dir)
    /\ Retry(i)
    /\ UNCHANGED <<store, disk, nextDir, mounts, answered, verified, pulls, crashes>>

-----------------------------------------------------------------------------
(* The bundle and the meta store.                                           *)

\* All layers are there: sorted by position, they extend layer_db.
Stack == [i \in DOMAIN task |-> task[i].dir]
LayersDone ==
    /\ At("layers")
    /\ \A i \in DOMAIN task : task[i].pc = "done"
    /\ layerDb' = [d \in Digests |->
                     IF \E i \in DOMAIN task : LayerOf(i) = d
                       THEN task[CHOOSE i \in DOMAIN task : LayerOf(i) = d].dir
                       ELSE layerDb[d]]
    /\ Goto(IF IsNydusImage(pull.image) THEN "daemon" ELSE "mount")
    /\ UNCHANGED <<task, imageDb, fsys, answered, verified, bounds>>

\* process_fuse_daemon, process_fscache_daemon: the bootstrap is served at the
\* bundle's nydus_rootfs, or one of their steps fails and it stays empty.
DaemonOutcomes == {"served", "failed"}

\* start_nydus_service: the daemon is created in a blocking task, of which
\* only a panic counts as a failure: an error it returns is dropped, and the
\* bundle is made over a directory that shows nothing.
StartDaemon ==
    /\ At("daemon")
    /\ \E d \in DaemonOutcomes :
          /\ d = "failed" => fails < MaxFails
          /\ fails' = IF d = "failed" THEN fails + 1 ELSE fails
          /\ pull' = [pull EXCEPT !.pc = "mount", !.daemon = d]
    /\ UNCHANGED <<task, store, fsys, answered, verified, pulls, crashes>>

\* create_bundle mounts the layers in reverse order ...
MountDirect(pc, lower, next) ==
    /\ At(pc)
    /\ mounts' = Append(mounts, [image |-> pull.image, stack |-> lower,
                                daemon |-> pull.daemon])
    /\ Goto(next)
    /\ UNCHANGED <<task, store, disk, dirs, nextDir, answered, verified, bounds>>
Mount(pc, lower, next) ==
    /\ At(pc)
    /\ mounts' = Append(mounts, [image |-> pull.image, stack |-> Reversed(lower),
                                daemon |-> pull.daemon])
    /\ Goto(next)
    /\ UNCHANGED <<task, store, disk, dirs, nextDir, answered, verified, bounds>>

CreateBundle ==
    \/ Mount("mount", Stack, "config")
    \/ /\ ~IsNydusImage(pull.image)
       /\ Mount("mountCached", imageDb[pull.image], "configCached")

\* create_nydus_bundle of an image that is in image_db: a new bundle has no
\* nydus_rootfs to mount, an earlier one shows what it showed, or nothing if
\* its daemon is gone.
NydusCached ==
    /\ At("mountCached") /\ IsNydusImage(pull.image)
    /\ \/ Abort /\ UNCHANGED mounts
       \/ \E m \in 1..Len(mounts) :
             /\ mounts[m].image = pull.image
             /\ mounts' = Append(mounts, [mounts[m] EXCEPT !.daemon = IF @ = "gone" THEN "failed" ELSE @])
             /\ Goto("configCached") /\ UNCHANGED task
    /\ UNCHANGED <<store, disk, dirs, nextDir, answered, verified, bounds>>

\* ... and writes config.json; an image that was pulled enters image_db, a
\* nydus one without a save of the meta store.
ConfigCached ==
    /\ At("configCached")
    /\ answered' = answered \cup {Len(mounts)}
    /\ Abort
    /\ UNCHANGED <<store, fsys, verified, bounds>>

Config ==
    /\ At("config")
    /\ imageDb' = [imageDb EXCEPT ![pull.image] = Stack]
    /\ IF IsNydusImage(pull.image)
         THEN Abort /\ answered' = answered \cup {Len(mounts)}
         ELSE Goto("truncate") /\ UNCHANGED <<task, answered>>
    /\ UNCHANGED <<layerDb, fsys, verified, bounds>>

\* The mount, the OS check or config.json fails: layer_db keeps the layers
\* and a mount that was made stays.
BundleError ==
    /\ pull.pc \in {"daemon", "mount", "mountCached", "config", "configCached"} /\ Fail
    /\ Abort
    /\ UNCHANGED <<store, fsys, answered, verified, pulls, crashes>>

\* write_to_file: File::create truncates, then the store is written.
TruncateMeta ==
    /\ At("truncate")
    /\ disk' = None
    /\ Goto("save")
    /\ UNCHANGED <<task, store, dirs, nextDir, mounts, answered, verified, bounds>>

SaveMeta ==
    /\ At("save")
    /\ disk' = [layers |-> layerDb, images |-> imageDb]
    /\ answered' = answered \cup {Len(mounts)}
    /\ Abort
    /\ UNCHANGED <<store, dirs, nextDir, mounts, verified, bounds>>

SaveError ==
    /\ At("save") /\ Fail
    /\ Abort
    /\ UNCHANGED <<store, fsys, answered, verified, pulls, crashes>>

\* The process ends and a new client is built: an unreadable meta store gives
\* an empty one, the next directory follows the largest that exists, and the
\* daemons are gone with the process.  The hub builds its client with
\* ClientBuilder, which fails if the directories cannot be listed.
MaxDir == CHOOSE m \in DOMAIN dirs : \A d \in DOMAIN dirs : d <= m
NextLayerIndex == IF DOMAIN dirs = {} THEN 0 ELSE MaxDir + 1
Restart ==
    /\ crashes < MaxCrashes
    /\ crashes' = crashes + 1
    /\ pull' = NoPull /\ task' = <<>>
    /\ LET saved == IF disk = None THEN EmptyStore ELSE disk
       IN layerDb' = saved.layers /\ imageDb' = saved.images
    /\ nextDir' = NextLayerIndex
    /\ mounts' = [m \in 1..Len(mounts) |->
                    [mounts[m] EXCEPT !.daemon = IF @ = "served" THEN "gone" ELSE @]]
    /\ UNCHANGED <<disk, dirs, answered, verified, pulls, fails>>

-----------------------------------------------------------------------------
Layer(i) == StartTask(i) \/ OpenLayer(i) \/ Unpack(i) \/ Verify(i)

Run == Manifest \/ CheckSignature \/ LayersDone \/ StartDaemon \/ CreateBundle \/ NydusCached
         \/ ConfigCached \/ Config \/ TruncateMeta \/ SaveMeta

Next ==
    \/ \E img \in Images : Start(img)
    \/ Run \/ EarlyError \/ BundleError \/ SaveError \/ Restart
    \/ \E i \in DOMAIN task : Layer(i) \/ LayerError(i)

\* The executor polls the pull and each of its layer tasks.
Fairness ==
    /\ WF_vars(Run)
    /\ WF_vars(\E i \in DOMAIN task : Layer(i))

Spec == Init /\ [][Next]_vars /\ Fairness

-----------------------------------------------------------------------------
(* Properties.                                                              *)

\* What the manifest lists for a bundle: all its layers, or the bootstrap that
\* the daemon reads.  It is said of the manifest, not of what is downloaded.
Listed(img) ==
    IF IsNydusImage(img) THEN <<LayersOf[img][Len(LayersOf[img])]>> ELSE LayersOf[img]

\* What the bundles handed out amount to for the caller, at the time: each pull
\* that succeeds hands out the layers that the image's manifest lists, as
\* ImageStore promises, but for its two exceptions, a layer that is repeated
\* and a nydus image whose daemon did not start, of which the bundle is empty.
Bundle(n) ==
    [image |-> mounts[n].image,
     rootfs |-> IF mounts[n].daemon = "failed" THEN <<>> ELSE Reversed(Contents(mounts[n].stack))]
Bundles == {Bundle(n) : n \in answered}
Abstract == INSTANCE ImageStore WITH
    LayersOf <- [img \in Images |-> Listed(img)], Served <- Nydus, bundles <- Bundles
ImplementsImageStore == Abstract!Spec

\* Every directory the meta store names, in memory or in the file the next
\* client will read, holds exactly the verified layer it is filed under: not
\* a partial one of a dropped task, nor one rewritten after a restart.
SoundStore(s) ==
    /\ \A d \in Digests : s.layers[d] # None => Content(s.layers[d]) = d
    /\ \A img \in Images : s.images[img] # <<>> =>
          Abstract!Shows(Contents(s.images[img]), Listed(img))
LayerDbSound ==
    /\ SoundStore([layers |-> layerDb, images |-> imageDb])
    /\ disk # None => SoundStore(disk)

\* A mount has the layers that the manifest lists, each once, the manifest's
\* last uppermost, whatever order the downloads complete in, and goes on having
\* them: no later pull, failure or restart touches a directory below a mount.
\* Below a nydus mount that is the directory of the bootstrap its daemon reads.
\* The exception is a layer that the manifest repeats, which the overlay should
\* have in its last place: create_image_meta keeps the first, so that layers
\* between the two may lie over it; nothing is said of its order with them.
MountsIntact ==
    \A m \in 1..Len(mounts) :
        Abstract!Shows(Reversed(Contents(mounts[m].stack)), Listed(mounts[m].image))

\* No bundle is created of an image whose signature was not checked, in this
\* process or in the one that filed it in image_db.
MountsVerified == \A m \in 1..Len(mounts) : mounts[m].image \in verified

\* Every pull ends, after at most Attempts attempts for a layer.
PullsEnd == (pull.pc # "idle") ~> (pull.pc = "idle")
=============================================================================

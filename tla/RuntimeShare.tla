---------------------------- MODULE RuntimeShare ----------------------------
(***************************************************************************)
(* The runtime CVM's side of rootfs sharing: guest_pull_image, which asks  *)
(* the image CVM for a share of an image's rootfs and mounts it.           *)
(*                                                                         *)
(* Pulls run one at a time (the hub's Mutex around its image client).      *)
(* Beside them run prefetches and preconnects, which meet the pull only in *)
(* three statics: the preconnected stream, the prefetched answer and a     *)
(* lock around requests.  There is one block device, /dev/cocoimg0.        *)
(*                                                                         *)
(* The image CVM and the kernel are modelled from their use.  A restart of *)
(* the image CVM (a new epoch) kills its connections and its shares.  A    *)
(* device that is mounted may or may not let itself be destroyed.          *)
(***************************************************************************)
EXTENDS Integers, Sequences, FiniteSets

CONSTANTS
    Refs,            \* image references
    Bundles,         \* bundle directories
    Prefetchers,     \* prefetches that run at a time
    None,
    MaxPulls,        \* bound on pulls
    MaxPrefetches,   \* bound on prefetches and preconnects
    MaxRestarts,     \* bound on restarts, of the image CVM and of the hub
    MaxFails         \* bound on failures of requests, commands and the device

ASSUME RuntimeShareAssumption ==
    /\ None \notin Refs \cup Bundles \cup Prefetchers \cup {"ok", "error"}
    /\ None \notin [ref : Refs, config : Refs \cup {None}, epoch : Nat, num : Nat]
    /\ "pull" \notin Prefetchers
    /\ MaxPulls \in Nat /\ MaxPrefetches \in Nat
    /\ MaxRestarts \in Nat /\ MaxFails \in Nat

VARIABLES
    epoch,       \* of the image CVM
    answers,     \* answers the image CVM has given: each has a number
    stream,      \* FAST_PRECONNECTED_STREAM: the epoch of its connection
    prefetched,  \* FAST_PREPARED_ROOTFS: an answer
    lock,        \* FAST_PREPARE_LOCK: its holder
    prefetch,    \* the prefetches
    pull,        \* the pull
    device,      \* the share behind /dev/cocoimg0
    lower,       \* the stack of mounts on <bundle>/lower
    rootfs,      \* the stack of mounts on <bundle>/rootfs
    config,      \* the image <bundle>/config.json is of
    used,        \* (history) the answers pulls have taken
    pulls, prefetches, restarts, fails

statics == <<stream, prefetched, lock>>
mounts == <<lower, rootfs>>
bounds == <<pulls, prefetches, restarts, fails>>
vars == <<epoch, answers, statics, prefetch, pull, device, mounts, config, used, bounds>>

NoPrefetch == [pc |-> "idle", ref |-> None, conn |-> None, answer |-> None]
NoPull == [pc |-> "idle", ref |-> None, bundle |-> None, conn |-> None, answer |-> None,
           out |-> None, fault |-> FALSE]

Init ==
    /\ epoch = 1 /\ answers = 0
    /\ stream = None /\ prefetched = None /\ lock = None
    /\ prefetch = [t \in Prefetchers |-> NoPrefetch]
    /\ pull = NoPull
    /\ device = None
    /\ lower = [b \in Bundles |-> <<>>]
    /\ rootfs = [b \in Bundles |-> <<>>]
    /\ config = [b \in Bundles |-> None]
    /\ used = {}
    /\ pulls = 0 /\ prefetches = 0 /\ restarts = 0 /\ fails = 0

\* What the image CVM answers for a reference (SharedRootfs); the bundle's
\* config.json is not in it if the image CVM could not read that.
Answer(ref, conf) == [ref |-> ref, config |-> conf, epoch |-> epoch, num |-> answers + 1]
Configs(ref) == IF fails < MaxFails THEN {ref, None} ELSE {ref}

\* prepare_rootfs_fast_uncached: the preconnected stream or a new one.
Connection == IF stream # None THEN stream ELSE epoch

Fail == fails < MaxFails /\ fails' = fails + 1

-----------------------------------------------------------------------------
(* preconnect_fast_image_share and prefetch_prepare_rootfs_fast.            *)

\* The connection is made, and replaces one that is there.
Preconnect ==
    /\ prefetches < MaxPrefetches /\ prefetches' = prefetches + 1
    /\ stream' = epoch
    /\ UNCHANGED <<epoch, answers, prefetched, lock, prefetch, pull, device, mounts,
                   config, used, pulls, restarts, fails>>

StartPrefetch(t, ref) ==
    /\ prefetch[t].pc = "idle"
    /\ prefetches < MaxPrefetches /\ prefetches' = prefetches + 1
    /\ prefetch' = [prefetch EXCEPT ![t] = [NoPrefetch EXCEPT !.pc = "lock", !.ref = ref]]
    /\ UNCHANGED <<epoch, answers, statics, pull, device, mounts, config, used,
                   pulls, restarts, fails>>

EndPrefetch(t) == prefetch' = [prefetch EXCEPT ![t] = NoPrefetch]

\* The lock is free.  An answer that is there already ends the prefetch; else
\* it goes on with a connection.
PrefetchSkips(t) ==
    /\ prefetch[t].pc = "lock" /\ lock = None
    /\ prefetched # None /\ prefetched.ref = prefetch[t].ref
    /\ EndPrefetch(t)
    /\ UNCHANGED <<epoch, answers, statics, pull, device, mounts, config, used, bounds>>

PrefetchConnects(t) ==
    /\ prefetch[t].pc = "lock" /\ lock = None
    /\ ~(prefetched # None /\ prefetched.ref = prefetch[t].ref)
    /\ lock' = t
    /\ prefetch' = [prefetch EXCEPT ![t].pc = "request", ![t].conn = Connection]
    /\ stream' = None
    /\ UNCHANGED <<epoch, answers, prefetched, pull, device, mounts, config, used, bounds>>

PrefetchAnswered(t) ==
    /\ prefetch[t].pc = "request" /\ prefetch[t].conn = epoch
    /\ \E c \in Configs(prefetch[t].ref) :
          /\ prefetch' = [prefetch EXCEPT ![t].pc = "store",
                                          ![t].answer = Answer(prefetch[t].ref, c)]
          /\ fails' = IF c = None THEN fails + 1 ELSE fails
    /\ answers' = answers + 1
    /\ UNCHANGED <<epoch, statics, pull, device, mounts, config, used,
                   pulls, prefetches, restarts>>

\* An error, a dead connection or the end of FAST_PREFETCH_TIMEOUT_SECS.
PrefetchFails(t) ==
    /\ prefetch[t].pc = "request"
    /\ prefetch[t].conn = epoch => fails < MaxFails
    /\ fails' = IF prefetch[t].conn = epoch THEN fails + 1 ELSE fails
    /\ EndPrefetch(t)
    /\ lock' = None
    /\ UNCHANGED <<epoch, answers, stream, prefetched, pull, device, mounts, config, used,
                   pulls, prefetches, restarts>>

PrefetchStores(t) ==
    /\ prefetch[t].pc = "store"
    /\ prefetched' = prefetch[t].answer
    /\ EndPrefetch(t)
    /\ lock' = None
    /\ UNCHANGED <<epoch, answers, stream, pull, device, mounts, config, used, bounds>>

-----------------------------------------------------------------------------
(* guest_mount_shared_rootfs: the answer.                                   *)

At(pc) == pull.pc = pc
Goto(pc) == pull' = [pull EXCEPT !.pc = pc]
\* fault is a history variable: a command, a file operation or the fallback
\* failed by itself.  The failure of the fast path is none.
Error(fault) == pull' = [pull EXCEPT !.pc = "idle", !.out = "error", !.fault = fault]

Start(ref, b) ==
    /\ At("idle") /\ pulls < MaxPulls
    /\ pulls' = pulls + 1
    /\ pull' = [NoPull EXCEPT !.pc = "take", !.ref = ref, !.bundle = b]
    /\ UNCHANGED <<epoch, answers, statics, prefetch, device, mounts, config, used,
                   prefetches, restarts, fails>>

\* take_prefetched_rootfs
Matches == prefetched # None /\ prefetched.ref = pull.ref
TakeAny ==
    /\ prefetched # None
    /\ pull' = [pull EXCEPT !.pc = "config", !.answer = prefetched]
    /\ used' = used \cup {prefetched.num}
    /\ prefetched' = None
TakeCopy ==
    /\ Matches
    /\ pull' = [pull EXCEPT !.pc = "config", !.answer = prefetched]
    /\ used' = used \cup {prefetched.num}
    /\ UNCHANGED prefetched
Take ==
    /\ Matches
    /\ pull' = [pull EXCEPT !.pc = "config", !.answer = prefetched]
    /\ used' = used \cup {prefetched.num}
    /\ prefetched' = None

TakePrefetched ==
    /\ At("take")
    /\ Take \/ (~Matches /\ Goto("lock") /\ UNCHANGED <<prefetched, used>>)
    /\ UNCHANGED <<epoch, answers, stream, lock, prefetch, device, mounts, config, bounds>>

\* The lock is free: the second look at the prefetched answer, then a
\* connection.
PullLock ==
    /\ At("lock") /\ lock = None
    /\ \/ Take /\ UNCHANGED <<lock, stream>>
       \/ /\ ~Matches
          /\ lock' = "pull"
          /\ pull' = [pull EXCEPT !.pc = "request", !.conn = Connection]
          /\ stream' = None
          /\ UNCHANGED <<prefetched, used>>
    /\ UNCHANGED <<epoch, answers, prefetch, device, mounts, config, bounds>>

Answered(pc) ==
    /\ At(pc)
    /\ \E c \in Configs(pull.ref) :
          /\ pull' = [pull EXCEPT !.pc = "config", !.answer = Answer(pull.ref, c)]
          /\ fails' = IF c = None THEN fails + 1 ELSE fails
    /\ answers' = answers + 1
    /\ used' = used \cup {answers + 1}

PullAnswered ==
    /\ Answered("request") /\ pull.conn = epoch
    /\ lock' = None
    /\ UNCHANGED <<epoch, stream, prefetched, prefetch, device, mounts, config,
                   pulls, prefetches, restarts>>

\* The fast path fails, or its connection was dead: on to the tonic server.
PullFastFailsForGood ==
    /\ At("request")
    /\ pull.conn = epoch => fails < MaxFails
    /\ fails' = IF pull.conn = epoch THEN fails + 1 ELSE fails
    /\ pull' = [pull EXCEPT !.pc = "idle", !.out = "error"]
    /\ lock' = None
    /\ UNCHANGED <<epoch, answers, stream, prefetched, prefetch, device, mounts, config, used,
                   pulls, prefetches, restarts>>
PullFastFailsAlive ==
    /\ At("request")
    /\ pull.conn = epoch /\ Fail
    /\ Goto("fallback")
    /\ lock' = None
    /\ UNCHANGED <<epoch, answers, stream, prefetched, prefetch, device, mounts, config, used,
                   pulls, prefetches, restarts>>
PullFastFails ==
    /\ At("request")
    /\ pull.conn = epoch => fails < MaxFails
    /\ fails' = IF pull.conn = epoch THEN fails + 1 ELSE fails
    /\ Goto("fallback")
    /\ lock' = None
    /\ UNCHANGED <<epoch, answers, stream, prefetched, prefetch, device, mounts, config, used,
                   pulls, prefetches, restarts>>

Fallback ==
    /\ Answered("fallback")
    /\ UNCHANGED <<epoch, statics, prefetch, device, mounts, config,
                   pulls, prefetches, restarts>>

-----------------------------------------------------------------------------
(* The bundle: mount_prepared_shared_rootfs_fast_path and                   *)
(* mount_shared_rootfs_image.                                               *)

same == <<epoch, answers, statics, prefetch, used>>

\* An answer without a config.json leaves the one that is there.
WriteConfig ==
    /\ At("config")
    /\ config' = IF pull.answer.config = None THEN config
                 ELSE [config EXCEPT ![pull.bundle] = pull.answer.config]
    /\ Goto("destroy")
    /\ UNCHANGED <<same, device, mounts, bounds>>

Mounted == \E b \in Bundles : lower[b] # <<>>

\* destroy_device, whose result is ignored.
DestroyDevice ==
    /\ At("destroy")
    /\ device' = None \/ (Mounted /\ UNCHANGED device)
    /\ Goto("create")
    /\ UNCHANGED <<same, mounts, config, bounds>>

\* create_device: for a share that exists, if there is no device.
CreateDevice ==
    /\ At("create") /\ device = None /\ pull.answer.epoch = epoch
    /\ device' = pull.answer
    /\ Goto("preflight")
    /\ UNCHANGED <<same, mounts, config, bounds>>

CreateRefused ==
    /\ At("create") /\ ~(device = None /\ pull.answer.epoch = epoch)
    /\ Error(FALSE)
    /\ UNCHANGED <<same, device, mounts, config, bounds>>

Preflight ==
    /\ At("preflight")
    /\ Goto("umountRootfs")
    /\ UNCHANGED <<same, device, mounts, config, bounds>>

\* cleanup_shared_rootfs_mount: the overlay first, then its lower directory.
Pop(stack) == IF stack = <<>> THEN <<>> ELSE SubSeq(stack, 1, Len(stack) - 1)

UmountLowerFirst ==
    \/ /\ At("umountRootfs") /\ Goto("umountLower")
       /\ lower' = [lower EXCEPT ![pull.bundle] = Pop(@)]
       /\ UNCHANGED rootfs
    \/ /\ At("umountLower") /\ Goto("mountLower")
       /\ rootfs' = [rootfs EXCEPT ![pull.bundle] = Pop(@)]
       /\ UNCHANGED lower
Umount ==
    \/ /\ At("umountRootfs") /\ Goto("umountLower")
       /\ rootfs' = [rootfs EXCEPT ![pull.bundle] = Pop(@)]
       /\ UNCHANGED lower
    \/ /\ At("umountLower") /\ Goto("mountLower")
       /\ lower' = [lower EXCEPT ![pull.bundle] = Pop(@)]
       /\ UNCHANGED rootfs

Cleanup == Umount /\ UNCHANGED <<same, device, config, bounds>>

MountLower ==
    /\ At("mountLower")
    /\ lower' = [lower EXCEPT ![pull.bundle] = Append(@, device)]
    /\ Goto("mountRootfs")
    /\ UNCHANGED <<same, device, rootfs, config, bounds>>

\* The overlay; guest_pull_image returns.
MountRootfs ==
    /\ At("mountRootfs")
    /\ rootfs' = [rootfs EXCEPT ![pull.bundle] = Append(@, lower[pull.bundle][Len(lower[pull.bundle])])]
    /\ pull' = [pull EXCEPT !.pc = "idle", !.out = "ok"]
    /\ UNCHANGED <<same, device, lower, config, bounds>>

\* The request, a command, an ioctl or a file operation fails.
StepFails ==
    /\ pull.pc \in {"fallback", "config", "create", "preflight", "umountRootfs",
                    "umountLower", "mountLower", "mountRootfs"} /\ Fail
    /\ Error(TRUE)
    /\ UNCHANGED <<same, device, mounts, config, pulls, prefetches, restarts>>

-----------------------------------------------------------------------------
(* Restarts.                                                                *)

ImageCvmRestarts ==
    /\ restarts < MaxRestarts /\ restarts' = restarts + 1
    /\ epoch' = epoch + 1
    /\ UNCHANGED <<answers, statics, prefetch, pull, device, mounts, config, used,
                   pulls, prefetches, fails>>

\* The hub's statics and tasks are gone; the device, mounts and files stay.
HubRestarts ==
    /\ restarts < MaxRestarts /\ restarts' = restarts + 1
    /\ stream' = None /\ prefetched' = None /\ lock' = None
    /\ prefetch' = [t \in Prefetchers |-> NoPrefetch]
    /\ pull' = NoPull
    /\ UNCHANGED <<epoch, answers, device, mounts, config, used, pulls, prefetches, fails>>

-----------------------------------------------------------------------------
Prefetch(t) ==
    \/ PrefetchSkips(t) \/ PrefetchConnects(t) \/ PrefetchAnswered(t)
    \/ PrefetchFails(t) \/ PrefetchStores(t)

Pull ==
    \/ TakePrefetched \/ PullLock \/ PullAnswered \/ PullFastFails \/ Fallback
    \/ WriteConfig \/ DestroyDevice \/ CreateDevice \/ CreateRefused \/ Preflight
    \/ Cleanup \/ MountLower \/ MountRootfs

Next ==
    \/ Preconnect \/ Pull \/ StepFails \/ ImageCvmRestarts \/ HubRestarts
    \/ \E ref \in Refs, b \in Bundles : Start(ref, b)
    \/ \E t \in Prefetchers : Prefetch(t) \/ \E ref \in Refs : StartPrefetch(t, ref)

\* Requests are answered or fail, and the executor polls the tasks.  Tokio's
\* mutex is fair, so that prefetches cannot keep a pull from the lock.
Fairness == SF_vars(Pull) /\ \A t \in Prefetchers : WF_vars(Prefetch(t))

Spec == Init /\ [][Next]_vars /\ Fairness

-----------------------------------------------------------------------------
(* Properties.                                                              *)

\* A pull that succeeds leaves a bundle of the image it was asked for: the
\* overlay over the lower directory, that over a share of the image, and the
\* image's own config.json if the answer had it, wherever that came from.
PulledBundleIsRequested ==
    pull.out = "ok" =>
        LET b == pull.bundle
        IN /\ pull.answer.config # None => config[b] = pull.ref
           /\ rootfs[b] = lower[b]
           /\ rootfs[b][Len(rootfs[b])].ref = pull.ref

\* No mount is ever stacked on another, and no overlay outlives the lower
\* directory under it: whatever fails or restarts between the four commands,
\* the next pull into the bundle cleans up what is there, top down.
MountsNested ==
    \A b \in Bundles :
        /\ Len(lower[b]) <= 1
        /\ rootfs[b] = <<>> \/ rootfs[b] = lower[b]

\* A pull that fails leaves nothing cached of what made it fail: an answer is
\* used by one pull, so that a share that went away with the image CVM costs
\* that pull and not the next one too.
AnswersUsedOnce == prefetched # None => prefetched.num \notin used

\* A pull that no command, no file operation and no fallback failed returns an
\* error only because the share it was answered went away with the image CVM,
\* or because the device is held by a bundle that is mounted.  A preconnected
\* stream that is dead, a fast path that fails, a prefetch that was cut off and
\* a device or mounts an earlier pull or hub left behind fail no pull.
PullFailsForAReason ==
    pull.out = "error" /\ ~pull.fault =>
        \/ pull.answer # None /\ pull.answer.epoch # epoch
        \/ device # None /\ Mounted

\* Every pull returns and no lock is held for ever.
PullsEnd == (pull.pc # "idle") ~> (pull.pc = "idle")
=============================================================================

---------------------------- MODULE SharedRootfs ----------------------------
(***************************************************************************)
(* The image CVM's side of rootfs sharing: the vsock server that answers   *)
(* PrepareRootfs requests and the directory of files it works with.        *)
(*                                                                         *)
(* A request looks for a cache entry of its image reference, waits while   *)
(* another request has marked the reference pending, falls back to the     *)
(* index of pulled bundles, or has the Confidential Data Hub pull the      *)
(* image; then it builds a rootfs image file, has the RMM share it, and    *)
(* stores the cache entry under the reference and the image id.            *)
(*                                                                         *)
(* Requests run on several threads and every operation on the cache's      *)
(* entries, the images and the sidecars is a step of its own; a write of   *)
(* the bundle index is one step.  There is no lock: the pending file is    *)
(* the only coordination.                                                  *)
(* Files outlive the server process, and so do the shares.                 *)
(***************************************************************************)
EXTENDS Integers, Sequences, FiniteSets

CONSTANTS
    Requests,     \* request slots served concurrently
    Refs,         \* image references
    Ids,          \* image ids
    Worlds,       \* the ids the registry has for the references (ids), what
                  \* sanitize_path_component makes of references and ids (names),
                  \* COCO_SHARED_ROOTFS_HASH_IMAGE (hashing), the references
                  \* that are asked for (asked), and the bounds on the requests
                  \* that arrive (requests) and on failing pulls, builds, shares
                  \* and cancellations (fails)
    Formats,      \* rootfs_image_format_candidates, in order of preference
    FixedSize,    \* the formats whose file has its full size from the start
    None,
    Empty, Torn,  \* files that do not parse: truncated, written over by two
    MaxCrashes    \* bound on crashes of the server

FormatSet == {Formats[i] : i \in 1..Len(Formats)}

\* SharedRootfsCacheEntry, with what an image file may hold and its size.
Kinds == {"none", "partial", "complete"}
Sizes == Kinds \cup {"full"}
EntryRecord == [ref : Refs, id : Ids, fmt : FormatSet, size : Sizes,
                digest : Kinds \cup {"imageId"}, share : Nat]

ASSUME SharedRootfsAssumption ==
    /\ Refs \cap Ids = {}
    /\ \A w \in Worlds :
          /\ w.ids \in [Refs -> Ids] /\ w.hashing \in BOOLEAN
          /\ w.asked \subseteq Refs /\ w.requests \in Nat /\ w.fails \in Nat
          /\ DOMAIN w.names = Refs \cup Ids
          /\ \A i \in Ids, k \in Refs \cup Ids : w.names[i] = w.names[k] => i = k
    /\ Len(Formats) \in Nat \ {0}
    /\ None \notin {Empty, Torn}
    /\ {None, Empty, Torn} \cap (Refs \cup Ids \cup EntryRecord) = {}
    /\ MaxCrashes \in Nat

VARIABLES
    req,       \* the requests in progress
    cache,     \* cache/<key>.json
    tmp,       \* cache/<key>.json.tmp
    index,     \* bundle-index/<key>.bundle.json: the id it names
    pending,   \* the keys with a cache/<key>.pending file
    image,     \* images/<id>.<format>: how far it is written, by whom, and when
    sidecar,   \* images/<id>.<format>.sha256.json
    shares,    \* the RMM shares: a share id is a position
    replies,   \* (history) the answers given
    hurt,      \* (history) ids whose build was cut short or overlapped another
    clash,     \* (history) keys whose entry two requests wrote at once
    world,     \* the registry and the settings
    arrived, crashes, fails

files == <<cache, tmp, index, pending, image, sidecar>>
history == <<replies, hurt, clash>>
bounds == <<arrived, crashes, fails>>
vars == <<req, files, shares, history, bounds, world>>

\* sanitize_path_component: the files of two references may be the same; an
\* id, "sha256:" and hex digits, has its own.
Key(x) == world.names[x]
Keys == {Key(x) : x \in Refs \cup Ids}

\* The size a stat of an image file gives: a file of fixed size has it while
\* mkfs is still filling it.
Size(fmt, content) == IF fmt \in FixedSize THEN "full" ELSE content

\* build_rootfs_image did not run yet, is running (for request p), or is done.
NoImage == [content |-> "none", by |-> None, mtime |-> 0]

IdleReq == [pc |-> "idle", ref |-> None, id |-> None, marked |-> FALSE, remarked |-> FALSE,
            fmt |-> 1, entry |-> None, ok |-> FALSE, file |-> "none",
            built |-> FALSE, mtime |-> 0]

Init ==
    /\ world \in Worlds
    /\ req = [p \in Requests |-> IdleReq]
    /\ cache = [k \in Keys |-> None]
    /\ tmp = [k \in Keys |-> None]
    /\ index = [k \in Keys |-> None]
    /\ pending = {}
    /\ image = [i \in Ids |-> [f \in FormatSet |-> NoImage]]
    /\ sidecar = [i \in Ids |-> [f \in FormatSet |-> None]]
    /\ shares = <<>>
    /\ replies = {}
    /\ hurt = {} /\ clash = {}
    /\ arrived = 0 /\ crashes = 0 /\ fails = 0

-----------------------------------------------------------------------------
(* Steps of one request.                                                    *)

At(p, pc) == req[p].pc = pc
Goto(p, pc) == req' = [req EXCEPT ![p].pc = pc]

\* validate_shared_rootfs_cache_entry: the image file is there and has the
\* recorded size.
Valid(e) ==
    /\ image[e.id][e.fmt].content # "none"
    /\ Size(e.fmt, image[e.id][e.fmt].content) = e.size

Unreadable == {Empty, Torn}

\* read_shared_rootfs_cache_entry: absent, an error, or an entry.
Read(x) ==
    LET key == Key(x) IN
    IF cache[key] = None THEN "none"
    ELSE IF cache[key] \in Unreadable THEN "invalid"
    ELSE IF Valid(cache[key]) THEN "hit" ELSE "invalid"

\* shared_rootfs_cache_pending and clear_shared_rootfs_cache_pending.
IsMarked(ref) == Key(ref) \in pending
Marked(ref) == pending \cup {Key(ref)}
Unmarked(ref) == pending \ {Key(ref)}

\* validate_shared_rootfs_bundle_entry: bundles are not removed, so that every
\* entry of the index has its bundle.
BundleOf(ref) == index[Key(ref)]

Fail == fails < world.fails /\ fails' = fails + 1

\* Go on with entry e (ok) or with an error.
Settle(p, pc, e, isOk) ==
    req' = [req EXCEPT ![p].pc = pc, ![p].entry = e, ![p].ok = isOk]

\* A PrepareRootfs request arrives on the tonic or the fast port.
Arrive(p, ref) ==
    /\ At(p, "idle") /\ arrived < world.requests
    /\ arrived' = arrived + 1
    /\ req' = [req EXCEPT ![p] = [IdleReq EXCEPT !.pc = "lookup", !.ref = ref]]
    /\ UNCHANGED <<files, shares, history, crashes, fails>>

\* lookup_cached_shared_rootfs: the first read; an invalid entry is a miss.
Lookup(p) ==
    /\ At(p, "lookup")
    /\ IF Read(req[p].ref) = "hit"
         THEN Settle(p, "reply", cache[Key(req[p].ref)], TRUE)
         ELSE Goto(p, "isPending")
    /\ UNCHANGED <<files, shares, history, bounds>>

IsPending(p) ==
    /\ At(p, "isPending")
    /\ Goto(p, IF IsMarked(req[p].ref) THEN "wait" ELSE "bundle")
    /\ UNCHANGED <<files, shares, history, bounds>>

\* One round of the polling loop: the read ...
Poll(p) ==
    /\ At(p, "wait")
    /\ CASE Read(req[p].ref) = "hit" -> Settle(p, "reply", cache[Key(req[p].ref)], TRUE)
         [] Read(req[p].ref) = "invalid" -> Settle(p, "reply", None, FALSE)
         [] OTHER -> Goto(p, "stillPending")
    /\ UNCHANGED <<files, shares, history, bounds>>

\* ... and the pending file, gone or there; it may outlast the timeout.
StillPendingForever(p) ==
    /\ At(p, "stillPending")
    /\ Goto(p, IF IsMarked(req[p].ref) THEN "wait" ELSE "bundle")
    /\ UNCHANGED <<files, shares, history, bounds>>
StillPending(p) ==
    /\ At(p, "stillPending")
    /\ \/ IsMarked(req[p].ref) /\ Goto(p, "wait")
       \/ Goto(p, "bundle")      \* cleared, or PENDING_CACHE_WAIT_SECS over
    /\ UNCHANGED <<files, shares, history, bounds>>

\* lookup_pulled_bundle: an index entry saves the pull.
LookupBundle(p) ==
    /\ At(p, "bundle")
    /\ LET id == BundleOf(req[p].ref)
       IN req' = [req EXCEPT ![p].id = id,
                             ![p].pc = IF id = None THEN "mark" ELSE "prepare"]
    /\ UNCHANGED <<files, shares, history, bounds>>

\* mark_shared_rootfs_cache_pending before the pull.
Mark(p) ==
    /\ At(p, "mark")
    /\ pending' = Marked(req[p].ref)
    /\ req' = [req EXCEPT ![p].pc = "pull", ![p].marked = TRUE]
    /\ UNCHANGED <<cache, tmp, index, image, sidecar, shares, history, bounds>>

\* The bundle directory cannot be made; or the mark cannot, which is ignored.
MarkFails(p) ==
    /\ At(p, "mark") /\ Fail
    /\ Settle(p, "reply", None, FALSE) \/ Goto(p, "pull")
    /\ UNCHANGED <<files, shares, history, arrived, crashes>>

\* The CDH pulls the image into a bundle of this request ...
Pull(p) ==
    /\ At(p, "pull")
    /\ req' = [req EXCEPT ![p].id = world.ids[req[p].ref], ![p].pc = "index"]
    /\ UNCHANGED <<files, shares, history, bounds>>

\* ... or fails, or the call runs into its timeout: clear and answer.
PullFails(p) ==
    /\ At(p, "pull") /\ Fail
    /\ pending' = IF req[p].marked THEN Unmarked(req[p].ref) ELSE pending
    /\ Settle(p, "reply", None, FALSE)
    /\ UNCHANGED <<cache, tmp, index, image, sidecar, shares, history, arrived, crashes>>

\* write_shared_rootfs_bundle_entry, under the reference and the id.  The file
\* operations of the two writes are taken together: where they meet another
\* request's for the same image they leave the entry of one of them, or one
\* that cannot be read, which lookup_pulled_bundle takes for none, as it does
\* what IndexFails leaves.
WriteIndex(p) ==
    /\ At(p, "index")
    /\ index' = [index EXCEPT ![Key(req[p].ref)] = req[p].id, ![Key(req[p].id)] = req[p].id]
    /\ Goto(p, "prepare")
    /\ UNCHANGED <<cache, tmp, pending, image, sidecar, shares, history, bounds>>

\* An error is ignored, and the index is written in part or not at all.
IndexFails(p) ==
    /\ At(p, "index") /\ Fail
    /\ index' = [index EXCEPT ![Key(req[p].ref)] = req[p].id] \/ UNCHANGED index
    /\ Goto(p, "prepare")
    /\ UNCHANGED <<cache, tmp, pending, image, sidecar, shares, history, arrived, crashes>>

\* prepare_shared_rootfs_cache_from_bundle: the entry of the reference, the
\* entry of the id under another reference, or a new one.  An invalid entry
\* is an error here.
ReadByRef(p) ==
    /\ At(p, "prepare")
    /\ CASE Read(req[p].ref) = "hit" -> Settle(p, "clear", cache[Key(req[p].ref)], TRUE)
         [] Read(req[p].ref) = "invalid" -> Settle(p, "clear", None, FALSE)
         [] OTHER -> Goto(p, "prepareId")
    /\ UNCHANGED <<files, shares, history, bounds>>

ReadById(p) ==
    /\ At(p, "prepareId")
    /\ LET id == req[p].id IN
       CASE Read(id) = "hit" ->
              Settle(p, "check", [cache[Key(id)] EXCEPT !.ref = req[p].ref, !.id = id], TRUE)
         [] Read(id) = "invalid" -> Settle(p, "clear", None, FALSE)
         [] OTHER -> Goto(p, "remark")
    /\ UNCHANGED <<files, shares, history, bounds>>

\* (history) request q is between its mark and a finished image file.
Building(q, id) == req[q].id = id /\ req[q].pc \in {"image", "mkfs", "mkfsRuns"}

\* The second mark, which covers building and sharing the image.
Remark(p) ==
    /\ At(p, "remark")
    /\ pending' = Marked(req[p].ref)
    /\ req' = [req EXCEPT ![p].pc = "image", ![p].remarked = TRUE]
    /\ hurt' = IF \E q \in Requests : Building(q, req[p].id)
               THEN hurt \cup {req[p].id} ELSE hurt
    /\ UNCHANGED <<cache, tmp, index, image, sidecar, shares, replies, clash, bounds>>

RemarkFails(p) ==
    /\ At(p, "remark") /\ Fail
    /\ Settle(p, "clear", None, FALSE)
    /\ UNCHANGED <<files, shares, history, arrived, crashes>>

\* The entry of the inner function; the share comes later, and so does the
\* digest if there is to be one.
NewEntry(p, f, file) ==
    [ref |-> req[p].ref, id |-> req[p].id, fmt |-> f,
     size |-> Size(f, file.content), digest |-> "imageId", share |-> 0]

\* The stat of the image file: its size is the entry's, its mtime the
\* sidecar's.  What is shared is hashed first if that is asked for.
Stat(p, f, file, isBuilt) ==
    req' = [req EXCEPT ![p].pc = IF world.hashing THEN "digest" ELSE "share",
                       ![p].entry = NewEntry(p, f, file),
                       ![p].ok = TRUE, ![p].built = isBuilt,
                       ![p].mtime = IF world.hashing THEN file.mtime ELSE 0]

\* A file written: its time of modification is new.
File(id, f, content, by) ==
    [content |-> content, by |-> by,
     mtime |-> IF world.hashing THEN image[id][f].mtime + 1 ELSE 0]

\* prepare_shared_rootfs_image: a file that exists is taken as it is; else
\* build_rootfs_image removes what is there by now and starts mkfs.
TakeImage(p) ==
    /\ At(p, "image")
    /\ LET f == Formats[req[p].fmt]
       IN /\ image[req[p].id][f].content # "none"
          /\ Stat(p, f, image[req[p].id][f], FALSE)
    /\ UNCHANGED <<files, shares, history, bounds>>

NeedImageAlways(p) ==
    /\ At(p, "image")
    /\ Goto(p, "mkfs")
    /\ UNCHANGED <<files, shares, history, bounds>>
NeedImage(p) ==
    /\ At(p, "image")
    /\ image[req[p].id][Formats[req[p].fmt]].content = "none"
    /\ Goto(p, "mkfs")
    /\ UNCHANGED <<files, shares, history, bounds>>

\* The old file and its sidecar are removed.
StartMkfsNoWait(p) ==
    /\ At(p, "mkfs")
    /\ LET id == req[p].id  f == Formats[req[p].fmt]
       IN /\ image' = [image EXCEPT ![id][f] = File(id, f, "partial", p)]
          /\ sidecar' = [sidecar EXCEPT ![id][f] = None]
          /\ Stat(p, f, image'[id][f], TRUE)
    /\ UNCHANGED <<cache, tmp, index, pending, shares, history, bounds>>
StartMkfs(p) ==
    /\ At(p, "mkfs")
    /\ LET id == req[p].id  f == Formats[req[p].fmt]
       IN /\ image' = [image EXCEPT ![id][f] = File(id, f, "partial", p)]
          /\ sidecar' = [sidecar EXCEPT ![id][f] = None]
    /\ Goto(p, "mkfsRuns")
    /\ UNCHANGED <<cache, tmp, index, pending, shares, history, bounds>>

\* mkfs succeeds: the file is complete unless another request replaced it,
\* in which case the stat that follows sees the other one's file.
MkfsDone(p) ==
    /\ At(p, "mkfsRuns")
    /\ LET id == req[p].id
           f == Formats[req[p].fmt]
           now == IF image[id][f].by = p THEN File(id, f, "complete", None)
                  ELSE image[id][f]
       IN /\ image' = [image EXCEPT ![id][f] = now]
          /\ Stat(p, f, now, TRUE)
    /\ UNCHANGED <<cache, tmp, index, pending, sidecar, shares, history, bounds>>

\* mkfs fails: what it wrote stays; the next format is tried, or none is left.
TryNextFormat(p) ==
    IF req[p].fmt < Len(Formats)
      THEN req' = [req EXCEPT ![p].pc = "image", ![p].fmt = @ + 1]
      ELSE Settle(p, "unmark", None, FALSE)

MkfsFails(p) ==
    /\ At(p, "mkfsRuns") /\ Fail
    /\ hurt' = hurt \cup {req[p].id}
    /\ TryNextFormat(p)
    /\ UNCHANGED <<files, shares, replies, clash, arrived, crashes>>

\* read_rootfs_digest_sidecar: a sidecar for the size and the mtime the stat
\* saw saves the hashing; one that does not parse or match is ignored.
SidecarMatches(p, s) ==
    /\ s \notin {None, Torn}
    /\ s.size = req[p].entry.size /\ s.mtime = req[p].mtime

SidecarOf(p) == sidecar[req[p].id][req[p].entry.fmt]

\* sha256_file, of what the file holds by now.
Sha256(p) == image[req[p].id][req[p].entry.fmt].content

\* rootfs_digest_for_image, up to the sidecar's write.
DigestFor(p, found) ==
    /\ At(p, "digest")
    /\ req' = [req EXCEPT ![p].pc = IF found THEN "share" ELSE "sidecar",
                          ![p].entry.digest = IF found THEN SidecarOf(p).sha256 ELSE Sha256(p)]
    /\ UNCHANGED <<files, shares, history, bounds>>

ReadSidecar(p) == DigestFor(p, SidecarMatches(p, SidecarOf(p)))

\* write_rootfs_digest_sidecar, with the size and mtime of the stat.  Two that
\* write at once share the temporary file.
WriteSidecar(p) ==
    /\ At(p, "sidecar")
    /\ LET e == req[p].entry
           new == [size |-> e.size, mtime |-> req[p].mtime, sha256 |-> e.digest]
           twice == \E q \in Requests \ {p} : At(q, "sidecar") /\ req[q].id = e.id
       IN \E s \in IF twice THEN {new, Torn} ELSE {new} :
            sidecar' = [sidecar EXCEPT ![e.id][e.fmt] = s]
    /\ Goto(p, "share")
    /\ UNCHANGED <<cache, tmp, index, pending, image, shares, history, bounds>>

\* The file cannot be read, or the sidecar not be written: the build has
\* failed, or no image can be had.
DigestFails(p) ==
    /\ req[p].pc \in {"digest", "sidecar"} /\ Fail
    /\ IF req[p].built THEN TryNextFormat(p) ELSE Settle(p, "unmark", None, FALSE)
    /\ UNCHANGED <<files, shares, history, arrived, crashes>>

\* coco_image_share::create_from_file: the RMM shares the file's pages.
Share(p) ==
    /\ At(p, "share")
    /\ shares' = Append(shares, [id |-> req[p].id,
                    content |-> image[req[p].id][req[p].entry.fmt].content])
    /\ req' = [req EXCEPT ![p].pc = "check", ![p].entry.share = Len(shares) + 1,
                          ![p].mtime = 0, ![p].built = FALSE]
    /\ UNCHANGED <<files, history, bounds>>

ShareFailsGoesOn(p) ==
    /\ At(p, "share") /\ Fail
    /\ Settle(p, "unmark", req[p].entry, TRUE)
    /\ UNCHANGED <<files, shares, history, arrived, crashes>>
ShareFails(p) ==
    /\ At(p, "share") /\ Fail
    /\ Settle(p, "unmark", None, FALSE)
    /\ UNCHANGED <<files, shares, history, arrived, crashes>>

\* write_shared_rootfs_cache_entry: validate, then for the reference and then
\* for the id a temporary file that is renamed.
Check(p) ==
    /\ At(p, "check")
    /\ IF Valid(req[p].entry) THEN Goto(p, "openRef") ELSE Settle(p, "unmark", None, FALSE)
    /\ UNCHANGED <<files, shares, history, bounds>>

\* The temporary file's name depends on the key only: requests that write the
\* entry of one key at once share the file.
TmpOfAll(key) == CHOOSE k \in Keys : TRUE
TmpOf(key) == key

\* The key whose file request q has open, or is about to rename.
Writing(q, key) ==
    \/ req[q].pc \in {"fillRef", "renameRef"} /\ Key(req[q].ref) = key
    \/ req[q].pc \in {"fillId", "renameId"} /\ Key(req[q].id) = key

\* fs::write opens and truncates ...
OpenTmp(p, pc, key, next) ==
    /\ At(p, pc)
    /\ tmp' = [tmp EXCEPT ![TmpOf(key)] = Empty]
    /\ req' = [req EXCEPT ![p].pc = next, ![p].file = "tmp"]
    /\ clash' = IF \E q \in Requests : Writing(q, key) THEN clash \cup {key} ELSE clash
    /\ UNCHANGED <<cache, index, pending, image, sidecar, shares, replies, hurt, bounds>>

\* ... and writes: to the temporary file, or to the cache entry it has become
\* by another's rename.  Over another entry it may leave a mixture.
Written(old, new) == IF old = Empty THEN {new} ELSE {new, Torn}

FillTmp(p, pc, key, next) ==
    /\ At(p, pc)
    /\ \E c \in Written(tmp[TmpOf(key)], req[p].entry) :
          tmp' = IF req[p].file = "tmp" THEN [tmp EXCEPT ![TmpOf(key)] = c] ELSE tmp
    /\ \E c \in Written(cache[key], req[p].entry) :
          cache' = IF req[p].file = "cache" THEN [cache EXCEPT ![key] = c] ELSE cache
    /\ req' = [req EXCEPT ![p].pc = next, ![p].file = "none"]
    /\ UNCHANGED <<index, pending, image, sidecar, shares, history, bounds>>

\* The rename takes the file from under the others; the loser of the race
\* finds none to rename.
AfterRename(q, key) ==
    IF Writing(q, key) /\ req[q].file # "none"
      THEN [req[q] EXCEPT !.file = IF @ = "tmp" THEN "cache" ELSE "gone"]
      ELSE req[q]

Rename(p, pc, key, next) ==
    /\ At(p, pc)
    /\ IF tmp[TmpOf(key)] = None
         THEN /\ Settle(p, "unmark", None, FALSE)
              /\ UNCHANGED <<cache, tmp>>
         ELSE /\ cache' = [cache EXCEPT ![key] = tmp[TmpOf(key)]]
              /\ tmp' = [tmp EXCEPT ![TmpOf(key)] = None]
              /\ req' = [q \in Requests |-> IF q = p THEN [req[p] EXCEPT !.pc = next]
                                            ELSE AfterRename(q, key)]
    /\ UNCHANGED <<index, pending, image, sidecar, shares, history, bounds>>

WriteEntry(p) ==
    \/ OpenTmp(p, "openRef", Key(req[p].ref), "fillRef")
    \/ FillTmp(p, "fillRef", Key(req[p].ref), "renameRef")
    \/ Rename(p, "renameRef", Key(req[p].ref), "openId")
    \/ OpenTmp(p, "openId", Key(req[p].id), "fillId")
    \/ FillTmp(p, "fillId", Key(req[p].id), "renameId")
    \/ Rename(p, "renameId", Key(req[p].id), "unmark")

\* The write or the rename fails.
WriteFails(p) ==
    /\ req[p].pc \in {"fillRef", "renameRef", "fillId", "renameId"} /\ Fail
    /\ req' = [req EXCEPT ![p].pc = "unmark", ![p].entry = None, ![p].ok = FALSE,
                          ![p].file = "none"]
    /\ UNCHANGED <<files, shares, history, arrived, crashes>>

\* clear_shared_rootfs_cache_pending of the inner function, whatever its
\* result; the alias path, which made no mark of its own, clears none.
Unmark(p) ==
    /\ At(p, "unmark")
    /\ pending' = IF req[p].remarked THEN Unmarked(req[p].ref) ELSE pending
    /\ Goto(p, "clear")
    /\ UNCHANGED <<cache, tmp, index, image, sidecar, shares, history, bounds>>

\* prepare_rootfs_response clears the mark it made before the pull.
Clear(p) ==
    /\ At(p, "clear")
    /\ pending' = IF req[p].marked THEN Unmarked(req[p].ref) ELSE pending
    /\ Goto(p, "reply")
    /\ UNCHANGED <<cache, tmp, index, image, sidecar, shares, history, bounds>>

Reply(p) ==
    /\ At(p, "reply")
    /\ replies' = replies \cup {[ref |-> req[p].ref, ok |-> req[p].ok, entry |-> req[p].entry]}
    /\ req' = [req EXCEPT ![p] = IdleReq]
    /\ UNCHANGED <<files, shares, hurt, clash, bounds>>

\* The peer hangs up: the handler is dropped where it waits, its pending file
\* stays.
Cancel(p) ==
    /\ req[p].pc \in {"wait", "pull"} /\ Fail
    /\ req' = [req EXCEPT ![p] = IdleReq]
    /\ UNCHANGED <<files, shares, history, arrived, crashes>>

\* The server dies and is started again; running builds stay where they are.
Crash ==
    /\ crashes < MaxCrashes
    /\ crashes' = crashes + 1
    /\ hurt' = hurt \cup {req[p].id : p \in {q \in Requests : At(q, "mkfsRuns")}}
    /\ req' = [p \in Requests |-> IdleReq]
    /\ UNCHANGED <<files, shares, replies, clash, arrived, fails>>

-----------------------------------------------------------------------------
Serve(p) ==
    \/ Lookup(p) \/ IsPending(p) \/ Poll(p) \/ StillPending(p)
    \/ LookupBundle(p) \/ Mark(p) \/ Pull(p) \/ WriteIndex(p)
    \/ ReadByRef(p) \/ ReadById(p) \/ Remark(p)
    \/ TakeImage(p) \/ NeedImage(p) \/ StartMkfs(p) \/ MkfsDone(p)
    \/ ReadSidecar(p) \/ WriteSidecar(p)
    \/ Share(p) \/ Check(p) \/ WriteEntry(p)
    \/ Unmark(p) \/ Clear(p) \/ Reply(p)

Trouble(p) ==
    \/ MarkFails(p) \/ PullFails(p) \/ IndexFails(p) \/ RemarkFails(p)
    \/ MkfsFails(p) \/ DigestFails(p) \/ ShareFails(p) \/ WriteFails(p) \/ Cancel(p)

Next ==
    /\ \/ Crash
       \/ \E p \in Requests :
             \/ \E ref \in world.asked : Arrive(p, ref)
             \/ Serve(p) \/ Trouble(p)
    /\ UNCHANGED world

\* The runtime polls every request, and the waiting loop's clock runs: it does
\* not find the pending file for ever.
Fairness ==
    \A p \in Requests :
        /\ WF_vars(Serve(p) /\ UNCHANGED world)
        /\ SF_vars(StillPending(p) /\ req'[p].pc = "bundle" /\ UNCHANGED world)

Spec == Init /\ [][Next]_vars /\ Fairness

-----------------------------------------------------------------------------
(* Properties.                                                              *)

\* An entry's share exists and is a share of the image the entry names.
Backed(e) == e.share \in 1..Len(shares) /\ shares[e.share].id = e.id

\* The images a file name stands for: one, unless two references are given
\* the same name.
ImagesOf(key) == {world.ids[r] : r \in {q \in Refs : Key(q) = key}} \cup {i \in Ids : Key(i) = key}

\* Whatever requests race, crash or overwrite each other's temporary files, an
\* entry that can be read under a key is of an image that the key stands for,
\* and its share is that image's: the write of an entry, the alias path and
\* the rename keep keys and shares apart.
CacheDescribesItsImage ==
    \A k \in Keys : cache[k] \notin Unreadable \cup {None} =>
        cache[k].id \in ImagesOf(k) /\ Backed(cache[k])

\* A successful answer describes the image that was asked for by a share that
\* exists; it is another reference's image only if sanitize_path_component
\* gives the two references one name.
RepliesMatchRequests ==
    \A r \in replies : r.ok => r.entry.id \in ImagesOf(Key(r.ref)) /\ Backed(r.entry)

\* A runtime is handed an incompletely written rootfs, or the digest of
\* another than the one that is shared, only if a build of that image was cut
\* short or two requests built it at once: no other schedule lets a
\* half-written file, or a digest of one in a sidecar, through the checks of
\* existence, size and mtime.
RepliedImagesComplete ==
    \A r \in replies :
        (r.ok /\ r.entry.id \notin hurt) =>
            /\ shares[r.entry.share].content = "complete"
            /\ r.entry.digest = IF world.hashing THEN "complete" ELSE "imageId"

\* A cache entry stays readable and the file under it is never rewritten, so
\* that the image is neither built nor shared a second time (shares are never
\* given back) and no request fails on the entry for good: unless two requests
\* wrote the entry at once, or a build was cut short or overlapped by another.
CachedEntriesStayValid ==
    \A x \in Refs \cup Ids :
        (cache[Key(x)] # None /\ Key(x) \notin clash /\ ImagesOf(Key(x)) \cap hurt = {}) => Read(x) = "hit"

\* Every request is answered or dropped, also one that waits for the pending
\* file of a request that died.
RequestsAnswered == \A p \in Requests : (req[p].pc # "idle") ~> (req[p].pc = "idle")
=============================================================================

-------------------------- MODULE SharedRootfsProofs --------------------------
(***************************************************************************)
(* Proofs about SharedRootfs: what the image CVM's server answers and      *)
(* caches, for any number of requests, references, images and formats, and *)
(* however requests race, fail and crash.                                  *)
(***************************************************************************)
EXTENDS SharedRootfs, SequenceTheorems, TLAPS

-----------------------------------------------------------------------------
(* Types.                                                                   *)

FileRecord == [content : Kinds, by : Requests \cup {None}, mtime : Nat]
SidecarRecord == [size : Sizes, mtime : Nat, sha256 : Kinds \cup {"imageId"}]
ShareRecord == [id : Ids, content : Kinds]

\* Where a request is: before it knows its image's id, building the image,
\* preparing the entry, writing it, and on its way to the answer.
Asking == {"lookup", "isPending", "wait", "stillPending", "bundle", "mark", "pull"}
Known == {"index", "prepare", "prepareId", "remark"}
Builds == {"image", "mkfs", "mkfsRuns"}
Prepares == {"digest", "sidecar", "share"}
Fills == {"fillRef", "fillId"}
Renames == {"renameRef", "renameId"}
Writes == {"check", "openRef", "openId"} \cup Fills \cup Renames
Answers == {"unmark", "clear", "reply"}

Pcs == {"idle"} \cup Asking \cup Known \cup Builds \cup Prepares \cup Writes \cup Answers
ReqRecord == [pc : Pcs,
              ref : Refs \cup {None}, id : Ids \cup {None},
              marked : BOOLEAN, remarked : BOOLEAN, fmt : 1..Len(Formats),
              entry : EntryRecord \cup {None}, ok : BOOLEAN,
              file : {"none", "tmp", "cache", "gone"}, built : BOOLEAN, mtime : Nat]

CacheFile == EntryRecord \cup {None, Empty, Torn}

TypeInv ==
    /\ world \in Worlds
    /\ req \in [Requests -> ReqRecord]
    /\ cache \in [Keys -> CacheFile]
    /\ tmp \in [Keys -> CacheFile]
    /\ index \in [Keys -> Ids \cup {None}]
    /\ image \in [Ids -> [FormatSet -> FileRecord]]
    /\ sidecar \in [Ids -> [FormatSet -> SidecarRecord \cup {None, Torn}]]
    /\ shares \in Seq(ShareRecord)

-----------------------------------------------------------------------------
(* The inductive invariant.                                                 *)

RightDigest == IF world.hashing THEN "complete" ELSE "imageId"
IsComplete(id, f) == image[id][f].content = "complete"

\* An entry with a share: it is of the image the entry names, and, unless the
\* image's builds got into each other's way, what is shared and what is in the
\* file is complete.
Sound(e) ==
    /\ e \in EntryRecord /\ Backed(e)
    /\ e.id \notin hurt =>
          /\ shares[e.share].content = "complete" /\ e.digest = RightDigest
          /\ IsComplete(e.id, e.fmt) /\ e.size = Size(e.fmt, "complete")

Readable(x) == x \notin {None, Empty, Torn}

FileInv ==
    /\ \A k \in Keys : Readable(cache[k]) => Sound(cache[k]) /\ cache[k].id \in ImagesOf(k)
    /\ \A k \in Keys : Readable(tmp[k]) => Sound(tmp[k]) /\ tmp[k].id \in ImagesOf(k)
    /\ \A k \in Keys : index[k] # None => index[k] \in ImagesOf(k)
    /\ \A r \in replies : r.ok => Sound(r.entry) /\ r.entry.id \in ImagesOf(Key(r.ref))

\* What request p, being r, can count on.
Fmt(r) == Formats[r.fmt]
ReqHas(p, r) ==
    /\ r.pc # "idle" => r.ref \in Refs
    /\ r.pc \in Known \cup Builds \cup Prepares \cup Writes => r.id \in ImagesOf(Key(r.ref))
    /\ r.pc \in Asking \cup Known => r.fmt = 1
    /\ r.pc = "mkfs" /\ r.id \notin hurt => image[r.id][Fmt(r)].content = "none"
    /\ r.pc = "mkfsRuns" /\ r.id \notin hurt =>
          image[r.id][Fmt(r)].content = "partial" /\ image[r.id][Fmt(r)].by = p
    /\ r.pc \in Prepares =>
          /\ r.entry \in EntryRecord /\ r.entry.id = r.id /\ r.entry.fmt = Fmt(r) /\ r.ok
          /\ r.id \notin hurt =>
                IsComplete(r.id, Fmt(r)) /\ r.entry.size = Size(Fmt(r), "complete")
    /\ r.pc \in {"digest", "sidecar"} => world.hashing
    /\ r.pc \in {"sidecar", "share"} /\ r.id \notin hurt => r.entry.digest = RightDigest
    /\ r.pc \in Writes => Sound(r.entry) /\ r.entry.id = r.id /\ r.ok
    /\ r.pc \in Answers /\ r.ok => Sound(r.entry) /\ r.entry.id \in ImagesOf(Key(r.ref))
ReqInv == \A p \in Requests : ReqHas(p, req[p])

\* Request r is past format n of its image: it has built it, or tries a later
\* one.
Past(r, n) ==
    \/ r.pc \in Builds /\ r.fmt > n
    \/ r.pc \in Prepares /\ r.built /\ r.fmt >= n

\* The builds of an image that did not get into each other's way: a file that
\* is not complete is that of one request that runs mkfs, and only one request
\* gets past a format.
OneBuilder(p, q) ==
    req[p].id = req[q].id /\ req[p].id \notin hurt =>
        /\ req[p].pc \in Builds /\ req[q].pc \in Builds /\ Fmt(req[p]) = Fmt(req[q]) =>
              IsComplete(req[p].id, Fmt(req[p]))
        /\ \A n \in 1..Len(Formats) : ~(Past(req[p], n) /\ Past(req[q], n))
BuildInv ==
    /\ \A p \in Requests, q \in Requests : p # q => OneBuilder(p, q)
    /\ \A p \in Requests : \A n \in 1..Len(Formats) :
          Past(req[p], n) /\ req[p].id \notin hurt => IsComplete(req[p].id, Formats[n])
    /\ \A i \in Ids, f \in FormatSet : i \notin hurt =>
          /\ image[i][f].content = "partial" =>
                \E p \in Requests : req[p].pc = "mkfsRuns" /\ req[p].id = i /\ Fmt(req[p]) = f
          /\ sidecar[i][f] \notin {None, Torn} => sidecar[i][f].sha256 = "complete"

\* The files of a key that no two requests wrote at once.
KeyHas(k) ==
    /\ cache[k] \notin Unreadable
    /\ \A p \in Requests, q \in Requests : p # q => ~(Writing(p, k) /\ Writing(q, k))
    /\ \A p \in Requests : Writing(p, k) =>
          /\ req[p].pc \in Fills => req[p].file = "tmp" /\ tmp[k] = Empty
          /\ req[p].pc \in Renames => tmp[k] \notin {None, Empty, Torn}
KeyInv == \A k \in Keys : k \notin clash => KeyHas(k)

IInv == TypeInv /\ FileInv /\ ReqInv /\ BuildInv /\ KeyInv

-----------------------------------------------------------------------------
(* Facts the steps share.                                                   *)

\* sanitize_path_component gives an id a name of its own.
LEMMA KeyFacts ==
    ASSUME TypeInv
    PROVE  /\ \A x \in Refs \cup Ids : Key(x) \in Keys
           /\ \A k : ImagesOf(k) \subseteq Ids
           /\ \A i \in Ids : ImagesOf(Key(i)) = {i}
           /\ \A r \in Refs : world.ids[r] \in Ids /\ world.ids[r] \in ImagesOf(Key(r))
<1>1. /\ world.ids \in [Refs -> Ids] /\ Refs \cap Ids = {}
      /\ \A i \in Ids, x \in Refs \cup Ids : world.names[i] = world.names[x] => i = x
  BY SharedRootfsAssumption DEF TypeInv
<1>2. \A i \in Ids : ImagesOf(Key(i)) = {i}
  BY <1>1 DEF ImagesOf, Key
<1>. QED
  BY <1>1, <1>2 DEF ImagesOf, Keys, Key

LEMMA FormatFacts ==
    /\ Len(Formats) \in Nat \ {0} /\ 1 \in 1..Len(Formats)
    /\ \A n \in 1..Len(Formats) : Formats[n] \in FormatSet
    /\ \A f, c : c \in Kinds => Size(f, c) \in Sizes
BY SharedRootfsAssumption DEF FormatSet, Size, Sizes

\* What steps do to what entries rest on: shares are added, no more, and the
\* file of an image whose builds are in order stays complete.
Extends ==
    /\ world' = world /\ hurt \subseteq hurt' /\ clash \subseteq clash'
    /\ Len(shares) <= Len(shares')
    /\ \A s \in 1..Len(shares) : shares'[s] = shares[s]
    /\ \A i \in Ids, f \in FormatSet :
          i \notin hurt' /\ IsComplete(i, f) => image'[i][f].content = "complete"

LEMMA SoundKept ==
    ASSUME TypeInv, TypeInv', Extends, NEW e, Sound(e)
    PROVE  Sound(e)'
<1>1. Len(shares) \in Nat /\ Len(shares') \in Nat
  BY DEF TypeInv
<1>2. e \in EntryRecord /\ e.share \in 1..Len(shares) /\ shares[e.share].id = e.id
  BY DEF Sound, Backed
<1>3. e.share \in 1..Len(shares') /\ shares'[e.share] = shares[e.share]
  BY <1>1, <1>2 DEF Extends
<1>4. e.id \in Ids /\ e.fmt \in FormatSet
  BY <1>2 DEF EntryRecord
<1>5. ASSUME e.id \notin hurt'
      PROVE  /\ shares'[e.share].content = "complete" /\ e.digest = RightDigest'
             /\ IsComplete(e.id, e.fmt)' /\ e.size = Size(e.fmt, "complete")
  BY <1>3, <1>4, <1>5 DEF Sound, Extends, RightDigest, IsComplete
<1>. QED
  BY <1>2, <1>3, <1>5 DEF Sound, Backed, Size

\* A step that writes no entry, index or answer.
LEMMA FileKept ==
    ASSUME TypeInv, TypeInv', FileInv, Extends, UNCHANGED <<cache, tmp, index, replies>>
    PROVE  FileInv'
<1>1. \A e : Sound(e) => Sound(e)'
  BY SoundKept
<1>2. Keys' = Keys /\ \A k : ImagesOf(k)' = ImagesOf(k)
  BY DEF Extends, Keys, ImagesOf, Key
<1>3. \A x : Key(x)' = Key(x)
  BY DEF Extends, Key
<1>. QED
  BY <1>1, <1>2, <1>3 DEF FileInv, Readable

\* A request keeps what it counts on unless the file it builds is written.
LEMMA ReqKept ==
    ASSUME TypeInv, TypeInv', Extends, NEW q \in Requests, NEW r \in ReqRecord, ReqHas(q, r),
           r.pc \in {"mkfs", "mkfsRuns"} /\ r.id \notin hurt' =>
               image'[r.id][Fmt(r)] = image[r.id][Fmt(r)]
    PROVE  ReqHas(q, r)'
<1>1. /\ \A e : Sound(e) => Sound(e)'
      /\ \A k : ImagesOf(k)' = ImagesOf(k)
      /\ Key(r.ref)' = Key(r.ref) /\ world' = world /\ hurt \subseteq hurt'
      /\ RightDigest' = RightDigest
  BY SoundKept DEF Extends, ImagesOf, Key, RightDigest
<1>2. Fmt(r) \in FormatSet /\ \A k : ImagesOf(k) \subseteq Ids
  BY KeyFacts, FormatFacts DEF ReqRecord, Fmt
<1>3. r.pc \in Prepares /\ r.id \notin hurt' => IsComplete(r.id, Fmt(r))'
  BY <1>2 DEF ReqHas, Extends, IsComplete
<1>. QED
  BY <1>1, <1>3 DEF ReqHas

\* One request moves on to r.
LEMMA ReqsKept ==
    ASSUME IInv, TypeInv', Extends, NEW p \in Requests, NEW r, req' = [req EXCEPT ![p] = r],
           ReqHas(p, r)',
           \A q \in Requests : q # p /\ req[q].pc \in {"mkfs", "mkfsRuns"}
                               /\ req[q].id \notin hurt' =>
               image'[req[q].id][Fmt(req[q])] = image[req[q].id][Fmt(req[q])]
    PROVE  ReqInv'
<1>1. \A q \in Requests : req'[q] = IF q = p THEN r ELSE req[q]
  BY DEF IInv, TypeInv
<1>2. ASSUME NEW q \in Requests, q # p PROVE ReqHas(q, req[q])'
  <2>0. PICK s : s = req[q]
    OBVIOUS
  <2>1. s \in ReqRecord /\ ReqHas(q, s)
    BY <2>0 DEF IInv, TypeInv, ReqInv
  <2>2. s.pc \in {"mkfs", "mkfsRuns"} /\ s.id \notin hurt' => image'[s.id][Fmt(s)] = image[s.id][Fmt(s)]
    BY <1>2, <2>0
  <2>3. req'[q] = s
    BY <1>1, <1>2, <2>0
  <2>4. ReqHas(q, s)'
    BY <2>1, <2>2, ReqKept DEF IInv
  <2>. QED
    BY <2>3, <2>4
<1>3. req'[p] = r
  BY <1>1
<1>4. ReqHas(p, req[p])'
  BY <1>3
<1>. QED
  BY <1>2, <1>4 DEF ReqInv

\* A request that stops building leaves no file half written.
LEMMA BuildLeft ==
    ASSUME TypeInv, BuildInv, NEW p \in Requests, NEW r, req' = [req EXCEPT ![p] = r],
           r.pc \notin Builds \cup Prepares, hurt \subseteq hurt',
           req[p].pc # "mkfsRuns" \/ req[p].id \in hurt', UNCHANGED <<image, sidecar>>
    PROVE  BuildInv'
<1>1. \A q \in Requests : req'[q] = IF q = p THEN r ELSE req[q]
  BY DEF TypeInv
<1>2. ASSUME NEW x \in Requests, NEW y \in Requests, x # y PROVE OneBuilder(x, y)'
  <2>1. OneBuilder(x, y)
    BY <1>2 DEF BuildInv
  <2>2. CASE x # p /\ y # p
    BY <1>1, <2>1, <2>2 DEF OneBuilder, Past, Fmt, IsComplete
  <2>3. CASE x = p \/ y = p
    BY <1>1, <1>2, <2>3 DEF OneBuilder, Past
  <2>. QED
    BY <2>2, <2>3
<1>3. ASSUME NEW x \in Requests, NEW n \in 1..Len(Formats), Past(req[x], n)', req'[x].id \notin hurt'
      PROVE  IsComplete(req[x].id, Formats[n])'
  <2>1. x # p /\ req'[x] = req[x]
    BY <1>1, <1>3 DEF Past
  <2>. QED
    BY <1>3, <2>1 DEF BuildInv, Past, IsComplete
<1>4. ASSUME NEW i \in Ids, NEW f \in FormatSet, i \notin hurt'
      PROVE  /\ image'[i][f].content = "partial" =>
                  \E q \in Requests : req'[q].pc = "mkfsRuns" /\ req'[q].id = i /\ Fmt(req'[q]) = f
             /\ sidecar'[i][f] \notin {None, Torn} => sidecar'[i][f].sha256 = "complete"
  BY <1>1, <1>4 DEF BuildInv, Fmt
<1>. QED
  BY <1>2, <1>3, <1>4 DEF BuildInv, Fmt

\* A step that writes no cache file, and after which its request has none open.
LEMMA KeyKept ==
    ASSUME TypeInv, KeyInv, NEW p \in Requests, NEW r, req' = [req EXCEPT ![p] = r],
           r.pc \notin Fills \cup Renames, clash \subseteq clash', UNCHANGED <<cache, tmp, world>>
    PROVE  KeyInv'
<1>1. \A q \in Requests : req'[q] = IF q = p THEN r ELSE req[q]
  BY DEF TypeInv
<1>2. Keys' = Keys /\ \A x : Key(x)' = Key(x)
  BY DEF Keys, Key
<1>3. ASSUME NEW k, NEW q \in Requests, Writing(q, k)'
      PROVE  Writing(q, k) /\ req'[q] = req[q]
  BY <1>1, <1>2, <1>3 DEF Writing, Fills, Renames
<1>4. ASSUME NEW k \in Keys, k \notin clash' PROVE KeyHas(k)'
  <2>1. KeyHas(k)
    BY <1>4 DEF KeyInv
  <2>. QED
    BY <1>3, <2>1 DEF KeyHas
<1>. QED
  BY <1>2, <1>4 DEF KeyInv

\* A request moves to a place where it neither builds nor writes.
LEMMA QuietInv ==
    ASSUME IInv, NEW p \in Requests, NEW r \in ReqRecord, req' = [req EXCEPT ![p] = r],
           r.pc \notin Builds \cup Prepares \cup Fills \cup Renames,
           req[p].pc # "mkfsRuns" \/ req[p].id \in hurt', hurt \subseteq hurt',
           ReqHas(p, r)',
           UNCHANGED <<cache, tmp, index, image, sidecar, shares, replies, clash, world>>
    PROVE  IInv'
<1>1. TypeInv'
  BY DEF IInv, TypeInv, Keys, Key
<1>2. Extends
  BY DEF Extends, IInv, TypeInv, IsComplete
<1>3. FileInv'
  BY <1>1, <1>2, FileKept DEF IInv
<1>4. ReqInv'
  BY <1>1, <1>2, ReqsKept
<1>5. BuildInv'
  BY BuildLeft DEF IInv
<1>6. KeyInv'
  BY KeyKept DEF IInv
<1>. QED
  BY <1>1, <1>3, <1>4, <1>5, <1>6 DEF IInv

\* The usual case: nothing but the request and the pending files change.
LEMMA CalmInv ==
    ASSUME IInv, NEW p \in Requests, NEW r \in ReqRecord, req' = [req EXCEPT ![p] = r],
           r.pc \notin Builds \cup Prepares \cup Fills \cup Renames, req[p].pc # "mkfsRuns",
           ReqHas(p, r),
           UNCHANGED <<cache, tmp, index, image, sidecar, shares, hurt, clash, replies, world>>
    PROVE  IInv'
<1>1. TypeInv'
  BY DEF IInv, TypeInv, Keys, Key
<1>2. Extends
  BY DEF Extends, IInv, TypeInv, IsComplete
<1>3. ReqHas(p, r)'
  BY <1>1, <1>2, ReqKept DEF IInv
<1>. QED
  BY <1>3, QuietInv

\* Records of requests.
LEMMA MoveRecord ==
    ASSUME NEW s \in ReqRecord, NEW pc \in Pcs
    PROVE  LET r == [s EXCEPT !.pc = pc]
           IN /\ r \in ReqRecord /\ r.pc = pc /\ r.ref = s.ref /\ r.id = s.id /\ r.fmt = s.fmt
              /\ r.entry = s.entry /\ r.ok = s.ok /\ r.built = s.built /\ r.file = s.file
BY DEF ReqRecord

LEMMA SettleRecord ==
    ASSUME NEW s \in ReqRecord, NEW pc \in Pcs, NEW e \in EntryRecord \cup {None},
           NEW ok \in BOOLEAN
    PROVE  LET r == [s EXCEPT !.pc = pc, !.entry = e, !.ok = ok]
           IN /\ r \in ReqRecord /\ r.pc = pc /\ r.ref = s.ref /\ r.id = s.id /\ r.fmt = s.fmt
              /\ r.entry = e /\ r.ok = ok /\ r.built = s.built /\ r.file = s.file
BY DEF ReqRecord

\* A file that Read takes is an entry of an image its key stands for.
LEMMA ReadHit ==
    ASSUME IInv, NEW x \in Refs \cup Ids, Read(x) = "hit"
    PROVE  /\ cache[Key(x)] \in EntryRecord /\ Sound(cache[Key(x)])
           /\ cache[Key(x)].id \in ImagesOf(Key(x))
<1>1. Key(x) \in Keys
  BY KeyFacts DEF IInv
<1>2. cache[Key(x)] \notin {None, Empty, Torn}
  BY DEF Read, Unreadable
<1>. QED
  BY <1>1, <1>2 DEF IInv, FileInv, Readable, Sound

-----------------------------------------------------------------------------
(* The steps.                                                               *)

LEMMA IdleRecord == IdleReq \in ReqRecord
BY FormatFacts DEF IdleReq, ReqRecord, Pcs

LEMMA InitInv == Init => IInv
<1>. SUFFICES ASSUME Init PROVE IInv
  OBVIOUS
<1>0. \A q \in Requests : req[q] = IdleReq
  BY DEF Init
<1>1. IdleReq \in ReqRecord
  BY IdleRecord
<1>2. TypeInv
  <2>1. NoImage \in FileRecord
    BY DEF NoImage, FileRecord, Kinds
  <2>2. image \in [Ids -> [FormatSet -> FileRecord]]
    BY <2>1 DEF Init
  <2>3. sidecar \in [Ids -> [FormatSet -> SidecarRecord \cup {None, Torn}]]
    BY DEF Init
  <2>4. shares \in Seq(ShareRecord)
    BY DEF Init
  <2>5. req \in [Requests -> ReqRecord]
    BY <1>1 DEF Init
  <2>. QED
    BY <2>2, <2>3, <2>4, <2>5 DEF Init, TypeInv, CacheFile
<1>3. FileInv
  BY DEF Init, FileInv, Readable
<1>4. ReqInv
  BY <1>0 DEF ReqInv, ReqHas, IdleReq, Asking, Known, Builds, Prepares, Writes, Fills, Renames, Answers
<1>5. BuildInv
  <2>1. \A i \in Ids, f \in FormatSet : image[i][f].content = "none" /\ sidecar[i][f] = None
    BY DEF Init, NoImage
  <2>. QED
    BY <1>0, <2>1 DEF BuildInv, OneBuilder, Past, IdleReq, Builds, Prepares
<1>6. KeyInv
  <2>1. \A k \in Keys : cache[k] = None
    BY DEF Init
  <2>2. None \notin Unreadable
    BY SharedRootfsAssumption DEF Unreadable
  <2>. QED
    BY <1>0, <2>1, <2>2 DEF KeyInv, KeyHas, Writing, IdleReq
<1>. QED
  BY <1>2, <1>3, <1>4, <1>5, <1>6 DEF IInv

\* A step that changes no more than its request, and at most pending files.
Calm == UNCHANGED <<cache, tmp, index, image, sidecar, shares, hurt, clash, replies, world>>

\* A request that does not know its image yet moves on.
LEMMA AskInv ==
    ASSUME IInv, Calm, NEW p \in Requests, req[p].pc \in Asking, NEW pc \in Asking, Goto(p, pc)
    PROVE  IInv'
<1>1. PICK s : s = req[p]
  OBVIOUS
<1>2. s \in ReqRecord /\ ReqHas(p, s)
  BY <1>1 DEF IInv, TypeInv, ReqInv
<1>3. PICK r : r = [s EXCEPT !.pc = pc]
  OBVIOUS
<1>4. req' = [req EXCEPT ![p] = r]
  BY <1>1, <1>3 DEF Goto
<1>5. r \in ReqRecord /\ r.pc = pc /\ r.ref = s.ref /\ r.fmt = s.fmt
  BY <1>2, <1>3, MoveRecord DEF Pcs
<1>6. ReqHas(p, r)
  BY <1>1, <1>2, <1>5 DEF ReqHas, Asking, Known, Builds, Prepares, Writes, Fills, Renames, Answers
<1>7. r.pc \notin Builds \cup Prepares \cup Fills \cup Renames /\ req[p].pc # "mkfsRuns"
  BY <1>1, <1>5 DEF Asking, Builds, Prepares, Fills, Renames
<1>. QED
  BY <1>4, <1>5, <1>6, <1>7, CalmInv DEF Calm

\* A request settles: with an entry of its image, or with an error.
LEMMA SettleInv ==
    ASSUME IInv, Calm, NEW p \in Requests, req[p].pc \notin {"idle", "mkfsRuns"},
           NEW pc \in Answers, NEW e, NEW ok \in BOOLEAN, Settle(p, pc, e, ok),
           ok => Sound(e) /\ e.id \in ImagesOf(Key(req[p].ref)),
           ~ok => e = None
    PROVE  IInv'
<1>1. PICK s : s = req[p]
  OBVIOUS
<1>2. s \in ReqRecord /\ ReqHas(p, s)
  BY <1>1 DEF IInv, TypeInv, ReqInv
<1>3. PICK r : r = [s EXCEPT !.pc = pc, !.entry = e, !.ok = ok]
  OBVIOUS
<1>4. req' = [req EXCEPT ![p] = r]
  BY <1>1, <1>3 DEF Settle
<1>5. e \in EntryRecord \cup {None}
  BY DEF Sound
<1>6. r \in ReqRecord /\ r.pc = pc /\ r.ref = s.ref /\ r.entry = e /\ r.ok = ok
  <2>1. pc \in Pcs
    BY DEF Pcs
  <2>. QED
    BY <1>2, <1>3, <1>5, <2>1 DEF ReqRecord
<1>7. ReqHas(p, r)
  BY <1>1, <1>2, <1>6 DEF ReqHas, Asking, Known, Builds, Prepares, Writes, Fills, Renames, Answers
<1>8. r.pc \notin Builds \cup Prepares \cup Fills \cup Renames
  BY <1>6 DEF Answers, Builds, Prepares, Fills, Renames
<1>. QED
  BY <1>1, <1>4, <1>6, <1>7, <1>8, CalmInv DEF Calm

\* A request that knows its image, or answers, moves on.
LEMMA GoOnInv ==
    ASSUME IInv, Calm, NEW p \in Requests, NEW pc, Goto(p, pc),
           \/ req[p].pc \in Known /\ pc \in Known
           \/ req[p].pc = "check" /\ pc = "openRef"
           \/ req[p].pc \in Answers /\ pc \in Answers
    PROVE  IInv'
<1>1. PICK s : s = req[p]
  OBVIOUS
<1>2. s \in ReqRecord /\ ReqHas(p, s)
  BY <1>1 DEF IInv, TypeInv, ReqInv
<1>3. PICK r : r = [s EXCEPT !.pc = pc]
  OBVIOUS
<1>4. req' = [req EXCEPT ![p] = r]
  BY <1>1, <1>3 DEF Goto
<1>5. pc \in Pcs
  BY DEF Pcs, Known, Writes, Answers
<1>6. r \in ReqRecord /\ r.pc = pc /\ r.ref = s.ref /\ r.id = s.id /\ r.fmt = s.fmt
      /\ r.entry = s.entry /\ r.ok = s.ok
  BY <1>2, <1>3, <1>5, MoveRecord
<1>7. ReqHas(p, r)
  BY <1>1, <1>2, <1>6 DEF ReqHas, Asking, Known, Builds, Prepares, Writes, Fills, Renames, Answers
<1>8. r.pc \notin Builds \cup Prepares \cup Fills \cup Renames /\ req[p].pc # "mkfsRuns"
  BY <1>1, <1>6 DEF Known, Answers, Builds, Prepares, Fills, Renames
<1>. QED
  BY <1>1, <1>4, <1>6, <1>7, <1>8, CalmInv DEF Calm

LEMMA LookupInv ==
    ASSUME IInv, world' = world, NEW p \in Requests, Lookup(p) \/ Poll(p) \/ ReadByRef(p)
    PROVE  IInv'
<1>1. Calm
  BY DEF Lookup, Poll, ReadByRef, Calm, files, history
<1>2. req[p].pc \in {"lookup", "wait", "prepare"} /\ req[p].ref \in Refs
  BY DEF Lookup, Poll, ReadByRef, At, IInv, ReqInv, ReqHas
<1>3. CASE Read(req[p].ref) = "hit"
  <2>1. /\ Sound(cache[Key(req[p].ref)])
        /\ cache[Key(req[p].ref)].id \in ImagesOf(Key(req[p].ref))
    BY <1>2, <1>3, ReadHit
  <2>2. \E pc \in {"reply", "clear"} : Settle(p, pc, cache[Key(req[p].ref)], TRUE)
    BY <1>3 DEF Lookup, Poll, ReadByRef
  <2>. QED
    BY <1>1, <1>2, <2>1, <2>2, SettleInv DEF Answers
<1>4. CASE Read(req[p].ref) # "hit"
  <2>1. \/ \E pc \in {"reply", "clear"} : Settle(p, pc, None, FALSE)
        \/ At(p, "lookup") /\ Goto(p, "isPending")
        \/ At(p, "wait") /\ Goto(p, "stillPending")
        \/ At(p, "prepare") /\ Goto(p, "prepareId")
    BY <1>4 DEF Lookup, Poll, ReadByRef
  <2>2. ASSUME NEW pc \in {"reply", "clear"}, Settle(p, pc, None, FALSE) PROVE IInv'
    BY <1>1, <1>2, <2>2, SettleInv DEF Answers
  <2>3. CASE \/ At(p, "lookup") /\ Goto(p, "isPending")
             \/ At(p, "wait") /\ Goto(p, "stillPending")
    BY <1>1, <2>3, AskInv DEF At, Asking
  <2>4. CASE At(p, "prepare") /\ Goto(p, "prepareId")
    BY <1>1, <2>4, GoOnInv DEF At, Known
  <2>. QED
    BY <2>1, <2>2, <2>3, <2>4
<1>. QED
  BY <1>3, <1>4

LEMMA WaitInv ==
    ASSUME IInv, world' = world, NEW p \in Requests, IsPending(p) \/ StillPending(p)
    PROVE  IInv'
<1>1. Calm
  BY DEF IsPending, StillPending, Calm, files, history
<1>2. req[p].pc \in Asking /\ \E pc \in Asking : Goto(p, pc)
  BY DEF IsPending, StillPending, At, Asking
<1>. QED
  BY <1>1, <1>2, AskInv

\* An answer, a hang-up or an arrival: the request slot starts anew.
LEMMA SlotInv ==
    ASSUME IInv, NEW p \in Requests, Calm, req[p].pc # "mkfsRuns", NEW r,
           r = IdleReq \/ \E ref \in Refs : r = [IdleReq EXCEPT !.pc = "lookup", !.ref = ref],
           req' = [req EXCEPT ![p] = r]
    PROVE  IInv'
<1>1. r \in ReqRecord
  <2>1. CASE r = IdleReq
    BY <2>1, IdleRecord
  <2>2. ASSUME NEW ref \in Refs, r = [IdleReq EXCEPT !.pc = "lookup", !.ref = ref] PROVE r \in ReqRecord
    <3>1. "lookup" \in Pcs
      BY DEF Pcs, Asking
    <3>. QED
      BY <2>2, <3>1, IdleRecord DEF ReqRecord
  <2>. QED
    BY <2>1, <2>2
<1>2. r.pc = "idle" \/ (r.pc = "lookup" /\ r.ref \in Refs /\ r.fmt = 1)
  <2>1. IdleReq.pc = "idle" /\ IdleReq.fmt = 1
    BY DEF IdleReq
  <2>. QED
    BY <2>1, IdleRecord DEF ReqRecord
<1>3. ReqHas(p, r)
  BY <1>2 DEF ReqHas, Asking, Known, Builds, Prepares, Writes, Fills, Renames, Answers
<1>4. r.pc \notin Builds \cup Prepares \cup Fills \cup Renames
  BY <1>2 DEF Builds, Prepares, Fills, Renames
<1>. QED
  BY <1>1, <1>3, <1>4, CalmInv DEF Calm

LEMMA ArriveInv ==
    ASSUME IInv, world' = world, NEW p \in Requests, NEW ref \in world.asked, Arrive(p, ref)
    PROVE  IInv'
<1>1. ref \in Refs
  BY SharedRootfsAssumption DEF IInv, TypeInv
<1>2. Calm /\ req[p].pc # "mkfsRuns"
  BY DEF Arrive, Calm, files, history, At
<1>. QED
  BY <1>1, <1>2, SlotInv DEF Arrive

LEMMA CancelInv ==
    ASSUME IInv, world' = world, NEW p \in Requests, Cancel(p)
    PROVE  IInv'
<1>1. Calm /\ req[p].pc # "mkfsRuns"
  BY DEF Cancel, Calm, files, history
<1>. QED
  BY <1>1, SlotInv DEF Cancel

\* The index names an image its key stands for, and so does the registry.
LEMMA FindInv ==
    ASSUME IInv, world' = world, NEW p \in Requests, LookupBundle(p) \/ Pull(p)
    PROVE  IInv'
<1>1. Calm
  BY DEF LookupBundle, Pull, Calm, files, history
<1>2. PICK s : s = req[p]
  OBVIOUS
<1>3. s \in ReqRecord /\ s.ref \in Refs /\ s.pc \in {"bundle", "pull"} /\ s.fmt = 1
  BY <1>2 DEF IInv, TypeInv, ReqInv, ReqHas, LookupBundle, Pull, At, Asking
<1>4. Key(s.ref) \in Keys /\ ImagesOf(Key(s.ref)) \subseteq Ids
      /\ world.ids[s.ref] \in ImagesOf(Key(s.ref))
  BY <1>3, KeyFacts DEF IInv
<1>5. index[Key(s.ref)] # None => index[Key(s.ref)] \in ImagesOf(Key(s.ref))
  BY <1>4 DEF IInv, FileInv
<1>6. PICK i, pc : /\ req' = [req EXCEPT ![p].id = i, ![p].pc = pc]
                   /\ \/ pc = "mark" /\ i = None
                      \/ pc \in {"index", "prepare"} /\ i \in ImagesOf(Key(s.ref))
  <2>1. CASE LookupBundle(p)
    BY <1>2, <1>5, <2>1 DEF LookupBundle, BundleOf
  <2>2. CASE Pull(p)
    BY <1>2, <1>4, <2>2 DEF Pull
  <2>. QED
    BY <2>1, <2>2
<1>7. PICK r : r = [s EXCEPT !.id = i, !.pc = pc]
  OBVIOUS
<1>8. req' = [req EXCEPT ![p] = r]
  BY <1>2, <1>6, <1>7
<1>9. /\ r \in ReqRecord /\ r.pc = pc /\ r.id = i /\ r.ref = s.ref /\ r.fmt = s.fmt
      /\ pc \in {"mark", "index", "prepare"}
  BY <1>3, <1>4, <1>6, <1>7 DEF ReqRecord, Pcs, Asking, Known
<1>10. ReqHas(p, r)
  BY <1>3, <1>6, <1>9 DEF ReqHas, Asking, Known, Builds, Prepares, Writes, Fills, Renames, Answers
<1>11. r.pc \notin Builds \cup Prepares \cup Fills \cup Renames /\ req[p].pc # "mkfsRuns"
  BY <1>2, <1>3, <1>9 DEF Builds, Prepares, Fills, Renames
<1>. QED
  BY <1>1, <1>8, <1>9, <1>10, <1>11, CalmInv DEF Calm

LEMMA MarkInv ==
    ASSUME IInv, world' = world, NEW p \in Requests, Mark(p)
    PROVE  IInv'
<1>1. Calm
  BY DEF Mark, Calm, history
<1>2. PICK s : s = req[p]
  OBVIOUS
<1>3. s \in ReqRecord /\ s.ref \in Refs /\ s.pc = "mark" /\ s.fmt = 1
  BY <1>2 DEF IInv, TypeInv, ReqInv, ReqHas, Mark, At, Asking
<1>4. PICK r : r = [s EXCEPT !.pc = "pull", !.marked = TRUE]
  OBVIOUS
<1>5. req' = [req EXCEPT ![p] = r]
  BY <1>2, <1>4 DEF Mark
<1>6. r \in ReqRecord /\ r.pc = "pull" /\ r.ref = s.ref /\ r.fmt = s.fmt
  BY <1>3, <1>4 DEF ReqRecord, Pcs, Asking
<1>7. ReqHas(p, r)
  BY <1>3, <1>6 DEF ReqHas, Asking, Known, Builds, Prepares, Writes, Fills, Renames, Answers
<1>8. r.pc \notin Builds \cup Prepares \cup Fills \cup Renames /\ req[p].pc # "mkfsRuns"
  BY <1>2, <1>3, <1>6 DEF Builds, Prepares, Fills, Renames
<1>. QED
  BY <1>1, <1>5, <1>6, <1>7, <1>8, CalmInv DEF Calm

\* A step that fails: the request goes on to an error's answer.
LEMMA FailInv ==
    ASSUME IInv, world' = world, NEW p \in Requests,
           MarkFails(p) \/ PullFails(p) \/ RemarkFails(p) \/ ShareFails(p) \/ WriteFails(p)
    PROVE  IInv'
<1>1. Calm
  BY DEF MarkFails, PullFails, RemarkFails, ShareFails, WriteFails, Calm, files, history
<1>2. req[p].pc \in {"mark", "pull", "remark", "share"} \cup Fills \cup Renames
  BY DEF MarkFails, PullFails, RemarkFails, ShareFails, WriteFails, At, Fills, Renames
<1>3. req[p].pc \notin {"idle", "mkfsRuns"}
  BY <1>2 DEF Fills, Renames
<1>4. CASE \E pc \in Answers : Settle(p, pc, None, FALSE)
  BY <1>1, <1>3, <1>4, SettleInv
<1>5. CASE At(p, "mark") /\ Goto(p, "pull")
  BY <1>1, <1>5, AskInv DEF At, Asking
<1>6. CASE WriteFails(p)
  <2>1. PICK s : s = req[p]
    OBVIOUS
  <2>2. s \in ReqRecord /\ s.pc \in Fills \cup Renames /\ ReqHas(p, s)
    BY <1>6, <2>1 DEF IInv, TypeInv, ReqInv, WriteFails, Fills, Renames
  <2>3. PICK r : r = [s EXCEPT !.pc = "unmark", !.entry = None, !.ok = FALSE, !.file = "none"]
    OBVIOUS
  <2>4. req' = [req EXCEPT ![p] = r]
    BY <1>6, <2>1, <2>3 DEF WriteFails
  <2>5. r \in ReqRecord /\ r.pc = "unmark" /\ r.ref = s.ref /\ ~r.ok
    BY <2>2, <2>3 DEF ReqRecord, Pcs, Answers
  <2>6. ReqHas(p, r)
    BY <2>2, <2>5 DEF ReqHas, Asking, Known, Builds, Prepares, Writes, Fills, Renames, Answers
  <2>7. r.pc \notin Builds \cup Prepares \cup Fills \cup Renames
    BY <2>5 DEF Builds, Prepares, Fills, Renames
  <2>. QED
    BY <1>1, <1>3, <2>4, <2>5, <2>6, <2>7, CalmInv DEF Calm
<1>. QED
  BY <1>4, <1>5, <1>6 DEF MarkFails, PullFails, RemarkFails, ShareFails, Answers

LEMMA CheckInv ==
    ASSUME IInv, world' = world, NEW p \in Requests, Check(p)
    PROVE  IInv'
<1>1. Calm /\ req[p].pc = "check"
  BY DEF Check, At, Calm, files, history
<1>2. CASE Goto(p, "openRef")
  BY <1>1, <1>2, GoOnInv
<1>3. CASE Settle(p, "unmark", None, FALSE)
  BY <1>1, <1>3, SettleInv DEF Answers
<1>. QED
  BY <1>2, <1>3 DEF Check

LEMMA ClearInv ==
    ASSUME IInv, world' = world, NEW p \in Requests, Unmark(p) \/ Clear(p)
    PROVE  IInv'
<1>1. Calm
  BY DEF Unmark, Clear, Calm, history
<1>2. req[p].pc \in Answers /\ \E pc \in Answers : Goto(p, pc)
  BY DEF Unmark, Clear, At, Answers
<1>. QED
  BY <1>1, <1>2, GoOnInv

\* An entry found under the id is taken over for the reference.
LEMMA ReadByIdInv ==
    ASSUME IInv, world' = world, NEW p \in Requests, ReadById(p)
    PROVE  IInv'
<1>1. Calm
  BY DEF ReadById, Calm, files, history
<1>2. PICK s : s = req[p]
  OBVIOUS
<1>3. s \in ReqRecord /\ s.pc = "prepareId" /\ s.ref \in Refs /\ s.id \in ImagesOf(Key(s.ref))
  BY <1>2 DEF IInv, TypeInv, ReqInv, ReqHas, ReadById, At, Known
<1>4. s.id \in Ids
  BY <1>3, KeyFacts DEF IInv
<1>5. CASE Read(s.id) = "hit"
  <2>1. PICK e : e = cache[Key(s.id)]
    OBVIOUS
  <2>2. e \in EntryRecord /\ Sound(e) /\ e.id = s.id
    BY <1>4, <1>5, <2>1, ReadHit, KeyFacts DEF IInv
  <2>3. PICK a : a = [e EXCEPT !.ref = s.ref, !.id = s.id]
    OBVIOUS
  <2>4. /\ a \in EntryRecord /\ a.id = e.id /\ a.fmt = e.fmt /\ a.size = e.size
        /\ a.digest = e.digest /\ a.share = e.share
    BY <1>3, <1>4, <2>2, <2>3 DEF EntryRecord
  <2>5. Sound(a)
    BY <2>2, <2>4 DEF Sound, Backed
  <2>6. PICK r : r = [s EXCEPT !.pc = "check", !.entry = a, !.ok = TRUE]
    OBVIOUS
  <2>7. req' = [req EXCEPT ![p] = r]
    BY <1>2, <1>5, <2>1, <2>3, <2>6 DEF ReadById, Settle
  <2>8. r \in ReqRecord /\ r.pc = "check" /\ r.ref = s.ref /\ r.id = s.id /\ r.entry = a /\ r.ok
    BY <1>3, <2>4, <2>6 DEF ReqRecord, Pcs, Writes
  <2>9. ReqHas(p, r)
    BY <1>3, <2>2, <2>4, <2>5, <2>8
    DEF ReqHas, Asking, Known, Builds, Prepares, Writes, Fills, Renames, Answers
  <2>10. r.pc \notin Builds \cup Prepares \cup Fills \cup Renames /\ req[p].pc # "mkfsRuns"
    BY <1>2, <1>3, <2>8 DEF Builds, Prepares, Fills, Renames
  <2>. QED
    BY <1>1, <2>7, <2>8, <2>9, <2>10, CalmInv DEF Calm
<1>6. CASE Settle(p, "clear", None, FALSE)
  BY <1>1, <1>2, <1>3, <1>6, SettleInv DEF Answers
<1>7. CASE Goto(p, "remark")
  BY <1>1, <1>2, <1>3, <1>7, GoOnInv DEF Known
<1>. QED
  BY <1>2, <1>5, <1>6, <1>7 DEF ReadById

\* A step that adds to the index or to the answers.
LEMMA NoteInv ==
    ASSUME IInv, NEW p \in Requests, NEW r \in ReqRecord, req' = [req EXCEPT ![p] = r],
           r.pc \in {"prepare", "idle"}, req[p].pc # "mkfsRuns", ReqHas(p, r),
           index' \in [Keys -> Ids \cup {None}],
           \A k \in Keys : index'[k] # None => index'[k] \in ImagesOf(k),
           \A a \in replies' : a.ok => Sound(a.entry) /\ a.entry.id \in ImagesOf(Key(a.ref)),
           UNCHANGED <<cache, tmp, image, sidecar, shares, hurt, clash, world>>
    PROVE  IInv'
<1>0. r.pc \notin Builds \cup Prepares \cup Fills \cup Renames
  BY DEF Builds, Prepares, Fills, Renames
<1>1. TypeInv'
  BY DEF IInv, TypeInv, Keys, Key
<1>2. Extends
  BY DEF Extends, IInv, TypeInv, IsComplete
<1>3. FileInv'
  <2>1. \A e : Sound(e) => Sound(e)'
    BY <1>1, <1>2, SoundKept DEF IInv
  <2>2. Keys' = Keys /\ (\A k : ImagesOf(k)' = ImagesOf(k)) /\ \A x : Key(x)' = Key(x)
    BY DEF Keys, ImagesOf, Key
  <2>. QED
    BY <2>1, <2>2 DEF IInv, FileInv, Readable
<1>4. ReqInv'
  <2>1. ReqHas(p, r)'
    BY <1>1, <1>2, ReqKept DEF IInv
  <2>. QED
    BY <1>1, <1>2, <2>1, ReqsKept
<1>5. BuildInv'
  BY <1>0, BuildLeft DEF IInv
<1>6. KeyInv'
  BY <1>0, KeyKept DEF IInv
<1>. QED
  BY <1>1, <1>3, <1>4, <1>5, <1>6 DEF IInv

LEMMA IndexInv ==
    ASSUME IInv, world' = world, NEW p \in Requests, WriteIndex(p) \/ IndexFails(p)
    PROVE  IInv'
<1>1. PICK s : s = req[p]
  OBVIOUS
<1>2. s \in ReqRecord /\ s.pc = "index" /\ ReqHas(p, s)
  BY <1>1 DEF IInv, TypeInv, ReqInv, WriteIndex, IndexFails, At
<1>3. s.ref \in Refs /\ s.id \in ImagesOf(Key(s.ref))
  BY <1>2 DEF ReqHas, Known
<1>4. /\ Key(s.ref) \in Keys /\ s.id \in Ids /\ Key(s.id) \in Keys
      /\ s.id \in ImagesOf(Key(s.id))
  BY <1>3, KeyFacts DEF IInv
<1>5. PICK r : r = [s EXCEPT !.pc = "prepare"]
  OBVIOUS
<1>6. req' = [req EXCEPT ![p] = r]
  BY <1>1, <1>5 DEF WriteIndex, IndexFails, Goto
<1>7. r \in ReqRecord /\ r.pc = "prepare" /\ r.ref = s.ref /\ r.id = s.id /\ r.fmt = s.fmt
  BY <1>2, <1>5, MoveRecord DEF Pcs, Known
<1>8. ReqHas(p, r)
  BY <1>2, <1>7 DEF ReqHas, Asking, Known, Builds, Prepares, Writes, Fills, Renames, Answers
<1>9. /\ index' \in [Keys -> Ids \cup {None}]
      /\ \A k \in Keys : index'[k] # None => index'[k] \in ImagesOf(k)
  <2>1. /\ index \in [Keys -> Ids \cup {None}]
        /\ \A k \in Keys : index[k] # None => index[k] \in ImagesOf(k)
    BY DEF IInv, TypeInv, FileInv
  <2>2. \/ index' = [index EXCEPT ![Key(s.ref)] = s.id, ![Key(s.id)] = s.id]
        \/ index' = [index EXCEPT ![Key(s.ref)] = s.id]
        \/ index' = index
    BY <1>1 DEF WriteIndex, IndexFails
  <2>. QED
    BY <1>3, <1>4, <2>1, <2>2
<1>10. /\ \A a \in replies' : a.ok => Sound(a.entry) /\ a.entry.id \in ImagesOf(Key(a.ref))
       /\ UNCHANGED <<cache, tmp, image, sidecar, shares, hurt, clash, world>>
       /\ req[p].pc # "mkfsRuns"
  BY <1>1, <1>2 DEF IInv, FileInv, WriteIndex, IndexFails, history
<1>. QED
  BY <1>6, <1>7, <1>8, <1>9, <1>10, NoteInv

LEMMA ReplyInv ==
    ASSUME IInv, world' = world, NEW p \in Requests, Reply(p)
    PROVE  IInv'
<1>1. /\ req[p].pc = "reply" /\ ReqHas(p, req[p])
      /\ req' = [req EXCEPT ![p] = IdleReq]
      /\ UNCHANGED <<cache, tmp, index, image, sidecar, shares, hurt, clash, world>>
  BY DEF Reply, At, IInv, ReqInv, files
<1>2. IdleReq \in ReqRecord /\ IdleReq.pc = "idle"
  BY IdleRecord DEF IdleReq
<1>3. ReqHas(p, IdleReq)
  BY <1>2 DEF ReqHas, Asking, Known, Builds, Prepares, Writes, Fills, Renames, Answers
<1>4. \A a \in replies' : a.ok => Sound(a.entry) /\ a.entry.id \in ImagesOf(Key(a.ref))
  <2>1. PICK new : new = [ref |-> req[p].ref, ok |-> req[p].ok, entry |-> req[p].entry]
    OBVIOUS
  <2>2. new.ref = req[p].ref /\ new.ok = req[p].ok /\ new.entry = req[p].entry
    BY <2>1
  <2>3. new.ok => Sound(new.entry) /\ new.entry.id \in ImagesOf(Key(new.ref))
    BY <1>1, <2>2 DEF ReqHas, Answers
  <2>4. replies' = replies \cup {new}
    BY <2>1 DEF Reply
  <2>. QED
    BY <2>3, <2>4 DEF IInv, FileInv
<1>5. index' \in [Keys -> Ids \cup {None}] /\ \A k \in Keys : index'[k] # None => index'[k] \in ImagesOf(k)
  BY <1>1 DEF IInv, TypeInv, FileInv
<1>. QED
  BY <1>1, <1>2, <1>3, <1>4, <1>5, NoteInv

\* A step of a request that writes no entry, index or answer.
LEMMA WorkInv ==
    ASSUME IInv, TypeInv', Extends, BuildInv', NEW p \in Requests, NEW r,
           req' = [req EXCEPT ![p] = r], r.pc \notin Fills \cup Renames, ReqHas(p, r)',
           \A q \in Requests : q # p /\ req[q].pc \in {"mkfs", "mkfsRuns"}
                               /\ req[q].id \notin hurt' =>
               image'[req[q].id][Fmt(req[q])] = image[req[q].id][Fmt(req[q])],
           UNCHANGED <<cache, tmp, index, replies>>
    PROVE  IInv'
<1>1. FileInv'
  BY FileKept DEF IInv
<1>2. ReqInv'
  BY ReqsKept
<1>3. KeyInv'
  BY KeyKept DEF IInv, Extends
<1>. QED
  BY <1>1, <1>2, <1>3 DEF IInv

\* A request goes on with its build, and gets past no further format.
LEMMA BuildSame ==
    ASSUME TypeInv, BuildInv, NEW p \in Requests, NEW r, req' = [req EXCEPT ![p] = r],
           r.id = req[p].id, r.fmt = req[p].fmt, req[p].pc # "mkfsRuns",
           r.pc \in Builds => req[p].pc \in Builds,
           \A n \in 1..Len(Formats) : Past(r, n) => Past(req[p], n),
           UNCHANGED <<image, hurt>>,
           \A i \in Ids, f \in FormatSet : i \notin hurt =>
               (sidecar'[i][f] \notin {None, Torn} => sidecar'[i][f].sha256 = "complete")
    PROVE  BuildInv'
<1>1. \A q \in Requests : req'[q] = IF q = p THEN r ELSE req[q]
  BY DEF TypeInv
<1>2. \A q \in Requests : /\ req'[q].id = req[q].id /\ Fmt(req'[q]) = Fmt(req[q])
                          /\ req'[q].pc \in Builds => req[q].pc \in Builds
  BY <1>1 DEF Fmt
<1>3. \A q \in Requests : \A n \in 1..Len(Formats) : Past(req'[q], n) => Past(req[q], n)
  BY <1>1
<1>4. ASSUME NEW x \in Requests, NEW y \in Requests, x # y PROVE OneBuilder(x, y)'
  <2>1. OneBuilder(x, y)
    BY <1>4 DEF BuildInv
  <2>2. PICK rx, ry : rx = req'[x] /\ ry = req'[y]
    OBVIOUS
  <2>3. \A n : (Past(req[x], n)' <=> Past(rx, n)) /\ (Past(req[y], n)' <=> Past(ry, n))
    BY <2>2 DEF Past
  <2>. QED
    BY <1>2, <1>3, <2>1, <2>2, <2>3 DEF OneBuilder, IsComplete, Fmt
<1>5. ASSUME NEW x \in Requests, NEW n \in 1..Len(Formats), Past(req[x], n)', req'[x].id \notin hurt'
      PROVE  IsComplete(req[x].id, Formats[n])'
  <2>1. Past(req[x], n) /\ req'[x].id = req[x].id
    <3>1. PICK rx : rx = req'[x]
      OBVIOUS
    <3>2. Past(rx, n)
      BY <1>5, <3>1 DEF Past
    <3>. QED
      BY <1>2, <1>3, <3>1, <3>2
  <2>. QED
    BY <1>5, <2>1 DEF BuildInv, IsComplete
<1>6. ASSUME NEW i \in Ids, NEW f \in FormatSet, i \notin hurt'
      PROVE  /\ image'[i][f].content = "partial" =>
                  \E q \in Requests : req'[q].pc = "mkfsRuns" /\ req'[q].id = i /\ Fmt(req'[q]) = f
             /\ sidecar'[i][f] \notin {None, Torn} => sidecar'[i][f].sha256 = "complete"
  BY <1>1, <1>6 DEF BuildInv
<1>. QED
  BY <1>4, <1>5, <1>6 DEF BuildInv, Fmt

\* The second mark: from here on the request may build, and who builds the
\* same image already is noted.
LEMMA RemarkInv ==
    ASSUME IInv, world' = world, NEW p \in Requests, Remark(p)
    PROVE  IInv'
<1>1. PICK s : s = req[p]
  OBVIOUS
<1>2. s \in ReqRecord /\ s.pc = "remark" /\ ReqHas(p, s)
  BY <1>1 DEF IInv, TypeInv, ReqInv, Remark, At
<1>3. s.ref \in Refs /\ s.id \in ImagesOf(Key(s.ref)) /\ s.fmt = 1
  BY <1>2 DEF ReqHas, Known, Asking
<1>4. PICK r : r = [s EXCEPT !.pc = "image", !.remarked = TRUE]
  OBVIOUS
<1>5. req' = [req EXCEPT ![p] = r]
  BY <1>1, <1>4 DEF Remark
<1>6. r \in ReqRecord /\ r.pc = "image" /\ r.ref = s.ref /\ r.id = s.id /\ r.fmt = s.fmt
  BY <1>2, <1>4 DEF ReqRecord, Pcs, Builds
<1>7. /\ hurt \subseteq hurt'
      /\ s.id \notin hurt' => \A q \in Requests : ~Building(q, s.id)
  BY <1>1 DEF Remark
<1>8. UNCHANGED <<cache, tmp, index, image, sidecar, shares, replies, clash, world>>
  BY DEF Remark
<1>9. TypeInv'
  BY <1>5, <1>6, <1>8 DEF IInv, TypeInv, Keys, Key
<1>10. Extends
  BY <1>7, <1>8 DEF Extends, IInv, TypeInv, IsComplete
<1>11. ReqHas(p, r)'
  <2>1. ReqHas(p, r)
    BY <1>2, <1>3, <1>6 DEF ReqHas, Asking, Known, Builds, Prepares, Writes, Fills, Renames, Answers
  <2>. QED
    BY <1>6, <1>9, <1>10, <2>1, ReqKept DEF IInv
<1>12. \A q \in Requests : req'[q] = IF q = p THEN r ELSE req[q]
  BY <1>5 DEF IInv, TypeInv
<1>13. \A n \in 1..Len(Formats) : ~Past(r, n)
  BY <1>3, <1>6 DEF Past, Builds, Prepares
<1>14. BuildInv'
  <2>1. ASSUME NEW x \in Requests, NEW y \in Requests, x # y PROVE OneBuilder(x, y)'
    <3>1. OneBuilder(x, y)
      BY <2>1 DEF IInv, BuildInv
    <3>2. PICK rx, ry : rx = req'[x] /\ ry = req'[y]
      OBVIOUS
    <3>3. \A n : (Past(req[x], n)' <=> Past(rx, n)) /\ (Past(req[y], n)' <=> Past(ry, n))
      BY <3>2 DEF Past
    <3>4. CASE x # p /\ y # p
      BY <1>7, <1>8, <1>12, <3>1, <3>2, <3>3, <3>4 DEF OneBuilder, IsComplete, Fmt
    <3>5. CASE x = p \/ y = p
      BY <1>6, <1>7, <1>12, <1>13, <2>1, <3>2, <3>3, <3>5 DEF OneBuilder, Building, Builds
    <3>. QED
      BY <3>4, <3>5
  <2>2. ASSUME NEW x \in Requests, NEW n \in 1..Len(Formats), Past(req[x], n)', req'[x].id \notin hurt'
        PROVE  IsComplete(req[x].id, Formats[n])'
    <3>1. PICK rx : rx = req'[x]
      OBVIOUS
    <3>2. Past(rx, n)
      BY <2>2, <3>1 DEF Past
    <3>3. x # p /\ rx = req[x]
      BY <1>12, <1>13, <3>1, <3>2
    <3>. QED
      BY <1>7, <1>8, <2>2, <3>1, <3>2, <3>3 DEF IInv, BuildInv, IsComplete
  <2>3. ASSUME NEW i \in Ids, NEW f \in FormatSet, i \notin hurt'
        PROVE  /\ image'[i][f].content = "partial" =>
                    \E q \in Requests : req'[q].pc = "mkfsRuns" /\ req'[q].id = i /\ Fmt(req'[q]) = f
               /\ sidecar'[i][f] \notin {None, Torn} => sidecar'[i][f].sha256 = "complete"
    BY <1>1, <1>2, <1>7, <1>8, <1>12, <2>3 DEF IInv, BuildInv
  <2>. QED
    BY <2>1, <2>2, <2>3 DEF BuildInv, Fmt
<1>. QED
  BY <1>5, <1>6, <1>8, <1>9, <1>10, <1>11, <1>14, WorkInv DEF Fills, Renames

\* What the stat of an image file leaves in the request.
Stats(p, r, f, file, isBuilt) ==
    /\ req' = [req EXCEPT ![p] = r]
    /\ r.ref = req[p].ref /\ r.id = req[p].id /\ r.fmt = req[p].fmt
    /\ r.pc = IF world.hashing THEN "digest" ELSE "share"
    /\ r.entry \in EntryRecord /\ r.entry.id = r.id /\ r.entry.fmt = f
    /\ r.entry.size = Size(f, file.content) /\ r.entry.digest = "imageId"
    /\ r.ok /\ r.built = isBuilt

LEMMA StatRecord ==
    ASSUME TypeInv, NEW p \in Requests, req[p].ref \in Refs, req[p].id \in Ids,
           NEW f \in FormatSet, NEW file \in FileRecord, NEW isBuilt \in BOOLEAN,
           Stat(p, f, file, isBuilt)
    PROVE  \E r \in ReqRecord : Stats(p, r, f, file, isBuilt)
<1>1. PICK s : s = req[p]
  OBVIOUS
<1>2. s \in ReqRecord
  BY <1>1 DEF TypeInv
<1>3. PICK e : e = NewEntry(p, f, file)
  OBVIOUS
<1>4. /\ e \in EntryRecord /\ e.id = s.id /\ e.fmt = f /\ e.size = Size(f, file.content)
      /\ e.digest = "imageId"
  <2>1. Size(f, file.content) \in Sizes
    BY FormatFacts DEF FileRecord
  <2>. QED
    BY <1>1, <1>3, <2>1 DEF NewEntry, EntryRecord
<1>5. PICK pc, m : /\ pc = IF world.hashing THEN "digest" ELSE "share"
                   /\ m = IF world.hashing THEN file.mtime ELSE 0
  OBVIOUS
<1>6. pc \in Pcs /\ m \in Nat
  BY <1>5 DEF Pcs, Prepares, FileRecord
<1>7. PICK r : r = [s EXCEPT !.pc = pc, !.entry = e, !.ok = TRUE, !.built = isBuilt, !.mtime = m]
  OBVIOUS
<1>8. req' = [req EXCEPT ![p] = r]
  BY <1>1, <1>3, <1>5, <1>7 DEF Stat
<1>9. /\ r \in ReqRecord /\ r.ref = s.ref /\ r.id = s.id /\ r.fmt = s.fmt /\ r.pc = pc
      /\ r.entry = e /\ r.ok /\ r.built = isBuilt
  BY <1>2, <1>4, <1>6, <1>7 DEF ReqRecord
<1>. QED
  BY <1>1, <1>4, <1>5, <1>8, <1>9 DEF Stats

\* What is known of a request that builds or prepares.
LEMMA BuilderFacts ==
    ASSUME IInv, NEW p \in Requests, req[p].pc \in Builds \cup Prepares
    PROVE  /\ req[p] \in ReqRecord /\ ReqHas(p, req[p])
           /\ req[p].ref \in Refs /\ req[p].id \in Ids /\ req[p].id \in ImagesOf(Key(req[p].ref))
           /\ req[p].fmt \in 1..Len(Formats) /\ Fmt(req[p]) \in FormatSet
           /\ image[req[p].id][Fmt(req[p])] \in FileRecord
<1>1. req[p] \in ReqRecord /\ ReqHas(p, req[p])
  BY DEF IInv, TypeInv, ReqInv
<1>2. req[p].ref \in Refs /\ req[p].id \in ImagesOf(Key(req[p].ref))
  BY <1>1 DEF ReqHas, Builds, Prepares
<1>3. req[p].id \in Ids /\ req[p].fmt \in 1..Len(Formats)
  BY <1>1, <1>2, KeyFacts DEF IInv, ReqRecord
<1>4. Fmt(req[p]) \in FormatSet
  BY <1>3, FormatFacts DEF Fmt
<1>. QED
  BY <1>1, <1>2, <1>3, <1>4 DEF IInv, TypeInv

LEMMA NeedImageInv ==
    ASSUME IInv, world' = world, NEW p \in Requests, NeedImage(p)
    PROVE  IInv'
<1>0. Calm
  BY DEF NeedImage, Calm, files, history
<1>1. PICK s : s = req[p]
  OBVIOUS
<1>2. s.pc = "image"
  BY <1>1 DEF NeedImage, At
<1>3. /\ s \in ReqRecord /\ ReqHas(p, s) /\ s.ref \in Refs /\ s.id \in ImagesOf(Key(s.ref))
      /\ image[s.id][Fmt(s)].content = "none"
  BY <1>1, <1>2, BuilderFacts DEF Builds, NeedImage, Fmt
<1>4. PICK r : r = [s EXCEPT !.pc = "mkfs"]
  OBVIOUS
<1>5. req' = [req EXCEPT ![p] = r]
  BY <1>1, <1>4 DEF NeedImage, Goto
<1>6. r \in ReqRecord /\ r.pc = "mkfs" /\ r.ref = s.ref /\ r.id = s.id /\ r.fmt = s.fmt
  BY <1>3, <1>4, MoveRecord DEF Pcs, Builds
<1>7. ReqHas(p, r)
  BY <1>3, <1>6 DEF ReqHas, Fmt, Asking, Known, Builds, Prepares, Writes, Fills, Renames, Answers
<1>8. TypeInv'
  BY <1>0, <1>5, <1>6 DEF Calm, IInv, TypeInv, Keys, Key
<1>9. Extends
  BY <1>0 DEF Calm, Extends, IInv, TypeInv, IsComplete
<1>10. ReqHas(p, r)'
  BY <1>0, <1>6, <1>7, <1>8, <1>9, ReqKept DEF IInv, Calm
<1>11. BuildInv'
  <2>1. \A n \in 1..Len(Formats) : Past(r, n) => Past(s, n)
    BY <1>2, <1>6 DEF Past, Builds, Prepares
  <2>. QED
    <3>1. req[p].pc \in Builds /\ req[p].pc # "mkfsRuns"
      BY <1>1, <1>2 DEF Builds
    <3>2. \A i \in Ids, f \in FormatSet : i \notin hurt =>
               (sidecar'[i][f] \notin {None, Torn} => sidecar'[i][f].sha256 = "complete")
      BY <1>0 DEF Calm, IInv, BuildInv
    <3>. QED
      BY <1>0, <1>1, <1>5, <1>6, <2>1, <3>1, <3>2, BuildSame DEF IInv, Calm
<1>. QED
  BY <1>0, <1>5, <1>6, <1>8, <1>9, <1>10, <1>11, WorkInv DEF Fills, Renames, Calm

\* A file that exists is complete, unless builds of the image got into each
\* other's way: the request that is still writing it would be a second builder.
LEMMA TakeImageInv ==
    ASSUME IInv, world' = world, NEW p \in Requests, TakeImage(p)
    PROVE  IInv'
<1>0. Calm
  BY DEF TakeImage, Calm, files, history
<1>1. PICK s : s = req[p]
  OBVIOUS
<1>2. s.pc = "image"
  BY <1>1 DEF TakeImage, At
<1>3. /\ s \in ReqRecord /\ ReqHas(p, s) /\ s.ref \in Refs /\ s.id \in ImagesOf(Key(s.ref))
      /\ s.id \in Ids /\ Fmt(s) \in FormatSet /\ image[s.id][Fmt(s)] \in FileRecord
  BY <1>1, <1>2, BuilderFacts DEF Builds
<1>4. image[s.id][Fmt(s)].content # "none" /\ Stat(p, Fmt(s), image[s.id][Fmt(s)], FALSE)
  BY <1>1 DEF TakeImage, Fmt
<1>5. s.id \notin hurt => IsComplete(s.id, Fmt(s))
  <2>1. SUFFICES ASSUME s.id \notin hurt, ~IsComplete(s.id, Fmt(s)) PROVE FALSE
    OBVIOUS
  <2>2. image[s.id][Fmt(s)].content = "partial"
    BY <1>3, <1>4, <2>1 DEF FileRecord, Kinds, IsComplete
  <2>3. PICK q \in Requests : req[q].pc = "mkfsRuns" /\ req[q].id = s.id /\ Fmt(req[q]) = Fmt(s)
    BY <1>3, <2>1, <2>2 DEF IInv, BuildInv
  <2>4. OneBuilder(p, q)
    BY <1>1, <1>2, <2>3 DEF IInv, BuildInv
  <2>. QED
    BY <1>1, <1>2, <2>1, <2>3, <2>4 DEF OneBuilder, Builds
<1>6. PICK r \in ReqRecord : Stats(p, r, Fmt(s), image[s.id][Fmt(s)], FALSE)
  <2>1. req[p].ref \in Refs /\ req[p].id \in Ids /\ TypeInv /\ FALSE \in BOOLEAN
    BY <1>1, <1>3 DEF IInv
  <2>. QED
    BY <1>3, <1>4, <2>1, StatRecord, Zenon
<1>60. /\ req' = [req EXCEPT ![p] = r]
       /\ r.ref = s.ref /\ r.id = s.id /\ r.fmt = s.fmt
       /\ r.pc = IF world.hashing THEN "digest" ELSE "share"
       /\ r.entry \in EntryRecord /\ r.entry.id = r.id /\ r.entry.fmt = Fmt(s)
       /\ r.entry.size = Size(Fmt(s), image[s.id][Fmt(s)].content) /\ r.entry.digest = "imageId"
       /\ r.ok /\ ~r.built
  BY <1>1, <1>6 DEF Stats
<1>7. ReqHas(p, r)
  BY <1>3, <1>5, <1>60
  DEF ReqHas, Fmt, IsComplete, RightDigest, Asking, Known, Builds, Prepares, Writes, Fills, Renames, Answers
<1>8. TypeInv'
  BY <1>0, <1>60 DEF Calm, IInv, TypeInv, Keys, Key
<1>9. Extends
  BY <1>0 DEF Calm, Extends, IInv, TypeInv, IsComplete
<1>10. ReqHas(p, r)'
  BY <1>0, <1>60, <1>7, <1>8, <1>9, ReqKept DEF IInv, Calm
<1>11. BuildInv'
  <2>1. \A n \in 1..Len(Formats) : ~Past(r, n)
    BY <1>60 DEF Past, Builds, Prepares
  <2>2. r.pc \notin Builds
    BY <1>60 DEF Builds
  <2>. QED
    BY <1>0, <1>1, <1>2, <1>60, <2>1, <2>2, BuildSame DEF IInv, Calm, BuildInv
<1>12. r.pc \notin Fills \cup Renames
  BY <1>60 DEF Fills, Renames
<1>. QED
  BY <1>0, <1>60, <1>8, <1>9, <1>10, <1>11, <1>12, WorkInv DEF Calm

\* A step of the digest: from the sidecar or from the file, both of which are
\* those of a complete file.
LEMMA DigestInv ==
    ASSUME IInv, NEW p \in Requests, NEW r \in ReqRecord, req' = [req EXCEPT ![p] = r],
           req[p].pc \in {"digest", "sidecar"}, r.pc \in {"sidecar", "share"},
           r.id = req[p].id, r.fmt = req[p].fmt, r.built = req[p].built, ReqHas(p, r),
           UNCHANGED <<cache, tmp, index, image, shares, hurt, clash, replies, world>>,
           sidecar' \in [Ids -> [FormatSet -> SidecarRecord \cup {None, Torn}]],
           \A i \in Ids, f \in FormatSet : i \notin hurt =>
               (sidecar'[i][f] \notin {None, Torn} => sidecar'[i][f].sha256 = "complete")
    PROVE  IInv'
<1>1. TypeInv'
  BY DEF IInv, TypeInv, Keys, Key
<1>2. Extends
  BY DEF Extends, IInv, TypeInv, IsComplete
<1>3. ReqHas(p, r)'
  BY <1>1, <1>2, ReqKept DEF IInv
<1>4. /\ \A n \in 1..Len(Formats) : Past(r, n) => Past(req[p], n)
      /\ r.pc \notin Builds \cup Fills \cup Renames /\ req[p].pc # "mkfsRuns"
  BY DEF Past, Builds, Prepares, Fills, Renames
<1>5. BuildInv'
  BY <1>4, BuildSame DEF IInv
<1>. QED
  BY <1>1, <1>2, <1>3, <1>4, <1>5, WorkInv

LEMMA ReadSidecarInv ==
    ASSUME IInv, world' = world, NEW p \in Requests, ReadSidecar(p)
    PROVE  IInv'
<1>0. Calm
  BY DEF ReadSidecar, DigestFor, Calm, files, history
<1>1. PICK s : s = req[p]
  OBVIOUS
<1>2. s.pc = "digest"
  BY <1>1 DEF ReadSidecar, DigestFor, At
<1>3. /\ s \in ReqRecord /\ ReqHas(p, s) /\ s.ref \in Refs /\ s.id \in ImagesOf(Key(s.ref))
      /\ s.id \in Ids /\ Fmt(s) \in FormatSet /\ image[s.id][Fmt(s)] \in FileRecord
  BY <1>1, <1>2, BuilderFacts DEF Prepares
<1>4. /\ world.hashing /\ s.entry \in EntryRecord /\ s.entry.id = s.id /\ s.entry.fmt = Fmt(s) /\ s.ok
      /\ s.id \notin hurt => IsComplete(s.id, Fmt(s)) /\ s.entry.size = Size(Fmt(s), "complete")
  BY <1>2, <1>3 DEF ReqHas, Prepares
<1>5. PICK pc, d : /\ req' = [req EXCEPT ![p].pc = pc, ![p].entry.digest = d]
                   /\ pc \in {"share", "sidecar"} /\ d \in Kinds \cup {"imageId"}
                   /\ s.id \notin hurt => d = "complete"
  <2>1. CASE SidecarMatches(p, SidecarOf(p))
    <3>1. SidecarOf(p) = sidecar[s.id][Fmt(s)] /\ SidecarOf(p) \notin {None, Torn}
      BY <1>1, <1>4, <2>1 DEF SidecarMatches, SidecarOf
    <3>2. SidecarOf(p) \in SidecarRecord /\ (s.id \notin hurt => SidecarOf(p).sha256 = "complete")
      BY <1>3, <3>1 DEF IInv, TypeInv, BuildInv
    <3>3. SidecarOf(p).sha256 \in Kinds \cup {"imageId"}
      BY <3>2 DEF SidecarRecord
    <3>4. req' = [req EXCEPT ![p].pc = "share", ![p].entry.digest = SidecarOf(p).sha256]
      BY <2>1 DEF ReadSidecar, DigestFor
    <3>. QED
      BY <3>2, <3>3, <3>4
  <2>2. CASE ~SidecarMatches(p, SidecarOf(p))
    <3>1. Sha256(p) = image[s.id][Fmt(s)].content
      BY <1>1, <1>4 DEF Sha256
    <3>2. Sha256(p) \in Kinds /\ (s.id \notin hurt => Sha256(p) = "complete")
      BY <1>3, <1>4, <3>1 DEF FileRecord, IsComplete
    <3>3. req' = [req EXCEPT ![p].pc = "sidecar", ![p].entry.digest = Sha256(p)]
      BY <2>2 DEF ReadSidecar, DigestFor
    <3>. QED
      BY <3>2, <3>3
  <2>. QED
    BY <2>1, <2>2
<1>6. PICK e : e = [s.entry EXCEPT !.digest = d]
  OBVIOUS
<1>7. e \in EntryRecord /\ e.id = s.entry.id /\ e.fmt = s.entry.fmt /\ e.size = s.entry.size /\ e.digest = d
  BY <1>4, <1>5, <1>6 DEF EntryRecord
<1>8. PICK r : r = [s EXCEPT !.pc = pc, !.entry = e]
  OBVIOUS
<1>9. /\ r \in ReqRecord /\ r.pc = pc /\ r.entry = e /\ r.ref = s.ref /\ r.id = s.id /\ r.fmt = s.fmt
      /\ r.ok = s.ok /\ r.built = s.built
  BY <1>3, <1>5, <1>7, <1>8 DEF ReqRecord, Pcs, Prepares
<1>10. req' = [req EXCEPT ![p] = r]
  BY <1>1, <1>3, <1>5, <1>6, <1>8 DEF ReqRecord
<1>11. ReqHas(p, r)
  BY <1>3, <1>4, <1>5, <1>7, <1>9
  DEF ReqHas, Fmt, RightDigest, Asking, Known, Builds, Prepares, Writes, Fills, Renames, Answers
<1>12. /\ sidecar' \in [Ids -> [FormatSet -> SidecarRecord \cup {None, Torn}]]
       /\ \A i \in Ids, f \in FormatSet : i \notin hurt =>
              (sidecar'[i][f] \notin {None, Torn} => sidecar'[i][f].sha256 = "complete")
  BY <1>0 DEF Calm, IInv, TypeInv, BuildInv
<1>. QED
  BY <1>0, <1>1, <1>2, <1>5, <1>9, <1>10, <1>11, <1>12, DigestInv DEF Calm

LEMMA WriteSidecarInv ==
    ASSUME IInv, world' = world, NEW p \in Requests, WriteSidecar(p)
    PROVE  IInv'
<1>0. UNCHANGED <<cache, tmp, index, image, shares, hurt, clash, replies, world>>
  BY DEF WriteSidecar, history
<1>1. PICK s : s = req[p]
  OBVIOUS
<1>2. s.pc = "sidecar"
  BY <1>1 DEF WriteSidecar, At
<1>3. /\ s \in ReqRecord /\ ReqHas(p, s) /\ s.ref \in Refs /\ s.id \in ImagesOf(Key(s.ref))
      /\ s.id \in Ids /\ Fmt(s) \in FormatSet
  BY <1>1, <1>2, BuilderFacts DEF Prepares
<1>4. /\ world.hashing /\ s.entry \in EntryRecord /\ s.entry.id = s.id /\ s.entry.fmt = Fmt(s) /\ s.ok
      /\ s.id \notin hurt => /\ IsComplete(s.id, Fmt(s)) /\ s.entry.size = Size(Fmt(s), "complete")
                             /\ s.entry.digest = "complete"
  BY <1>2, <1>3 DEF ReqHas, Prepares, RightDigest
<1>5. PICK new : /\ new \in SidecarRecord \cup {None, Torn}
                 /\ s.id \notin hurt /\ new \notin {None, Torn} => new.sha256 = "complete"
                 /\ sidecar' = [sidecar EXCEPT ![s.id][Fmt(s)] = new]
  <2>1. PICK w : w = [size |-> s.entry.size, mtime |-> s.mtime, sha256 |-> s.entry.digest]
    OBVIOUS
  <2>2. w \in SidecarRecord /\ w.sha256 = s.entry.digest
    BY <1>3, <1>4, <2>1 DEF SidecarRecord, EntryRecord, ReqRecord
  <2>3. \/ sidecar' = [sidecar EXCEPT ![s.id][Fmt(s)] = w]
        \/ sidecar' = [sidecar EXCEPT ![s.id][Fmt(s)] = Torn]
    BY <1>1, <1>4, <2>1 DEF WriteSidecar
  <2>. QED
    BY <1>4, <2>2, <2>3
<1>6. /\ sidecar' \in [Ids -> [FormatSet -> SidecarRecord \cup {None, Torn}]]
      /\ \A i \in Ids, f \in FormatSet : sidecar'[i][f] =
            IF i = s.id /\ f = Fmt(s) THEN new ELSE sidecar[i][f]
  BY <1>3, <1>5 DEF IInv, TypeInv
<1>7. \A i \in Ids, f \in FormatSet : i \notin hurt =>
          (sidecar'[i][f] \notin {None, Torn} => sidecar'[i][f].sha256 = "complete")
  BY <1>5, <1>6 DEF IInv, BuildInv
<1>8. PICK r : r = [s EXCEPT !.pc = "share"]
  OBVIOUS
<1>9. /\ r \in ReqRecord /\ r.pc = "share" /\ r.ref = s.ref /\ r.id = s.id /\ r.fmt = s.fmt
      /\ r.entry = s.entry /\ r.ok = s.ok /\ r.built = s.built
  BY <1>3, <1>8, MoveRecord DEF Pcs, Prepares
<1>10. req' = [req EXCEPT ![p] = r]
  BY <1>1, <1>8 DEF WriteSidecar, Goto
<1>11. ReqHas(p, r)
  BY <1>3, <1>4, <1>9
  DEF ReqHas, Fmt, RightDigest, Asking, Known, Builds, Prepares, Writes, Fills, Renames, Answers
<1>. QED
  BY <1>0, <1>1, <1>2, <1>6, <1>7, <1>9, <1>10, <1>11, DigestInv

\* What is shared is what the file holds; the share is the newest.
LEMMA ShareInv ==
    ASSUME IInv, world' = world, NEW p \in Requests, Share(p)
    PROVE  IInv'
<1>0. UNCHANGED <<cache, tmp, index, image, sidecar, hurt, clash, replies, world>>
  BY DEF Share, files, history
<1>1. PICK s : s = req[p]
  OBVIOUS
<1>2. s.pc = "share"
  BY <1>1 DEF Share, At
<1>3. /\ s \in ReqRecord /\ ReqHas(p, s) /\ s.ref \in Refs /\ s.id \in ImagesOf(Key(s.ref))
      /\ s.id \in Ids /\ Fmt(s) \in FormatSet /\ image[s.id][Fmt(s)] \in FileRecord
  BY <1>1, <1>2, BuilderFacts DEF Prepares
<1>4. /\ s.entry \in EntryRecord /\ s.entry.id = s.id /\ s.entry.fmt = Fmt(s) /\ s.ok
      /\ s.id \notin hurt => /\ IsComplete(s.id, Fmt(s)) /\ s.entry.size = Size(Fmt(s), "complete")
                             /\ s.entry.digest = RightDigest
  BY <1>2, <1>3 DEF ReqHas, Prepares
<1>5. PICK sh : sh = [id |-> s.id, content |-> image[s.id][Fmt(s)].content]
  OBVIOUS
<1>6. sh \in ShareRecord /\ sh.id = s.id /\ sh.content = image[s.id][Fmt(s)].content
  BY <1>3, <1>5 DEF ShareRecord, FileRecord
<1>7. shares' = Append(shares, sh)
  BY <1>1, <1>4, <1>5 DEF Share
<1>8. shares \in Seq(ShareRecord) /\ Len(shares) \in Nat
  BY DEF IInv, TypeInv
<1>9. /\ shares' \in Seq(ShareRecord) /\ Len(shares') = Len(shares) + 1
      /\ shares'[Len(shares) + 1] = sh
      /\ \A k \in 1..Len(shares) : shares'[k] = shares[k]
  BY <1>6, <1>7, <1>8
<1>10. PICK e : e = [s.entry EXCEPT !.share = Len(shares) + 1]
  OBVIOUS
<1>11. /\ e \in EntryRecord /\ e.id = s.id /\ e.fmt = Fmt(s) /\ e.size = s.entry.size
       /\ e.digest = s.entry.digest /\ e.share = Len(shares) + 1
  BY <1>4, <1>8, <1>10 DEF EntryRecord
<1>12. PICK r : r = [s EXCEPT !.pc = "check", !.entry = e, !.mtime = 0, !.built = FALSE]
  OBVIOUS
<1>13. /\ r \in ReqRecord /\ r.pc = "check" /\ r.entry = e /\ r.ref = s.ref /\ r.id = s.id /\ r.ok = s.ok
  BY <1>3, <1>11, <1>12 DEF ReqRecord, Pcs, Writes
<1>14. req' = [req EXCEPT ![p] = r]
  BY <1>1, <1>3, <1>10, <1>12 DEF Share, ReqRecord
<1>15. TypeInv'
  BY <1>0, <1>9, <1>13, <1>14 DEF IInv, TypeInv, Keys, Key
<1>16. Extends
  BY <1>0, <1>8, <1>9 DEF Extends, IsComplete
<1>17. Sound(e)'
  <2>1. Backed(e)'
    BY <1>6, <1>8, <1>9, <1>11 DEF Backed
  <2>2. e.id \notin hurt' =>
          /\ shares'[e.share].content = "complete" /\ e.digest = RightDigest'
          /\ IsComplete(e.id, e.fmt)' /\ e.size = Size(e.fmt, "complete")
    BY <1>0, <1>4, <1>6, <1>9, <1>11 DEF RightDigest, IsComplete
  <2>. QED
    BY <1>11, <2>1, <2>2 DEF Sound, Size
<1>18. ReqHas(p, r)'
  <2>1. s.id \in ImagesOf(Key(s.ref))'
    BY <1>0, <1>3 DEF ImagesOf, Key
  <2>. QED
    BY <1>3, <1>4, <1>11, <1>13, <1>17, <2>1
    DEF ReqHas, Asking, Known, Builds, Prepares, Writes, Fills, Renames, Answers
<1>19. r.pc \notin Builds \cup Prepares \cup Fills \cup Renames /\ req[p].pc # "mkfsRuns"
  BY <1>1, <1>2, <1>13 DEF Builds, Prepares, Fills, Renames
<1>20. BuildInv'
  BY <1>0, <1>14, <1>19, BuildLeft DEF IInv
<1>. QED
  BY <1>0, <1>14, <1>15, <1>16, <1>18, <1>19, <1>20, WorkInv

\* A step of a build that writes the file, or gets past a format.
LEMMA BuildKept ==
    ASSUME IInv, Extends, NEW p \in Requests, NEW r, req' = [req EXCEPT ![p] = r], r.id = req[p].id,
           ASSUME r.id \notin hurt', r.pc \in Builds, NEW q \in Requests, q # p,
                  req[q].id = r.id, req[q].pc \in Builds, Fmt(req[q]) = Fmt(r)
           PROVE  image'[r.id][Fmt(r)].content = "complete",
           ASSUME r.id \notin hurt', NEW n \in 1..Len(Formats), Past(r, n)
           PROVE  \/ Past(req[p], n)
                  \/ /\ image'[r.id][Formats[n]].content = "complete"
                     /\ \A q \in Requests : q # p /\ req[q].id = r.id => ~Past(req[q], n),
           ASSUME NEW i \in Ids, NEW f \in FormatSet, i \notin hurt'
           PROVE  /\ image'[i][f].content = "partial" =>
                       \E q \in Requests : req'[q].pc = "mkfsRuns" /\ req'[q].id = i /\ Fmt(req'[q]) = f
                  /\ sidecar'[i][f] \notin {None, Torn} => sidecar'[i][f].sha256 = "complete"
    PROVE  BuildInv'
<1>1. \A q \in Requests : req'[q] = IF q = p THEN r ELSE req[q]
  BY DEF IInv, TypeInv
<1>2. \A q \in Requests : q # p => req'[q] = req[q]
  BY <1>1
<1>3. req'[p] = r /\ \A q \in Requests : req'[q].id = req[q].id
  BY <1>1
<1>4. ASSUME NEW q \in Requests, NEW n \in 1..Len(Formats), Past(req[q], n), req[q].id \notin hurt'
      PROVE  image'[req[q].id][Formats[n]].content = "complete"
  <2>1. req[q].pc \in Builds \cup Prepares
    BY <1>4 DEF Past
  <2>2. req[q].id \in Ids /\ Formats[n] \in FormatSet
    BY <2>1, BuilderFacts, FormatFacts
  <2>3. IsComplete(req[q].id, Formats[n])
    BY <1>4 DEF IInv, BuildInv, Extends
  <2>. QED
    BY <1>4, <2>2, <2>3 DEF Extends
<1>5. ASSUME NEW x \in Requests, NEW y \in Requests, x # y, req'[x].id = req'[y].id,
             req'[x].id \notin hurt', req'[x].pc \in Builds, req'[y].pc \in Builds,
             Fmt(req'[x]) = Fmt(req'[y])
      PROVE  image'[req'[x].id][Fmt(req'[x])].content = "complete"
  <2>1. CASE x = p
    BY <1>2, <1>3, <1>5, <2>1
  <2>2. CASE y = p
    BY <1>2, <1>3, <1>5, <2>2
  <2>3. CASE x # p /\ y # p
    <3>1. req'[x] = req[x] /\ req'[y] = req[y]
      BY <1>2, <2>3
    <3>2. IsComplete(req[x].id, Fmt(req[x]))
      BY <1>5, <3>1 DEF IInv, BuildInv, OneBuilder, Extends
    <3>3. req[x].id \in Ids /\ Fmt(req[x]) \in FormatSet
      BY <1>5, <3>1, BuilderFacts
    <3>. QED
      BY <1>5, <3>1, <3>2, <3>3 DEF Extends
  <2>. QED
    BY <2>1, <2>2, <2>3
<1>6. ASSUME NEW x \in Requests, NEW y \in Requests, x # y, req'[x].id = req'[y].id,
             req'[x].id \notin hurt', NEW n \in 1..Len(Formats)
      PROVE  ~(Past(req'[x], n) /\ Past(req'[y], n))
  <2>1. ~(Past(req[x], n) /\ Past(req[y], n))
    BY <1>3, <1>6 DEF IInv, BuildInv, OneBuilder, Extends
  <2>2. CASE x = p
    BY <1>2, <1>3, <1>6, <2>1, <2>2
  <2>3. CASE y = p
    BY <1>2, <1>3, <1>6, <2>1, <2>3
  <2>4. CASE x # p /\ y # p
    BY <1>2, <2>1, <2>4
  <2>. QED
    BY <2>2, <2>3, <2>4
<1>7. ASSUME NEW x \in Requests, NEW n \in 1..Len(Formats), Past(req'[x], n), req'[x].id \notin hurt'
      PROVE  image'[req'[x].id][Formats[n]].content = "complete"
  <2>1. CASE x = p
    BY <1>3, <1>4, <1>7, <2>1
  <2>2. CASE x # p
    BY <1>2, <1>4, <1>7, <2>2
  <2>. QED
    BY <2>1, <2>2
<1>8. ASSUME NEW x \in Requests, NEW n
      PROVE  Past(req[x], n)' <=> Past(req'[x], n)
  BY DEF Past
<1>9. ASSUME NEW x \in Requests, NEW y \in Requests, x # y PROVE OneBuilder(x, y)'
  BY <1>5, <1>6, <1>8, <1>9 DEF OneBuilder, IsComplete, Fmt
<1>10. ASSUME NEW x \in Requests, NEW n \in 1..Len(Formats), Past(req[x], n)', req'[x].id \notin hurt'
       PROVE  IsComplete(req[x].id, Formats[n])'
  BY <1>7, <1>8, <1>10 DEF IsComplete
<1>. QED
  BY <1>9, <1>10 DEF BuildInv, Fmt

\* A request whose build is in nobody's way has its image's file to itself.
LEMMA OwnFile ==
    ASSUME IInv, NEW p \in Requests, req[p].pc \in {"mkfs", "mkfsRuns"}, req[p].id \notin hurt
    PROVE  /\ image[req[p].id][Fmt(req[p])].content # "complete"
           /\ \A q \in Requests : q # p /\ req[q].id = req[p].id /\ req[q].pc \in Builds =>
                 Fmt(req[q]) # Fmt(req[p])
           /\ \A q \in Requests : q # p /\ req[q].id = req[p].id => ~Past(req[q], req[p].fmt)
<1>1. ReqHas(p, req[p]) /\ req[p].fmt \in 1..Len(Formats) /\ req[p].pc \in Builds
  BY BuilderFacts DEF Builds
<1>2. image[req[p].id][Fmt(req[p])].content # "complete"
  BY <1>1 DEF ReqHas
<1>3. ASSUME NEW q \in Requests, q # p, req[q].id = req[p].id
      PROVE  /\ req[q].pc \in Builds => Fmt(req[q]) # Fmt(req[p])
             /\ ~Past(req[q], req[p].fmt)
  <2>1. req[q].pc \in Builds => Fmt(req[q]) # Fmt(req[p])
    BY <1>1, <1>2, <1>3 DEF IInv, BuildInv, OneBuilder, IsComplete
  <2>2. ~Past(req[q], req[p].fmt)
    BY <1>1, <1>2, <1>3 DEF IInv, BuildInv, IsComplete, Fmt
  <2>. QED
    BY <2>1, <2>2
<1>. QED
  BY <1>2, <1>3

\* File as a record.
LEMMA FileFacts ==
    ASSUME TypeInv, NEW i \in Ids, NEW f \in FormatSet, NEW c \in Kinds, NEW by \in Requests \cup {None}
    PROVE  /\ File(i, f, c, by) \in FileRecord
           /\ File(i, f, c, by).content = c /\ File(i, f, c, by).by = by
<1>1. image[i][f].mtime \in Nat
  BY DEF TypeInv, FileRecord
<1>. QED
  BY <1>1 DEF File, FileRecord

LEMMA StartMkfsInv ==
    ASSUME IInv, world' = world, NEW p \in Requests, StartMkfs(p)
    PROVE  IInv'
<1>0. UNCHANGED <<cache, tmp, index, shares, hurt, clash, replies, world>>
  BY DEF StartMkfs, history
<1>1. PICK s : s = req[p]
  OBVIOUS
<1>2. s.pc = "mkfs"
  BY <1>1 DEF StartMkfs, At
<1>3. /\ s \in ReqRecord /\ ReqHas(p, s) /\ s.ref \in Refs /\ s.id \in ImagesOf(Key(s.ref))
      /\ s.id \in Ids /\ Fmt(s) \in FormatSet
  BY <1>1, <1>2, BuilderFacts DEF Builds
<1>4. PICK new : new = File(s.id, Fmt(s), "partial", p)
  OBVIOUS
<1>5. new \in FileRecord /\ new.content = "partial" /\ new.by = p
  BY <1>3, <1>4, FileFacts DEF IInv, Kinds
<1>6. /\ image' = [image EXCEPT ![s.id][Fmt(s)] = new]
      /\ sidecar' = [sidecar EXCEPT ![s.id][Fmt(s)] = None]
  BY <1>1, <1>4 DEF StartMkfs, Fmt
<1>7. /\ image' \in [Ids -> [FormatSet -> FileRecord]]
      /\ \A i \in Ids, f \in FormatSet : image'[i][f] =
            IF i = s.id /\ f = Fmt(s) THEN new ELSE image[i][f]
  BY <1>3, <1>5, <1>6 DEF IInv, TypeInv
<1>8. /\ sidecar' \in [Ids -> [FormatSet -> SidecarRecord \cup {None, Torn}]]
      /\ \A i \in Ids, f \in FormatSet : sidecar'[i][f] =
            IF i = s.id /\ f = Fmt(s) THEN None ELSE sidecar[i][f]
  BY <1>3, <1>6 DEF IInv, TypeInv
<1>9. PICK r : r = [s EXCEPT !.pc = "mkfsRuns"]
  OBVIOUS
<1>10. /\ r \in ReqRecord /\ r.pc = "mkfsRuns" /\ r.ref = s.ref /\ r.id = s.id /\ r.fmt = s.fmt
  BY <1>3, <1>9, MoveRecord DEF Pcs, Builds
<1>11. req' = [req EXCEPT ![p] = r]
  BY <1>1, <1>9 DEF StartMkfs, Goto
<1>12. TypeInv'
  BY <1>0, <1>7, <1>8, <1>10, <1>11 DEF IInv, TypeInv, Keys, Key
<1>13. s.id \notin hurt => /\ ~IsComplete(s.id, Fmt(s))
                           /\ \A q \in Requests : q # p /\ req[q].id = s.id /\ req[q].pc \in Builds =>
                                 Fmt(req[q]) # Fmt(s)
  BY <1>1, <1>2, OwnFile DEF IsComplete
<1>14. Extends
  BY <1>0, <1>7, <1>13 DEF Extends, IsComplete, IInv, TypeInv
<1>15. ReqHas(p, r)'
  <2>1. s.id \in ImagesOf(Key(s.ref))'
    BY <1>0, <1>3 DEF ImagesOf, Key
  <2>. QED
    BY <1>3, <1>5, <1>7, <1>10, <2>1
    DEF ReqHas, Fmt, Asking, Known, Builds, Prepares, Writes, Fills, Renames, Answers
<1>16. ASSUME NEW q \in Requests, q # p, req[q].pc \in {"mkfs", "mkfsRuns"}, req[q].id \notin hurt'
       PROVE  image'[req[q].id][Fmt(req[q])] = image[req[q].id][Fmt(req[q])]
  <2>1. req[q].id \in Ids /\ Fmt(req[q]) \in FormatSet /\ req[q].pc \in Builds
    BY <1>16, BuilderFacts DEF Builds
  <2>. QED
    BY <1>0, <1>7, <1>13, <1>16, <2>1
<1>17. BuildInv'
  <2>0. req'[p] = r /\ \A q \in Requests : q # p => req'[q] = req[q]
    BY <1>11 DEF IInv, TypeInv
  <2>1. ASSUME r.id \notin hurt', r.pc \in Builds, NEW q \in Requests, q # p,
               req[q].id = r.id, req[q].pc \in Builds, Fmt(req[q]) = Fmt(r)
        PROVE  image'[r.id][Fmt(r)].content = "complete"
    BY <1>0, <1>10, <1>13, <2>1 DEF Fmt
  <2>2. ASSUME r.id \notin hurt', NEW n \in 1..Len(Formats), Past(r, n)
        PROVE  Past(req[p], n)
    BY <1>1, <1>2, <1>10, <2>2 DEF Past, Builds, Prepares
  <2>3. ASSUME NEW i \in Ids, NEW f \in FormatSet, i \notin hurt'
        PROVE  /\ image'[i][f].content = "partial" =>
                    \E q \in Requests : req'[q].pc = "mkfsRuns" /\ req'[q].id = i /\ Fmt(req'[q]) = f
               /\ sidecar'[i][f] \notin {None, Torn} => sidecar'[i][f].sha256 = "complete"
    <3>1. CASE i = s.id /\ f = Fmt(s)
      <4>1. req'[p].pc = "mkfsRuns" /\ req'[p].id = i /\ Fmt(req'[p]) = f
        BY <1>10, <2>0, <3>1 DEF Fmt
      <4>. QED
        BY <1>3, <1>8, <3>1, <4>1
    <3>2. CASE ~(i = s.id /\ f = Fmt(s))
      <4>1. image'[i][f] = image[i][f] /\ sidecar'[i][f] = sidecar[i][f] /\ i \notin hurt
        BY <1>0, <1>7, <1>8, <2>3, <3>2
      <4>2. \A q \in Requests : req[q].pc = "mkfsRuns" => req'[q] = req[q]
        BY <1>1, <1>2, <2>0
      <4>. QED
        BY <4>1, <4>2 DEF IInv, BuildInv
    <3>. QED
      BY <3>1, <3>2
  <2>. QED
    BY <1>1, <1>10, <1>11, <1>14, <2>1, <2>2, <2>3, BuildKept
<1>. QED
  BY <1>0, <1>10, <1>11, <1>12, <1>14, <1>15, <1>16, <1>17, WorkInv DEF Fills, Renames

LEMMA MkfsDoneInv ==
    ASSUME IInv, world' = world, NEW p \in Requests, MkfsDone(p)
    PROVE  IInv'
<1>0. UNCHANGED <<cache, tmp, index, sidecar, shares, hurt, clash, replies, world>>
  BY DEF MkfsDone, history
<1>1. PICK s : s = req[p]
  OBVIOUS
<1>2. s.pc = "mkfsRuns"
  BY <1>1 DEF MkfsDone, At
<1>3. /\ s \in ReqRecord /\ ReqHas(p, s) /\ s.ref \in Refs /\ s.id \in ImagesOf(Key(s.ref))
      /\ s.id \in Ids /\ Fmt(s) \in FormatSet /\ image[s.id][Fmt(s)] \in FileRecord
      /\ s.fmt \in 1..Len(Formats)
  BY <1>1, <1>2, BuilderFacts DEF Builds
<1>4. PICK new : /\ new = IF image[s.id][Fmt(s)].by = p THEN File(s.id, Fmt(s), "complete", None)
                          ELSE image[s.id][Fmt(s)]
                 /\ image' = [image EXCEPT ![s.id][Fmt(s)] = new]
                 /\ Stat(p, Fmt(s), new, TRUE)
  BY <1>1 DEF MkfsDone, Fmt
<1>5. new \in FileRecord /\ (s.id \notin hurt => new.content = "complete")
  <2>1. /\ File(s.id, Fmt(s), "complete", None) \in FileRecord
        /\ File(s.id, Fmt(s), "complete", None).content = "complete"
    BY <1>3, FileFacts DEF IInv, Kinds
  <2>2. s.id \notin hurt => image[s.id][Fmt(s)].by = p
    BY <1>2, <1>3 DEF ReqHas
  <2>. QED
    BY <1>3, <1>4, <2>1, <2>2
<1>6. /\ image' \in [Ids -> [FormatSet -> FileRecord]]
      /\ \A i \in Ids, f \in FormatSet : image'[i][f] =
            IF i = s.id /\ f = Fmt(s) THEN new ELSE image[i][f]
  BY <1>3, <1>4, <1>5 DEF IInv, TypeInv
<1>7. PICK r \in ReqRecord : Stats(p, r, Fmt(s), new, TRUE)
  <2>1. req[p].ref \in Refs /\ req[p].id \in Ids /\ TypeInv /\ TRUE \in BOOLEAN
    BY <1>1, <1>3 DEF IInv
  <2>. QED
    BY <1>3, <1>4, <1>5, <2>1, StatRecord, Zenon
<1>8. /\ req' = [req EXCEPT ![p] = r]
      /\ r.ref = s.ref /\ r.id = s.id /\ r.fmt = s.fmt
      /\ r.pc = IF world.hashing THEN "digest" ELSE "share"
      /\ r.entry \in EntryRecord /\ r.entry.id = r.id /\ r.entry.fmt = Fmt(s)
      /\ r.entry.size = Size(Fmt(s), new.content) /\ r.entry.digest = "imageId"
      /\ r.ok
  BY <1>1, <1>7 DEF Stats
<1>9. TypeInv'
  BY <1>0, <1>6, <1>8 DEF IInv, TypeInv, Keys, Key
<1>10. s.id \notin hurt =>
          /\ \A q \in Requests : q # p /\ req[q].id = s.id /\ req[q].pc \in Builds =>
                Fmt(req[q]) # Fmt(s)
          /\ \A q \in Requests : q # p /\ req[q].id = s.id => ~Past(req[q], s.fmt)
  BY <1>1, <1>2, OwnFile
<1>11. Extends
  BY <1>0, <1>5, <1>6 DEF Extends, IsComplete, IInv, TypeInv
<1>12. ReqHas(p, r)'
  <2>1. s.id \in ImagesOf(Key(s.ref))'
    BY <1>0, <1>3 DEF ImagesOf, Key
  <2>2. image'[s.id][Fmt(s)] = new
    BY <1>3, <1>6
  <2>. QED
    BY <1>0, <1>3, <1>5, <1>8, <2>1, <2>2
    DEF ReqHas, Fmt, IsComplete, RightDigest, Size, Asking, Known, Builds, Prepares, Writes, Fills, Renames, Answers
<1>13. ASSUME NEW q \in Requests, q # p, req[q].pc \in {"mkfs", "mkfsRuns"}, req[q].id \notin hurt'
       PROVE  image'[req[q].id][Fmt(req[q])] = image[req[q].id][Fmt(req[q])]
  <2>1. req[q].id \in Ids /\ Fmt(req[q]) \in FormatSet /\ req[q].pc \in Builds
    BY <1>13, BuilderFacts DEF Builds
  <2>. QED
    BY <1>0, <1>6, <1>10, <1>13, <2>1
<1>14. r.pc \notin Builds \cup Fills \cup Renames
  BY <1>8 DEF Builds, Fills, Renames
<1>15. BuildInv'
  <2>0. req'[p] = r /\ \A q \in Requests : q # p => req'[q] = req[q]
    BY <1>8 DEF IInv, TypeInv
  <2>1. ASSUME r.id \notin hurt', NEW n \in 1..Len(Formats), Past(r, n)
        PROVE  \/ Past(req[p], n)
               \/ /\ image'[r.id][Formats[n]].content = "complete"
                  /\ \A q \in Requests : q # p /\ req[q].id = r.id => ~Past(req[q], n)
    <3>1. n <= s.fmt
      BY <1>8, <1>14, <2>1 DEF Past
    <3>2. CASE n = s.fmt
      BY <1>0, <1>3, <1>5, <1>6, <1>8, <1>10, <2>1, <3>2 DEF Fmt
    <3>3. CASE n # s.fmt
      BY <1>1, <1>2, <1>3, <3>1, <3>3 DEF Past, Builds
    <3>. QED
      BY <3>2, <3>3
  <2>2. ASSUME NEW i \in Ids, NEW f \in FormatSet, i \notin hurt'
        PROVE  /\ image'[i][f].content = "partial" =>
                    \E q \in Requests : req'[q].pc = "mkfsRuns" /\ req'[q].id = i /\ Fmt(req'[q]) = f
               /\ sidecar'[i][f] \notin {None, Torn} => sidecar'[i][f].sha256 = "complete"
    <3>1. image'[i][f].content = "partial" => image[i][f].content = "partial" /\ ~(i = s.id /\ f = Fmt(s))
      BY <1>0, <1>5, <1>6, <2>2
    <3>2. ASSUME NEW q \in Requests, req[q].pc = "mkfsRuns", req[q].id = i, Fmt(req[q]) = f,
                 ~(i = s.id /\ f = Fmt(s))
          PROVE  req'[q] = req[q]
      BY <1>1, <2>0, <3>2
    <3>. QED
      BY <1>0, <2>2, <3>1, <3>2 DEF IInv, BuildInv
  <2>. QED
    BY <1>1, <1>8, <1>11, <1>14, <2>1, <2>2, BuildKept
<1>. QED
  BY <1>0, <1>8, <1>9, <1>11, <1>12, <1>13, <1>14, <1>15, WorkInv

LEMMA NextFormat ==
    ASSUME IInv, NEW p \in Requests, req[p].pc \in Builds \cup Prepares, TryNextFormat(p)
    PROVE  \E r \in ReqRecord :
              /\ req' = [req EXCEPT ![p] = r] /\ r.ref = req[p].ref /\ r.id = req[p].id
              /\ \/ r.pc = "image" /\ r.fmt = req[p].fmt + 1
                 \/ r.pc = "unmark" /\ ~r.ok
<1>1. PICK s : s = req[p]
  OBVIOUS
<1>2. s \in ReqRecord /\ s.fmt \in 1..Len(Formats) /\ Len(Formats) \in Nat
  BY <1>1, BuilderFacts, FormatFacts
<1>3. CASE s.fmt < Len(Formats)
  <2>1. PICK r : r = [s EXCEPT !.pc = "image", !.fmt = s.fmt + 1]
    OBVIOUS
  <2>2. r \in ReqRecord /\ r.ref = s.ref /\ r.id = s.id /\ r.pc = "image" /\ r.fmt = s.fmt + 1
    <3>1. PICK n : n = s.fmt + 1
      OBVIOUS
    <3>2. n \in 1..Len(Formats) /\ "image" \in Pcs
      BY <1>2, <1>3, <3>1 DEF Pcs, Builds
    <3>. QED
      BY <1>2, <2>1, <3>1, <3>2 DEF ReqRecord
  <2>3. req' = [req EXCEPT ![p] = r]
    BY <1>1, <1>3, <2>1 DEF TryNextFormat
  <2>. QED
    BY <1>1, <2>2, <2>3
<1>4. CASE ~(s.fmt < Len(Formats))
  <2>1. PICK r : r = [s EXCEPT !.pc = "unmark", !.entry = None, !.ok = FALSE]
    OBVIOUS
  <2>2. r \in ReqRecord /\ r.ref = s.ref /\ r.id = s.id /\ r.pc = "unmark" /\ ~r.ok
    BY <1>2, <2>1 DEF ReqRecord, Pcs, Answers
  <2>3. req' = [req EXCEPT ![p] = r]
    BY <1>1, <1>4, <2>1 DEF TryNextFormat, Settle
  <2>. QED
    BY <1>1, <2>2, <2>3
<1>. QED
  BY <1>3, <1>4

\* A build that fails leaves its half-written file, and its image is noted.
LEMMA MkfsFailsInv ==
    ASSUME IInv, world' = world, NEW p \in Requests, MkfsFails(p)
    PROVE  IInv'
<1>0. /\ UNCHANGED <<cache, tmp, index, image, sidecar, shares, clash, replies, world>>
      /\ req[p].pc = "mkfsRuns" /\ hurt' = hurt \cup {req[p].id} /\ TryNextFormat(p)
  BY DEF MkfsFails, files, At
<1>1. PICK s : s = req[p]
  OBVIOUS
<1>2. /\ s \in ReqRecord /\ ReqHas(p, s) /\ s.ref \in Refs /\ s.id \in ImagesOf(Key(s.ref))
  BY <1>0, <1>1, BuilderFacts DEF Builds
<1>3. PICK r \in ReqRecord :
              /\ req' = [req EXCEPT ![p] = r] /\ r.ref = s.ref /\ r.id = s.id
              /\ \/ r.pc = "image" /\ r.fmt = s.fmt + 1
                 \/ r.pc = "unmark" /\ ~r.ok
  BY <1>0, <1>1, NextFormat DEF Builds
<1>4. TypeInv'
  BY <1>0, <1>3 DEF IInv, TypeInv, Keys, Key
<1>5. Extends
  BY <1>0 DEF Extends, IsComplete, IInv, TypeInv
<1>6. ReqHas(p, r)'
  <2>1. ReqHas(p, r)
    BY <1>2, <1>3 DEF ReqHas, Asking, Known, Builds, Prepares, Writes, Fills, Renames, Answers
  <2>. QED
    BY <1>0, <1>4, <1>5, <2>1, ReqKept DEF IInv
<1>7. BuildInv'
  <2>0. req'[p] = r /\ \A q \in Requests : q # p => req'[q] = req[q]
    BY <1>3 DEF IInv, TypeInv
  <2>1. r.id \in hurt'
    BY <1>0, <1>1, <1>3
  <2>2. ASSUME NEW i \in Ids, NEW f \in FormatSet, i \notin hurt'
        PROVE  /\ image'[i][f].content = "partial" =>
                    \E q \in Requests : req'[q].pc = "mkfsRuns" /\ req'[q].id = i /\ Fmt(req'[q]) = f
               /\ sidecar'[i][f] \notin {None, Torn} => sidecar'[i][f].sha256 = "complete"
    <3>1. i \notin hurt /\ \A q \in Requests : req[q].id = i => req'[q] = req[q]
      BY <1>0, <2>0, <2>2
    <3>. QED
      BY <1>0, <3>1 DEF IInv, BuildInv
  <2>. QED
    BY <1>1, <1>3, <1>5, <2>1, <2>2, BuildKept
<1>8. r.pc \notin Fills \cup Renames
  BY <1>3 DEF Fills, Renames
<1>. QED
  BY <1>0, <1>3, <1>4, <1>5, <1>6, <1>7, <1>8, WorkInv

\* The digest of a file that was built cannot be had: on to the next format,
\* which no other request can have reached.
LEMMA DigestFailsInv ==
    ASSUME IInv, world' = world, NEW p \in Requests, DigestFails(p)
    PROVE  IInv'
<1>0. Calm /\ req[p].pc \in {"digest", "sidecar"}
  BY DEF DigestFails, files, history, Calm
<1>1. CASE Settle(p, "unmark", None, FALSE)
  BY <1>0, <1>1, SettleInv DEF Answers
<1>2. CASE req[p].built /\ TryNextFormat(p)
  <2>1. PICK s : s = req[p]
    OBVIOUS
  <2>2. /\ s \in ReqRecord /\ ReqHas(p, s) /\ s.ref \in Refs /\ s.id \in ImagesOf(Key(s.ref))
        /\ s.id \in Ids /\ s.fmt \in 1..Len(Formats)
    BY <1>0, <2>1, BuilderFacts DEF Prepares
  <2>3. PICK r \in ReqRecord :
              /\ req' = [req EXCEPT ![p] = r] /\ r.ref = s.ref /\ r.id = s.id
              /\ \/ r.pc = "image" /\ r.fmt = s.fmt + 1
                 \/ r.pc = "unmark" /\ ~r.ok
    BY <1>0, <1>2, <2>1, NextFormat DEF Prepares
  <2>4. TypeInv'
    BY <1>0, <2>3 DEF IInv, TypeInv, Keys, Key, Calm
  <2>5. Extends
    BY <1>0 DEF Extends, IsComplete, IInv, TypeInv, Calm
  <2>6. ReqHas(p, r)'
    <3>1. ReqHas(p, r)
      BY <2>2, <2>3 DEF ReqHas, Asking, Known, Builds, Prepares, Writes, Fills, Renames, Answers
    <3>. QED
      BY <1>0, <2>4, <2>5, <3>1, ReqKept DEF IInv, Calm
  <2>7. \A n \in 1..Len(Formats) : Past(s, n) <=> n <= s.fmt
    BY <1>0, <1>2, <2>1, <2>2 DEF Past, Prepares, Builds
  <2>8. BuildInv'
    <3>0. req'[p] = r /\ \A q \in Requests : q # p => req'[q] = req[q]
      BY <2>3 DEF IInv, TypeInv
    <3>1. ASSUME r.id \notin hurt', r.pc \in Builds, NEW q \in Requests, q # p,
                 req[q].id = r.id, req[q].pc \in Builds, Fmt(req[q]) = Fmt(r)
          PROVE  image'[r.id][Fmt(r)].content = "complete"
      <4>1. req[q].fmt \in 1..Len(Formats)
        BY <3>1, BuilderFacts
      <4>2. OneBuilder(p, q) /\ s.id \notin hurt /\ s.id = req[q].id
        BY <1>0, <2>3, <3>1 DEF IInv, BuildInv, Calm
      <4>3. CASE req[q].fmt > s.fmt
        <5>1. Past(req[q], s.fmt)
          BY <3>1, <4>3 DEF Past
        <5>2. Past(req[p], s.fmt)
          BY <2>1, <2>2, <2>7
        <5>. QED
          BY <2>1, <2>2, <4>2, <5>1, <5>2 DEF OneBuilder
      <4>4. CASE req[q].fmt <= s.fmt
        <5>1. Past(req[p], req[q].fmt)
          BY <2>1, <2>7, <4>1, <4>4
        <5>2. IsComplete(s.id, Formats[req[q].fmt])
          BY <2>1, <4>1, <4>2, <5>1 DEF IInv, BuildInv
        <5>. QED
          BY <1>0, <2>3, <3>1, <5>2 DEF Calm, IsComplete, Fmt
      <4>. QED
        BY <2>2, <4>1, <4>3, <4>4
    <3>2. ASSUME r.id \notin hurt', NEW n \in 1..Len(Formats), Past(r, n)
          PROVE  Past(req[p], n)
      <4>1. r.fmt > n /\ r.fmt = s.fmt + 1
        BY <2>3, <3>2 DEF Past, Builds, Prepares
      <4>. QED
        BY <2>1, <2>2, <2>7, <4>1
    <3>3. ASSUME NEW i \in Ids, NEW f \in FormatSet, i \notin hurt'
          PROVE  /\ image'[i][f].content = "partial" =>
                      \E q \in Requests : req'[q].pc = "mkfsRuns" /\ req'[q].id = i /\ Fmt(req'[q]) = f
                 /\ sidecar'[i][f] \notin {None, Torn} => sidecar'[i][f].sha256 = "complete"
      <4>1. \A q \in Requests : req[q].pc = "mkfsRuns" => req'[q] = req[q]
        BY <1>0, <3>0
      <4>. QED
        BY <1>0, <3>3, <4>1 DEF IInv, BuildInv, Calm
    <3>. QED
      BY <2>1, <2>3, <2>5, <3>1, <3>2, <3>3, BuildKept
  <2>9. r.pc \notin Fills \cup Renames
    BY <2>3 DEF Fills, Renames
  <2>. QED
    BY <1>0, <2>3, <2>4, <2>5, <2>6, <2>8, <2>9, WorkInv DEF Calm
<1>. QED
  BY <1>1, <1>2 DEF DigestFails

\* The server dies: no request is left, and the builds it cut short are noted.
LEMMA CrashInv ==
    ASSUME IInv, world' = world, Crash
    PROVE  IInv'
<1>0. /\ UNCHANGED <<cache, tmp, index, image, sidecar, shares, clash, replies, world>>
      /\ hurt' = hurt \cup {req[p].id : p \in {q \in Requests : At(q, "mkfsRuns")}}
      /\ req' = [p \in Requests |-> IdleReq]
  BY DEF Crash, files
<1>1. IdleReq \in ReqRecord /\ IdleReq.pc = "idle"
  BY IdleRecord DEF IdleReq
<1>2. \A q \in Requests : req'[q] = IdleReq
  BY <1>0
<1>3. TypeInv'
  BY <1>0, <1>1 DEF IInv, TypeInv, Keys, Key
<1>4. Extends
  BY <1>0 DEF Extends, IsComplete, IInv, TypeInv
<1>5. FileInv'
  BY <1>0, <1>3, <1>4, FileKept DEF IInv
<1>6. ReqInv'
  BY <1>1, <1>2 DEF ReqInv, ReqHas, Asking, Known, Builds, Prepares, Writes, Fills, Renames, Answers
<1>7. BuildInv'
  <2>1. ASSUME NEW i \in Ids, NEW f \in FormatSet, i \notin hurt'
        PROVE  /\ image'[i][f].content # "partial"
               /\ sidecar'[i][f] \notin {None, Torn} => sidecar'[i][f].sha256 = "complete"
    <3>1. i \notin hurt /\ ~\E q \in Requests : req[q].pc = "mkfsRuns" /\ req[q].id = i
      BY <1>0, <2>1 DEF At
    <3>. QED
      BY <1>0, <3>1 DEF IInv, BuildInv
  <2>. QED
    BY <1>1, <1>2, <2>1 DEF BuildInv, OneBuilder, Past, Builds, Prepares
<1>8. KeyInv'
  <2>1. \A k, q : q \in Requests => ~Writing(q, k)'
    BY <1>1, <1>2 DEF Writing
  <2>2. Keys' = Keys
    BY DEF Keys, Key
  <2>. QED
    BY <1>0, <2>1, <2>2 DEF IInv, KeyInv, KeyHas
<1>. QED
  BY <1>3, <1>5, <1>6, <1>7, <1>8 DEF IInv

-----------------------------------------------------------------------------
(* Writing an entry.                                                        *)

\* What is known of a request that writes the entry of key.
Writer(p, key) ==
    /\ req[p] \in ReqRecord /\ ReqHas(p, req[p]) /\ key \in Keys
    /\ req[p].pc \in Writes
    /\ Sound(req[p].entry) /\ req[p].entry.id \in ImagesOf(key)

\* The requests, but for their place among the writes and their open files,
\* are what they were, and no image is touched.
Handling ==
    /\ \A q \in Requests : /\ req'[q].ref = req[q].ref /\ req'[q].id = req[q].id /\ req'[q].fmt = req[q].fmt
                           /\ req'[q].entry = req[q].entry /\ req'[q].ok = req[q].ok
                           /\ req'[q].built = req[q].built
                           /\ \/ req'[q].pc = req[q].pc
                              \/ req[q].pc \in Writes /\ req'[q].pc \in Writes \cup {"unmark"}
    /\ UNCHANGED <<index, image, sidecar, shares, hurt, replies, world>>

LEMMA HandlingInv ==
    ASSUME IInv, TypeInv', Handling, clash \subseteq clash', KeyInv',
           \A k \in Keys : Readable(cache'[k]) => Sound(cache'[k]) /\ cache'[k].id \in ImagesOf(k),
           \A k \in Keys : Readable(tmp'[k]) => Sound(tmp'[k]) /\ tmp'[k].id \in ImagesOf(k)
    PROVE  IInv'
<1>1. Extends
  BY DEF Handling, Extends, IsComplete, IInv, TypeInv
<1>2. /\ \A e : Sound(e) => Sound(e)'
      /\ Keys' = Keys /\ \A k : ImagesOf(k)' = ImagesOf(k)
      /\ \A x : Key(x)' = Key(x)
  BY <1>1, SoundKept DEF IInv, Handling, Keys, ImagesOf, Key
<1>3. FileInv'
  BY <1>2 DEF IInv, FileInv, Readable, Handling
<1>4. ASSUME NEW q \in Requests PROVE ReqHas(q, req[q])'
  <2>1. PICK r, o : r = req'[q] /\ o = req[q]
    OBVIOUS
  <2>2. r \in ReqRecord /\ ReqHas(q, o)
    BY <2>1 DEF TypeInv, IInv, ReqInv
  <2>3. ReqHas(q, r)
    <3>0. r.ref = o.ref /\ r.id = o.id /\ r.fmt = o.fmt /\ r.entry = o.entry /\ r.ok = o.ok
      BY <2>1 DEF Handling
    <3>1. CASE r.pc = o.pc
      BY <2>2, <3>0, <3>1 DEF ReqHas, Fmt
    <3>2. CASE o.pc \in Writes /\ r.pc \in Writes \cup {"unmark"}
      <4>1. /\ o.pc # "idle" /\ r.pc \notin Asking \cup Builds \cup Prepares
            /\ r.pc \in Known => o.pc \in Known
            /\ r.pc \notin {"mkfs", "mkfsRuns", "digest", "sidecar", "share"}
        BY <3>2 DEF Asking, Known, Builds, Prepares, Writes, Fills, Renames
      <4>. QED
        BY <2>2, <3>0, <3>2, <4>1 DEF ReqHas, Fmt
    <3>. QED
      BY <2>1, <3>1, <3>2 DEF Handling
  <2>4. ReqHas(q, r)'
    BY <1>1, <2>2, <2>3, ReqKept DEF IInv, Handling
  <2>. QED
    BY <2>1, <2>4
<1>5. BuildInv'
  <2>1. \A q \in Requests :
           /\ req'[q].id = req[q].id /\ Fmt(req'[q]) = Fmt(req[q])
           /\ req'[q].pc \in Builds <=> req[q].pc \in Builds
           /\ req'[q].pc = "mkfsRuns" <=> req[q].pc = "mkfsRuns"
    BY DEF Handling, Fmt, Writes, Fills, Renames, Builds
  <2>2. \A q \in Requests, n \in 1..Len(Formats) : Past(req[q], n)' <=> Past(req[q], n)
    BY DEF Handling, Past, Writes, Fills, Renames, Builds, Prepares
  <2>3. ASSUME NEW x \in Requests, NEW y \in Requests, x # y PROVE OneBuilder(x, y)'
    <3>1. OneBuilder(x, y)
      BY <2>3 DEF IInv, BuildInv
    <3>. QED
      BY <2>1, <2>2, <3>1 DEF OneBuilder, IsComplete, Fmt, Handling
  <2>4. ASSUME NEW x \in Requests, NEW n \in 1..Len(Formats), Past(req[x], n)', req'[x].id \notin hurt'
        PROVE  IsComplete(req[x].id, Formats[n])'
    BY <2>1, <2>2, <2>4 DEF IInv, BuildInv, IsComplete, Handling
  <2>5. ASSUME NEW i \in Ids, NEW f \in FormatSet, i \notin hurt'
        PROVE  /\ image'[i][f].content = "partial" =>
                    \E q \in Requests : req'[q].pc = "mkfsRuns" /\ req'[q].id = i /\ Fmt(req'[q]) = f
               /\ sidecar'[i][f] \notin {None, Torn} => sidecar'[i][f].sha256 = "complete"
    BY <2>1, <2>5 DEF IInv, BuildInv, Handling
  <2>. QED
    BY <2>3, <2>4, <2>5 DEF BuildInv, Fmt
<1>. QED
  BY <1>3, <1>4, <1>5 DEF IInv, ReqInv

\* A request writes one key at a time.
LEMMA OneKey ==
    ASSUME NEW q, NEW k, NEW l, Writing(q, k), Writing(q, l)
    PROVE  k = l
BY DEF Writing

LEMMA WriterFacts ==
    ASSUME IInv, NEW p \in Requests, NEW key,
           \/ req[p].pc \in {"openRef", "fillRef", "renameRef"} /\ key = Key(req[p].ref)
           \/ req[p].pc \in {"openId", "fillId", "renameId"} /\ key = Key(req[p].id)
    PROVE  Writer(p, key)
<1>1. req[p] \in ReqRecord /\ ReqHas(p, req[p])
  BY DEF IInv, TypeInv, ReqInv
<1>2. req[p].pc \in Writes /\ req[p].pc # "idle"
  BY DEF Writes, Fills, Renames
<1>3. /\ req[p].ref \in Refs /\ req[p].id \in ImagesOf(Key(req[p].ref))
      /\ Sound(req[p].entry) /\ req[p].entry.id = req[p].id
  BY <1>1, <1>2 DEF ReqHas
<1>4. /\ Key(req[p].ref) \in Keys /\ req[p].id \in Ids /\ Key(req[p].id) \in Keys
      /\ req[p].id \in ImagesOf(Key(req[p].id))
  BY <1>3, KeyFacts DEF IInv
<1>. QED
  BY <1>1, <1>2, <1>3, <1>4 DEF Writer

\* Opening truncates the temporary file; a key that two have open is noted.
LEMMA OpenTmpInv ==
    ASSUME IInv, world' = world, NEW p \in Requests, NEW key, NEW pc, NEW next,
           OpenTmp(p, pc, key, next),
           \/ pc = "openRef" /\ next = "fillRef" /\ key = Key(req[p].ref)
           \/ pc = "openId" /\ next = "fillId" /\ key = Key(req[p].id)
    PROVE  IInv'
<1>0. /\ req[p].pc = pc /\ tmp' = [tmp EXCEPT ![key] = Empty]
      /\ req' = [req EXCEPT ![p].pc = next, ![p].file = "tmp"]
      /\ clash' = IF \E q \in Requests : Writing(q, key) THEN clash \cup {key} ELSE clash
      /\ UNCHANGED <<cache, index, image, sidecar, shares, hurt, replies, world>>
  BY DEF OpenTmp, At, TmpOf
<1>1. PICK s : s = req[p]
  OBVIOUS
<1>2. s \in ReqRecord /\ Writer(p, key) /\ s.pc \in Writes /\ next \in Writes
  BY <1>0, <1>1, WriterFacts DEF Writer, Writes, Fills
<1>3. PICK r : r = [s EXCEPT !.pc = next, !.file = "tmp"]
  OBVIOUS
<1>4. /\ r \in ReqRecord /\ r.pc = next /\ r.file = "tmp" /\ r.ref = s.ref /\ r.id = s.id /\ r.fmt = s.fmt
      /\ r.entry = s.entry /\ r.ok = s.ok /\ r.built = s.built
  BY <1>2, <1>3 DEF ReqRecord, Pcs
<1>5. /\ req' = [req EXCEPT ![p] = r]
      /\ \A q \in Requests : req'[q] = IF q = p THEN r ELSE req[q]
  BY <1>0, <1>1, <1>3 DEF IInv, TypeInv
<1>6. /\ tmp' \in [Keys -> CacheFile]
      /\ \A k \in Keys : tmp'[k] = IF k = key THEN Empty ELSE tmp[k]
  BY <1>0, <1>2 DEF IInv, TypeInv, CacheFile, Writer
<1>7. TypeInv'
  BY <1>0, <1>4, <1>5, <1>6 DEF IInv, TypeInv, Keys, Key
<1>8. Handling
  BY <1>0, <1>1, <1>2, <1>4, <1>5 DEF Handling
<1>9. \A k \in Keys : Readable(tmp'[k]) => Sound(tmp'[k]) /\ tmp'[k].id \in ImagesOf(k)
  BY <1>6 DEF IInv, FileInv, Readable
<1>10. \A k \in Keys : Readable(cache'[k]) => Sound(cache'[k]) /\ cache'[k].id \in ImagesOf(k)
  BY <1>0 DEF IInv, FileInv
<1>11. KeyInv'
  <2>0. \A x : Key(x)' = Key(x)
    BY DEF Key
  <2>1. ASSUME NEW k PROVE Writing(p, k)' <=> k = key
    BY <1>1, <1>4, <1>5, <2>0 DEF Writing
  <2>2. ASSUME NEW k, NEW q \in Requests, q # p PROVE Writing(q, k)' <=> Writing(q, k)
    BY <1>5, <2>0, <2>2 DEF Writing
  <2>3. ASSUME NEW k \in Keys, k \notin clash', k # key PROVE KeyHas(k)'
    <3>1. KeyHas(k)
      BY <1>0, <2>3 DEF IInv, KeyInv
    <3>. QED
      BY <1>0, <1>5, <1>6, <2>1, <2>2, <2>3, <3>1 DEF KeyHas
  <2>4. ASSUME key \notin clash' PROVE KeyHas(key)'
    <3>1. key \notin clash /\ \A q \in Requests : ~Writing(q, key)
      BY <1>0, <2>4
    <3>2. KeyHas(key)
      BY <1>2, <3>1 DEF IInv, KeyInv, Writer
    <3>3. \A q \in Requests : Writing(q, key)' => q = p
      BY <2>2, <3>1
    <3>4. req'[p].file = "tmp" /\ tmp'[key] = Empty /\ req'[p].pc \notin Renames
      BY <1>2, <1>4, <1>5, <1>6 DEF Writer, Renames
    <3>. QED
      BY <1>0, <3>2, <3>3, <3>4 DEF KeyHas
  <2>5. Keys' = Keys
    BY DEF Keys, Key
  <2>. QED
    BY <2>3, <2>4, <2>5 DEF KeyInv
<1>. QED
  BY <1>0, <1>7, <1>8, <1>9, <1>10, <1>11, HandlingInv

\* The write: the entry as it was prepared, or a mixture if another has
\* written the same file.
LEMMA FillTmpInv ==
    ASSUME IInv, world' = world, NEW p \in Requests, NEW key, NEW pc, NEW next,
           FillTmp(p, pc, key, next),
           \/ pc = "fillRef" /\ next = "renameRef" /\ key = Key(req[p].ref)
           \/ pc = "fillId" /\ next = "renameId" /\ key = Key(req[p].id)
    PROVE  IInv'
<1>0. /\ req[p].pc = pc
      /\ req' = [req EXCEPT ![p].pc = next, ![p].file = "none"]
      /\ UNCHANGED <<index, image, sidecar, shares, clash, hurt, replies, world>>
  BY DEF FillTmp, At, history
<1>1. PICK s : s = req[p]
  OBVIOUS
<1>2. s \in ReqRecord /\ Writer(p, key) /\ s.pc \in Writes /\ next \in Writes
  BY <1>0, <1>1, WriterFacts DEF Writer, Writes, Fills, Renames
<1>3. PICK r : r = [s EXCEPT !.pc = next, !.file = "none"]
  OBVIOUS
<1>4. /\ r \in ReqRecord /\ r.pc = next /\ r.ref = s.ref /\ r.id = s.id /\ r.fmt = s.fmt
      /\ r.entry = s.entry /\ r.ok = s.ok /\ r.built = s.built
  BY <1>2, <1>3 DEF ReqRecord, Pcs
<1>5. /\ req' = [req EXCEPT ![p] = r]
      /\ \A q \in Requests : req'[q] = IF q = p THEN r ELSE req[q]
  BY <1>0, <1>1, <1>3 DEF IInv, TypeInv
<1>6. /\ s.entry \in EntryRecord /\ Sound(s.entry) /\ s.entry.id \in ImagesOf(key)
      /\ s.entry \notin {None, Empty, Torn}
  BY <1>1, <1>2, SharedRootfsAssumption DEF Writer, Sound
<1>7. PICK c \in Written(tmp[key], s.entry), d \in Written(cache[key], s.entry) :
         /\ tmp' = IF s.file = "tmp" THEN [tmp EXCEPT ![key] = c] ELSE tmp
         /\ cache' = IF s.file = "cache" THEN [cache EXCEPT ![key] = d] ELSE cache
  BY <1>1 DEF FillTmp, TmpOf
<1>8. c \in {s.entry, Torn} /\ d \in {s.entry, Torn} /\ (tmp[key] = Empty => c = s.entry)
  BY <1>7 DEF Written
<1>9. /\ tmp' \in [Keys -> CacheFile]
      /\ \A k \in Keys : tmp'[k] = IF k = key /\ s.file = "tmp" THEN c ELSE tmp[k]
  BY <1>2, <1>6, <1>7, <1>8 DEF IInv, TypeInv, CacheFile, Writer
<1>10. /\ cache' \in [Keys -> CacheFile]
       /\ \A k \in Keys : cache'[k] = IF k = key /\ s.file = "cache" THEN d ELSE cache[k]
  BY <1>2, <1>6, <1>7, <1>8 DEF IInv, TypeInv, CacheFile, Writer
<1>11. TypeInv'
  BY <1>0, <1>4, <1>5, <1>9, <1>10 DEF IInv, TypeInv, Keys, Key
<1>12. Handling
  BY <1>0, <1>1, <1>2, <1>4, <1>5 DEF Handling
<1>13. \A k \in Keys : Readable(tmp'[k]) => Sound(tmp'[k]) /\ tmp'[k].id \in ImagesOf(k)
  BY <1>6, <1>8, <1>9 DEF IInv, FileInv, Readable
<1>14. \A k \in Keys : Readable(cache'[k]) => Sound(cache'[k]) /\ cache'[k].id \in ImagesOf(k)
  BY <1>6, <1>8, <1>10 DEF IInv, FileInv, Readable
<1>15. KeyInv'
  <2>0. \A x : Key(x)' = Key(x)
    BY DEF Key
  <2>1. ASSUME NEW k, NEW q \in Requests PROVE Writing(q, k)' <=> Writing(q, k)
    BY ZenonT(40), <1>0, <1>1, <1>4, <1>5, <2>0 DEF Writing
  <2>2. Writing(p, key)
    BY <1>0 DEF Writing
  <2>3. ASSUME NEW k \in Keys, k \notin clash', k # key PROVE KeyHas(k)'
    <3>1. KeyHas(k) /\ ~Writing(p, k)
      BY <1>0, <2>2, <2>3, OneKey DEF IInv, KeyInv
    <3>. QED
      BY <1>5, <1>9, <1>10, <2>1, <2>3, <3>1 DEF KeyHas
  <2>4. ASSUME key \notin clash' PROVE KeyHas(key)'
    <3>1. KeyHas(key) /\ key \in Keys
      BY <1>0, <1>2, <2>4 DEF IInv, KeyInv, Writer
    <3>2. s.file = "tmp" /\ tmp[key] = Empty
      BY <1>0, <1>1, <2>2, <3>1 DEF KeyHas, Fills
    <3>3. tmp'[key] = s.entry /\ cache'[key] = cache[key] /\ req'[p].pc \notin Fills
      BY <1>4, <1>5, <1>8, <1>9, <1>10, <3>1, <3>2 DEF Fills
    <3>4. \A q \in Requests : Writing(q, key)' => q = p
      BY <2>1, <2>2, <3>1 DEF KeyHas
    <3>. QED
      BY <1>6, <3>1, <3>3, <3>4 DEF KeyHas
  <2>5. Keys' = Keys
    BY DEF Keys, Key
  <2>. QED
    BY <2>3, <2>4, <2>5 DEF KeyInv
<1>. QED
  BY <1>0, <1>11, <1>12, <1>13, <1>14, <1>15, HandlingInv

\* The rename makes the temporary file the entry, and takes it from under
\* whoever else has it open.
LEMMA RenameInv ==
    ASSUME IInv, world' = world, NEW p \in Requests, NEW key, NEW pc, NEW next,
           Rename(p, pc, key, next),
           \/ pc = "renameRef" /\ next = "openId" /\ key = Key(req[p].ref)
           \/ pc = "renameId" /\ next = "unmark" /\ key = Key(req[p].id)
    PROVE  IInv'
<1>0. /\ req[p].pc = pc
      /\ UNCHANGED <<index, image, sidecar, shares, clash, hurt, replies, world>>
  BY DEF Rename, At, history
<1>1. CASE tmp[key] = None
  <2>1. Settle(p, "unmark", None, FALSE) /\ Calm
    BY <1>0, <1>1 DEF Rename, TmpOf, Calm
  <2>. QED
    BY <1>0, <2>1, SettleInv DEF Answers
<1>2. CASE tmp[key] # None
  <2>1. /\ cache' = [cache EXCEPT ![key] = tmp[key]]
        /\ tmp' = [tmp EXCEPT ![key] = None]
        /\ req' = [q \in Requests |-> IF q = p THEN [req[p] EXCEPT !.pc = next]
                                      ELSE AfterRename(q, key)]
    BY <1>2 DEF Rename, TmpOf
  <2>2. /\ req[p] \in ReqRecord /\ Writer(p, key) /\ req[p].pc \in Writes
        /\ next \in Writes \cup {"unmark"} /\ next \in Pcs
    BY <1>0, WriterFacts DEF Writer, Writes, Fills, Renames, Pcs, Answers
  <2>3. /\ req'[p] \in ReqRecord /\ req'[p].pc = next
        /\ req'[p].ref = req[p].ref /\ req'[p].id = req[p].id /\ req'[p].fmt = req[p].fmt
        /\ req'[p].entry = req[p].entry /\ req'[p].ok = req[p].ok /\ req'[p].built = req[p].built
    <3>1. req'[p] = [req[p] EXCEPT !.pc = next]
      BY <2>1
    <3>. QED
      BY <2>2, <3>1, MoveRecord
  <2>4. ASSUME NEW q \in Requests, q # p
        PROVE  /\ req'[q] \in ReqRecord /\ req'[q].pc = req[q].pc
               /\ req'[q].ref = req[q].ref /\ req'[q].id = req[q].id /\ req'[q].fmt = req[q].fmt
               /\ req'[q].entry = req[q].entry /\ req'[q].ok = req[q].ok /\ req'[q].built = req[q].built
               /\ ~Writing(q, key) => req'[q].file = req[q].file
    <3>1. PICK s : s = req[q]
      OBVIOUS
    <3>2. s \in ReqRecord
      BY <3>1 DEF IInv, TypeInv
    <3>3. req'[q] = AfterRename(q, key)
      BY <2>1, <2>4
    <3>4. CASE ~(Writing(q, key) /\ s.file # "none")
      BY <3>1, <3>2, <3>3, <3>4 DEF AfterRename
    <3>5. CASE Writing(q, key) /\ s.file # "none"
      <4>1. PICK f : f = IF s.file = "tmp" THEN "cache" ELSE "gone"
        OBVIOUS
      <4>2. req'[q] = [s EXCEPT !.file = f]
        BY <3>1, <3>3, <3>5, <4>1 DEF AfterRename
      <4>. QED
        BY <3>1, <3>2, <3>5, <4>1, <4>2 DEF ReqRecord
    <3>. QED
      BY <3>4, <3>5
  <2>5. /\ tmp \in [Keys -> CacheFile] /\ cache \in [Keys -> CacheFile] /\ key \in Keys
    BY <2>2 DEF IInv, TypeInv, Writer
  <2>6. /\ tmp' \in [Keys -> CacheFile]
        /\ \A k \in Keys : tmp'[k] = IF k = key THEN None ELSE tmp[k]
    BY <2>1, <2>5 DEF CacheFile
  <2>7. /\ cache' \in [Keys -> CacheFile]
        /\ \A k \in Keys : cache'[k] = IF k = key THEN tmp[key] ELSE cache[k]
    BY <2>1, <2>5
  <2>8. TypeInv'
    <3>1. req' \in [Requests -> ReqRecord]
      BY <2>1, <2>3, <2>4
    <3>. QED
      BY <1>0, <2>6, <2>7, <3>1 DEF IInv, TypeInv, Keys, Key
  <2>9. Handling
    BY <1>0, <2>2, <2>3, <2>4 DEF Handling
  <2>10. \A k \in Keys : Readable(tmp'[k]) => Sound(tmp'[k]) /\ tmp'[k].id \in ImagesOf(k)
    BY <2>6 DEF IInv, FileInv, Readable
  <2>11. \A k \in Keys : Readable(cache'[k]) => Sound(cache'[k]) /\ cache'[k].id \in ImagesOf(k)
    BY <2>7 DEF IInv, FileInv, Readable
  <2>12. KeyInv'
    <3>0. \A x : Key(x)' = Key(x)
      BY DEF Key
    <3>1. \A k : ~Writing(p, k)'
      BY <2>3 DEF Writing
    <3>2. ASSUME NEW k, NEW q \in Requests, q # p PROVE Writing(q, k)' <=> Writing(q, k)
      BY <2>4, <3>0, <3>2 DEF Writing
    <3>3. Writing(p, key)
      BY <1>0 DEF Writing
    <3>4. ASSUME NEW k \in Keys, k \notin clash', k # key PROVE KeyHas(k)'
      <4>1. KeyHas(k)
        BY <1>0, <3>4 DEF IInv, KeyInv
      <4>2. ASSUME NEW q \in Requests, Writing(q, k)'
            PROVE  /\ q # p /\ Writing(q, k) /\ req'[q].pc = req[q].pc /\ req'[q].file = req[q].file
        <5>1. q # p /\ Writing(q, k)
          BY <3>1, <3>2, <4>2
        <5>2. ~Writing(q, key)
          BY <3>4, <5>1, OneKey
        <5>. QED
          BY <2>4, <5>1, <5>2
      <4>. QED
        BY <2>6, <2>7, <3>4, <4>1, <4>2 DEF KeyHas
    <3>5. ASSUME key \notin clash' PROVE KeyHas(key)'
      <4>1. KeyHas(key)
        BY <1>0, <2>5, <3>5 DEF IInv, KeyInv
      <4>2. tmp[key] \notin Unreadable
        BY <1>0, <3>3, <4>1 DEF KeyHas, Renames, Unreadable
      <4>3. cache'[key] \notin Unreadable /\ Unreadable' = Unreadable
        BY <2>5, <2>7, <4>2 DEF Unreadable
      <4>4. \A q \in Requests : ~Writing(q, key)'
        BY <3>1, <3>2, <3>3, <4>1 DEF KeyHas
      <4>. QED
        BY <4>3, <4>4 DEF KeyHas
    <3>6. Keys' = Keys
      BY DEF Keys, Key
    <3>. QED
      BY <3>4, <3>5, <3>6 DEF KeyInv
  <2>. QED
    BY <1>0, <2>8, <2>9, <2>10, <2>11, <2>12, HandlingInv
<1>. QED
  BY <1>1, <1>2

LEMMA WriteEntryInv ==
    ASSUME IInv, world' = world, NEW p \in Requests, WriteEntry(p)
    PROVE  IInv'
<1>0. PICK kr, ki : kr = Key(req[p].ref) /\ ki = Key(req[p].id)
  OBVIOUS
<1>1. \/ OpenTmp(p, "openRef", kr, "fillRef")
      \/ FillTmp(p, "fillRef", kr, "renameRef")
      \/ Rename(p, "renameRef", kr, "openId")
      \/ OpenTmp(p, "openId", ki, "fillId")
      \/ FillTmp(p, "fillId", ki, "renameId")
      \/ Rename(p, "renameId", ki, "unmark")
  <2>1. OpenTmp(p, "openRef", Key(req[p].ref), "fillRef") => OpenTmp(p, "openRef", kr, "fillRef")
    BY <1>0 DEF OpenTmp
  <2>2. FillTmp(p, "fillRef", Key(req[p].ref), "renameRef") => FillTmp(p, "fillRef", kr, "renameRef")
    BY <1>0 DEF FillTmp
  <2>3. Rename(p, "renameRef", Key(req[p].ref), "openId") => Rename(p, "renameRef", kr, "openId")
    BY <1>0 DEF Rename
  <2>4. OpenTmp(p, "openId", Key(req[p].id), "fillId") => OpenTmp(p, "openId", ki, "fillId")
    BY <1>0 DEF OpenTmp
  <2>5. FillTmp(p, "fillId", Key(req[p].id), "renameId") => FillTmp(p, "fillId", ki, "renameId")
    BY <1>0 DEF FillTmp
  <2>6. Rename(p, "renameId", Key(req[p].id), "unmark") => Rename(p, "renameId", ki, "unmark")
    BY <1>0 DEF Rename
  <2>. QED
    BY <2>1, <2>2, <2>3, <2>4, <2>5, <2>6 DEF WriteEntry
<1>2. CASE OpenTmp(p, "openRef", kr, "fillRef") \/ OpenTmp(p, "openId", ki, "fillId")
  BY <1>0, <1>2, OpenTmpInv
<1>3. CASE FillTmp(p, "fillRef", kr, "renameRef") \/ FillTmp(p, "fillId", ki, "renameId")
  BY <1>0, <1>3, FillTmpInv
<1>4. CASE Rename(p, "renameRef", kr, "openId") \/ Rename(p, "renameId", ki, "unmark")
  BY <1>0, <1>4, RenameInv
<1>. QED
  BY <1>1, <1>2, <1>3, <1>4

-----------------------------------------------------------------------------
(* The theorems.                                                            *)

LEMMA NextInv == IInv /\ [Next]_vars => IInv'
<1>. SUFFICES ASSUME IInv, [Next]_vars PROVE IInv'
  OBVIOUS
<1>1. CASE Next
  <2>1. world' = world
    BY <1>1 DEF Next
  <2>2. CASE Crash
    BY <2>1, <2>2, CrashInv
  <2>3. ASSUME NEW p \in Requests, NEW ref \in world.asked, Arrive(p, ref) PROVE IInv'
    BY <2>1, <2>3, ArriveInv
  <2>4. ASSUME NEW p \in Requests, Serve(p) PROVE IInv'
    <3>1. CASE Lookup(p) \/ Poll(p) \/ ReadByRef(p)
      BY <2>1, <3>1, LookupInv
    <3>2. CASE IsPending(p) \/ StillPending(p)
      BY <2>1, <3>2, WaitInv
    <3>3. CASE LookupBundle(p) \/ Pull(p)
      BY <2>1, <3>3, FindInv
    <3>4. CASE Mark(p)
      BY <2>1, <3>4, MarkInv
    <3>5. CASE WriteIndex(p)
      BY <2>1, <3>5, IndexInv
    <3>6. CASE ReadById(p)
      BY <2>1, <3>6, ReadByIdInv
    <3>7. CASE Remark(p)
      BY <2>1, <3>7, RemarkInv
    <3>8. CASE TakeImage(p)
      BY <2>1, <3>8, TakeImageInv
    <3>9. CASE NeedImage(p)
      BY <2>1, <3>9, NeedImageInv
    <3>10. CASE StartMkfs(p)
      BY <2>1, <3>10, StartMkfsInv
    <3>11. CASE MkfsDone(p)
      BY <2>1, <3>11, MkfsDoneInv
    <3>12. CASE ReadSidecar(p)
      BY <2>1, <3>12, ReadSidecarInv
    <3>13. CASE WriteSidecar(p)
      BY <2>1, <3>13, WriteSidecarInv
    <3>14. CASE Share(p)
      BY <2>1, <3>14, ShareInv
    <3>15. CASE Check(p)
      BY <2>1, <3>15, CheckInv
    <3>16. CASE WriteEntry(p)
      BY <2>1, <3>16, WriteEntryInv
    <3>17. CASE Unmark(p) \/ Clear(p)
      BY <2>1, <3>17, ClearInv
    <3>18. CASE Reply(p)
      BY <2>1, <3>18, ReplyInv
    <3>. QED
      BY <2>4, <3>1, <3>2, <3>3, <3>4, <3>5, <3>6, <3>7, <3>8, <3>9, <3>10, <3>11, <3>12,
         <3>13, <3>14, <3>15, <3>16, <3>17, <3>18 DEF Serve
  <2>5. ASSUME NEW p \in Requests, Trouble(p) PROVE IInv'
    <3>1. CASE MarkFails(p) \/ PullFails(p) \/ RemarkFails(p) \/ ShareFails(p) \/ WriteFails(p)
      BY <2>1, <3>1, FailInv
    <3>2. CASE IndexFails(p)
      BY <2>1, <3>2, IndexInv
    <3>3. CASE MkfsFails(p)
      BY <2>1, <3>3, MkfsFailsInv
    <3>4. CASE DigestFails(p)
      BY <2>1, <3>4, DigestFailsInv
    <3>5. CASE Cancel(p)
      BY <2>1, <3>5, CancelInv
    <3>. QED
      BY <2>5, <3>1, <3>2, <3>3, <3>4, <3>5 DEF Trouble
  <2>. QED
    BY <1>1, <2>2, <2>3, <2>4, <2>5 DEF Next
<1>2. CASE UNCHANGED vars
  <2>1. UNCHANGED <<req, cache, tmp, index, image, sidecar, shares, replies, hurt, clash, world>>
    BY <1>2 DEF vars, files, history
  <2>2. TypeInv'
    BY <2>1 DEF IInv, TypeInv, Keys, Key
  <2>3. Handling
    BY <2>1 DEF Handling
  <2>4. KeyInv'
    BY <2>1 DEF IInv, KeyInv, KeyHas, Writing, Keys, Key
  <2>. QED
    BY <2>1, <2>2, <2>3, <2>4, HandlingInv DEF IInv, FileInv
<1>. QED
  BY <1>1, <1>2

\* The invariant holds throughout.
LEMMA AlwaysInv == Spec => []IInv
BY InitInv, NextInv, PTL DEF Spec

\* An entry that can be read under a key is of an image the key stands for, and
\* its share is that image's: write_shared_rootfs_cache_entry, its temporary
\* file and the alias path of prepare_shared_rootfs_cache_from_bundle keep
\* keys and shares apart, for any number of requests.
THEOREM CacheStaysCorrect == Spec => []CacheDescribesItsImage
<1>1. IInv => CacheDescribesItsImage
  BY DEF IInv, FileInv, CacheDescribesItsImage, Readable, Unreadable, Sound
<1>. QED
  BY <1>1, AlwaysInv, PTL

\* A PrepareRootfs request is answered with an image its reference's key stands
\* for, and with a share of that image that exists.
THEOREM AnswersAreRight == Spec => []RepliesMatchRequests
<1>1. IInv => RepliesMatchRequests
  BY DEF IInv, FileInv, RepliesMatchRequests, Sound
<1>. QED
  BY <1>1, AlwaysInv, PTL

\* No schedule of requests lets a half-written image file, or a digest of one
\* in a sidecar, reach a runtime, as long as no build of the image was cut short
\* or overlapped by another.
THEOREM AnsweredImagesAreComplete == Spec => []RepliedImagesComplete
<1>1. IInv => RepliedImagesComplete
  BY DEF IInv, FileInv, RepliedImagesComplete, Sound, RightDigest
<1>. QED
  BY <1>1, AlwaysInv, PTL

\* An entry in the cache stays a hit, unless two requests wrote it at once or a
\* build of its image was cut short or overlapped: validate_shared_rootfs_cache_entry
\* never finds the file it describes gone or of another size.
THEOREM CacheStaysValid == Spec => []CachedEntriesStayValid
<1>1. ASSUME IInv, NEW x \in Refs \cup Ids, cache[Key(x)] # None, Key(x) \notin clash,
             ImagesOf(Key(x)) \cap hurt = {}
      PROVE  Read(x) = "hit"
  <2>1. Key(x) \in Keys
    BY <1>1, KeyFacts DEF IInv
  <2>2. cache[Key(x)] \notin Unreadable
    BY <1>1, <2>1 DEF IInv, KeyInv, KeyHas
  <2>3. Sound(cache[Key(x)]) /\ cache[Key(x)].id \in ImagesOf(Key(x))
    BY <1>1, <2>1, <2>2 DEF IInv, FileInv, Readable, Unreadable
  <2>4. Valid(cache[Key(x)])
    BY <1>1, <2>3 DEF Sound, Valid, IsComplete
  <2>. QED
    BY <1>1, <2>2, <2>4 DEF Read
<1>2. IInv => CachedEntriesStayValid
  BY <1>1 DEF CachedEntriesStayValid
<1>. QED
  BY <1>2, AlwaysInv, PTL
=============================================================================

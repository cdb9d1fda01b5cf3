--------------------------- MODULE ImagePullProofs ---------------------------
(***************************************************************************)
(* Proofs about ImagePull: what the meta store names and what the mounts   *)
(* show are the layers of the manifest, verified, whatever order the       *)
(* downloads complete in and whatever fails or is restarted, and           *)
(* pull_image implements ImageStore; for any images, layers and bounds.    *)
(***************************************************************************)
EXTENDS ImagePull, FiniteSetTheorems, SequenceTheorems, WellFoundedInduction, TLAPS

-----------------------------------------------------------------------------
(* Facts about numbers and about the layers of an image.                    *)

\* A set of naturals that is not empty has a least element: induction, for
\* provers that know none.
LEMMA LeastNatural ==
    ASSUME NEW T \in SUBSET Nat, T # {}
    PROVE  \E x \in T : \A y \in T : x <= y
<1>. DEFINE Less == OpToRel(<, Nat)
<1>1. Less = {ss \in Nat \X Nat : ss[1] < ss[2]}
  BY DEF OpToRel
<1>2. IsWellFoundedOn(Less, Nat)
  BY NatLessThanWellFounded
<1>. HIDE DEF Less
<1>3. PICK x \in T : \A y \in T : ~(<<y, x>> \in Less)
  BY <1>2, WFMin
<1>4. ASSUME NEW y \in T PROVE x <= y
  <2>1. x \in Nat /\ y \in Nat
    OBVIOUS
  <2>2. ~(<<y, x>> \in Less)
    BY <1>3
  <2>3. ~(y < x)
    BY <1>1, <2>1, <2>2
  <2>. QED
    BY <2>1, <2>3
<1>. QED
  BY <1>4

\* And one that is bounded has a greatest, which is the one NextLayerIndex
\* looks for.
LEMMA GreatestNatural ==
    ASSUME NEW T \in SUBSET Nat, T # {}, NEW n \in Nat, \A x \in T : x < n
    PROVE  \E m \in T : \A x \in T : x <= m
<1>. DEFINE U == {u \in Nat : \A x \in T : x <= u}
<1>1. U \in SUBSET Nat /\ n \in U
  OBVIOUS
<1>2. PICK u \in U : \A v \in U : u <= v
  BY <1>1, LeastNatural
<1>3. u \in T
  <2>. SUFFICES ASSUME u \notin T PROVE FALSE
    OBVIOUS
  <2>1. \A x \in T : x \in Nat /\ x <= u - 1
    BY <1>2
  <2>2. u - 1 \in Nat
    <3>1. PICK x \in T : TRUE
      OBVIOUS
    <3>2. x \in Nat /\ x <= u - 1 /\ u \in Nat
      BY <2>1, <3>1
    <3>. QED
      BY <3>2
  <2>3. u - 1 \in U
    BY <2>1, <2>2
  <2>. QED
    BY <1>2, <2>2, <2>3
<1>. QED
  BY <1>2, <1>3

\* The positions of s up to n that hold no repeated layer, and their number.
First(s, i) == \A j \in 1..(i - 1) : s[j] # s[i]
Firsts(s, n) == {j \in 1..n : First(s, j)}
Rank(s, n) == Cardinality(Firsts(s, n))

LEMMA RankType ==
    ASSUME NEW s, NEW n \in Nat
    PROVE  IsFiniteSet(Firsts(s, n)) /\ Rank(s, n) \in Nat
<1>1. IsFiniteSet(1..n)
  BY FS_Interval
<1>2. Firsts(s, n) \in SUBSET (1..n)
  BY DEF Firsts
<1>3. IsFiniteSet(Firsts(s, n))
  BY <1>1, <1>2, FS_Subset
<1>. QED
  BY <1>3, FS_CardinalityType DEF Rank

LEMMA RankStep ==
    ASSUME NEW s, NEW n \in Nat
    PROVE  Rank(s, n + 1) = IF First(s, n + 1) THEN Rank(s, n) + 1 ELSE Rank(s, n)
<1>1. CASE First(s, n + 1)
  <2>1. Firsts(s, n + 1) = Firsts(s, n) \cup {n + 1} /\ n + 1 \notin Firsts(s, n)
    BY <1>1 DEF Firsts
  <2>. QED
    BY <1>1, <2>1, RankType, FS_AddElement DEF Rank
<1>2. CASE ~First(s, n + 1)
  <2>1. Firsts(s, n + 1) = Firsts(s, n)
    BY <1>2 DEF Firsts
  <2>. QED
    BY <1>2, <2>1 DEF Rank
<1>. QED
  BY <1>1, <1>2

\* Every rank up to that of n is the rank of a position: the least n for which
\* one is missing cannot be.
LEMMA RankOnto ==
    ASSUME NEW s, NEW n \in Nat, NEW k \in 1..Rank(s, n)
    PROVE  \E i \in 1..n : First(s, i) /\ Rank(s, i) = k
<1>. DEFINE Has(m, r) == \E i \in 1..m : First(s, i) /\ Rank(s, i) = r
            Bad == {m \in Nat : \E r \in 1..Rank(s, m) : ~Has(m, r)}
<1>. SUFFICES ASSUME Bad # {} PROVE FALSE
  OBVIOUS
<1>1. PICK m \in Bad : \A x \in Bad : m <= x
  BY LeastNatural
<1>2. PICK r \in 1..Rank(s, m) : ~Has(m, r)
  BY <1>1
<1>3. m # 0
  <2>1. Firsts(s, 0) = {}
    BY DEF Firsts
  <2>2. Rank(s, 0) = 0
    BY <2>1, FS_EmptySet DEF Rank
  <2>. QED
    BY <1>2, <2>2
<1>. DEFINE p == m - 1
<1>4. p \in Nat /\ p \notin Bad /\ m = p + 1
  BY <1>1, <1>3
<1>5. Rank(s, p) \in Nat /\ Rank(s, m) \in Nat
  BY <1>1, <1>4, RankType
<1>6. Rank(s, m) = IF First(s, m) THEN Rank(s, p) + 1 ELSE Rank(s, p)
  BY <1>4, RankStep
<1>7. r \notin 1..Rank(s, p)
  BY <1>1, <1>2, <1>4
<1>8. First(s, m) /\ r = Rank(s, m)
  BY <1>2, <1>5, <1>6, <1>7
<1>. QED
  BY <1>1, <1>2, <1>3, <1>8

\* What a pull downloads are layers of the manifest.
LEMMA FetchedType ==
    ASSUME NEW img \in Images
    PROVE  Fetched(img) \in Seq(Digests)
<1>. DEFINE s == LayersOf[img]
<1>0. s \in Seq(Digests) /\ Len(s) \in Nat
  BY ImagePullAssumption
<1>1. CASE IsNydusImage(img)
  <2>1. s # <<>>
    BY <1>1, ImagePullAssumption DEF IsNydusImage
  <2>2. s[Len(s)] \in Digests
    BY <1>0, <2>1
  <2>. QED
    BY <1>1, <2>2 DEF Fetched
<1>2. CASE ~IsNydusImage(img)
  <2>. DEFINE pos(k) == CHOOSE i \in 1..Len(s) : First(s, i) /\ Rank(s, i) = k
              n == Rank(s, Len(s))
  <2>1. UniqueLayers(img) = [k \in 1..n |-> s[pos(k)]]
    BY DEF UniqueLayers, First, Rank, Firsts
  <2>2. n \in Nat
    BY <1>0, RankType
  <2>3. ASSUME NEW k \in 1..n PROVE s[pos(k)] \in Digests
    <3>1. \E i \in 1..Len(s) : First(s, i) /\ Rank(s, i) = k
      BY <1>0, <2>3, RankOnto
    <3>2. pos(k) \in 1..Len(s)
      BY <3>1
    <3>. HIDE DEF pos, s
    <3>. QED
      BY <1>0, <3>2
  <2>. HIDE DEF pos, n, s
  <2>4. UniqueLayers(img) \in Seq(Digests)
    BY <2>1, <2>2, <2>3
  <2>. QED
    BY <1>2, <2>4 DEF Fetched
<1>. QED
  BY <1>1, <1>2

\* A later position that holds no repeated layer has a greater rank.
LEMMA RankGrows ==
    ASSUME NEW s, NEW i \in Nat, NEW j \in Nat, 0 < i, i < j, First(s, j)
    PROVE  Rank(s, i) < Rank(s, j)
<1>1. /\ IsFiniteSet(Firsts(s, i)) /\ Rank(s, i) \in Nat
      /\ IsFiniteSet(Firsts(s, j)) /\ Rank(s, j) \in Nat
  BY RankType
<1>2. Firsts(s, i) \subseteq Firsts(s, j) /\ j \in Firsts(s, j) /\ j \notin Firsts(s, i)
  BY DEF Firsts
<1>3. Firsts(s, i) # Firsts(s, j)
  BY <1>2
<1>. QED
  BY <1>1, <1>2, <1>3, FS_Subset DEF Rank

\* The position of the k-th layer that is not dropped.
IsPlace(s, k, i) == i \in 1..Len(s) /\ First(s, i) /\ Rank(s, i) = k
LEMMA PlaceFound ==
    ASSUME NEW s, Len(s) \in Nat, NEW k \in 1..Rank(s, Len(s))
    PROVE  IsPlace(s, k, CHOOSE i \in 1..Len(s) : First(s, i) /\ Rank(s, i) = k)
<1>1. \E i \in 1..Len(s) : First(s, i) /\ Rank(s, i) = k
  BY RankOnto
<1>. QED
  BY <1>1 DEF IsPlace

\* What is left of a list are its members, each once, in the order of their
\* first places.
LEMMA DedupShows ==
    ASSUME NEW s, Len(s) \in Nat, DOMAIN s = 1..Len(s), NEW u,
           DOMAIN u = 1..Rank(s, Len(s)),
           \A k \in 1..Rank(s, Len(s)) : \E i : IsPlace(s, k, i) /\ u[k] = s[i]
    PROVE  Abstract!Shows(u, s)
<1>1. PICK n \in Nat : n = Rank(s, Len(s))
  BY RankType
<1>2. \A k \in 1..n : u[k] \in {s[i] : i \in DOMAIN s}
  BY <1>1 DEF IsPlace
<1>3. ASSUME NEW i \in 1..Len(s) PROVE \E k \in 1..n : u[k] = s[i]
  <2>. DEFINE T == {j \in 1..Len(s) : s[j] = s[i]}
  <2>1. T \in SUBSET Nat /\ i \in T
    OBVIOUS
  <2>2. PICK j \in T : \A m \in T : j <= m
    BY <2>1, LeastNatural
  <2>3. j \in 1..Len(s) /\ s[j] = s[i]
    OBVIOUS
  <2>4. ASSUME NEW m \in 1..(j - 1), s[m] = s[j] PROVE FALSE
    <3>1. m \in T
      BY <2>3, <2>4
    <3>2. j <= m
      BY <2>2, <3>1
    <3>. QED
      BY <2>3, <2>4, <3>2
  <2>5. First(s, j)
    BY <2>4 DEF First
  <2>6. PICK k : k = Rank(s, j)
    OBVIOUS
  <2>7. k \in Nat
    BY <2>3, <2>6, RankType
  <2>8. k <= n
    <3>1. CASE j = Len(s)
      BY <1>1, <2>6, <2>7, <3>1
    <3>2. CASE j # Len(s)
      <4>1. Firsts(s, j) \subseteq Firsts(s, Len(s))
        BY <2>3 DEF Firsts
      <4>2. IsFiniteSet(Firsts(s, Len(s)))
        BY RankType
      <4>3. Cardinality(Firsts(s, j)) <= Cardinality(Firsts(s, Len(s)))
        BY <4>1, <4>2, FS_Subset
      <4>. QED
        BY <1>1, <2>6, <4>3 DEF Rank
    <3>. QED
      BY <3>1, <3>2
  <2>9. k # 0
    <3>1. j \in Firsts(s, j)
      BY <2>3, <2>5 DEF Firsts
    <3>2. IsFiniteSet(Firsts(s, j))
      BY <2>3, RankType
    <3>. QED
      BY <2>6, <3>1, <3>2, FS_EmptySet DEF Rank
  <2>10. k \in 1..n
    BY <2>7, <2>8, <2>9
  <2>11. PICK p : IsPlace(s, k, p) /\ u[k] = s[p]
    BY <1>1, <2>10
  <2>12. p = j
    <3>1. p \in 1..Len(s) /\ First(s, p) /\ Rank(s, p) = k
      BY <2>11 DEF IsPlace
    <3>2. ~(p < j) /\ ~(j < p)
      BY <2>3, <2>5, <2>6, <2>7, <3>1, RankGrows
    <3>. QED
      BY <2>3, <3>1, <3>2
  <2>. QED
    BY <2>3, <2>10, <2>11, <2>12
<1>4. {u[k] : k \in DOMAIN u} = {s[i] : i \in DOMAIN s}
  BY <1>1, <1>2, <1>3
<1>5. ASSUME NEW k \in 1..n, NEW l \in 1..n, k < l
      PROVE  u[k] # u[l] /\ ~Abstract!Below(s, u[l], u[k])
  <2>1. PICK p : IsPlace(s, k, p) /\ u[k] = s[p]
    BY <1>1
  <2>2. PICK q : IsPlace(s, l, q) /\ u[l] = s[q]
    BY <1>1
  <2>3. /\ p \in 1..Len(s) /\ First(s, p) /\ Rank(s, p) = k
        /\ q \in 1..Len(s) /\ First(s, q) /\ Rank(s, q) = l
    BY <2>1, <2>2 DEF IsPlace
  <2>4. p < q
    <3>1. p # q
      BY <1>5, <2>3
    <3>2. ~(q < p)
      BY <1>5, <2>3, RankGrows
    <3>. QED
      BY <2>3, <3>1, <3>2
  <2>5. s[p] # s[q]
    <3>1. p \in 1..(q - 1)
      BY <2>3, <2>4
    <3>. QED
      BY <2>3, <3>1 DEF First
  <2>6. ~Abstract!Below(s, u[l], u[k])
    BY <2>1, <2>2, <2>3, <2>4 DEF Abstract!Below
  <2>. QED
    BY <2>1, <2>2, <2>5, <2>6
<1>. QED
  BY <1>1, <1>4, <1>5 DEF Abstract!Shows

\* What a pull downloads is what the manifest lists.
LEMMA FetchedShows ==
    ASSUME NEW img \in Images
    PROVE  Abstract!Shows(Fetched(img), Listed(img))
<1>1. CASE IsNydusImage(img)
  <2>1. PICK f : f = Fetched(img)
    OBVIOUS
  <2>2. Listed(img) = f /\ DOMAIN f = {1}
    BY <1>1, <2>1 DEF Fetched, Listed
  <2>. QED
    BY <2>1, <2>2 DEF Abstract!Shows
<1>2. CASE ~IsNydusImage(img)
  <2>1. PICK s, u : s = LayersOf[img] /\ u = UniqueLayers(img)
    OBVIOUS
  <2>2. s \in Seq(Digests)
    BY <2>1, ImagePullAssumption
  <2>3. Len(s) \in Nat /\ DOMAIN s = 1..Len(s)
    BY <2>2
  <2>4. u = [k \in 1..Rank(s, Len(s)) |-> s[CHOOSE i \in 1..Len(s) : First(s, i) /\ Rank(s, i) = k]]
    BY <2>1 DEF UniqueLayers, First, Rank, Firsts
  <2>5. DOMAIN u = 1..Rank(s, Len(s))
    BY <2>4
  <2>6. \A k \in 1..Rank(s, Len(s)) : \E i : IsPlace(s, k, i) /\ u[k] = s[i]
    BY <2>3, <2>4, PlaceFound
  <2>7. Abstract!Shows(u, s)
    BY <2>3, <2>5, <2>6, DedupShows
  <2>. QED
    BY <1>2, <2>1, <2>7 DEF Fetched, Listed
<1>. QED
  BY <1>1, <1>2

-----------------------------------------------------------------------------
(* The inductive invariant.                                                 *)

Task == [pc : {"waiting", "fetch", "unpack", "verify", "done"}, attempt : Nat,
         dir : Nat \cup {None}]
LayerStore == [layers : [Digests -> Nat \cup {None}], images : [Images -> Seq(Nat)]]
MountRecord == [image : Images, stack : Seq(Nat), daemon : {None, "served", "failed", "gone"}]

TypeInv ==
    /\ pull \in [pc : {"idle", "manifest", "signature", "layers", "daemon", "mount",
                        "mountCached", "config", "configCached", "truncate", "save"},
                 image : Images \cup {None}, daemon : {None, "served", "failed"}]
    /\ task \in Seq(Task)
    /\ layerDb \in [Digests -> Nat \cup {None}]
    /\ imageDb \in [Images -> Seq(Nat)]
    /\ disk = None \/ disk \in LayerStore
    /\ nextDir \in Nat
    /\ dirs = [d \in DOMAIN dirs |-> dirs[d]]
    /\ mounts \in Seq(MountRecord)

\* A directory's name is below the counter that gives the next one.
DirInv == \A d \in DOMAIN dirs : d \in Nat /\ d < nextDir

\* Where the pull is: its signature was checked before the layers are pulled,
\* they are all there before the bundle is made, and a mount was made before
\* it is answered.
PhaseInv ==
    /\ verified \subseteq Trusted
    /\ answered \subseteq 1..Len(mounts)
    /\ pull.pc # "idle" => pull.image \in Images
    /\ pull.pc \in {"idle", "manifest", "signature", "mountCached", "configCached"} =>
          task = <<>>
    /\ pull.pc \in {"layers", "daemon", "mount", "config", "truncate", "save"} =>
          pull.image \in verified /\ Len(task) = Len(Fetched(pull.image))
    /\ pull.pc \in {"daemon", "mount", "config", "truncate", "save"} =>
          \A i \in 1..Len(task) : task[i].pc = "done"
    /\ pull.pc = "mountCached" => imageDb[pull.image] # <<>>
    /\ pull.pc \in {"config", "configCached", "truncate", "save"} => mounts # <<>>
    /\ pull.pc = "daemon" \/ pull.daemon \in {"served", "failed"} => IsNydusImage(pull.image)

\* Directory d holds layer l.
Holds(d, l) == d \in DOMAIN dirs /\ dirs[d] = l

\* The meta store names directories that hold the layers they are filed for,
\* and its images were checked.
StoreHolds(layers, images) ==
    /\ \A d \in Digests : layers[d] # None => Holds(layers[d], d)
    /\ \A img \in Images : images[img] # <<>> =>
          /\ img \in verified
          /\ Len(images[img]) = Len(Fetched(img))
          /\ \A k \in 1..Len(images[img]) : Holds(images[img][k], Fetched(img)[k])
StoreInv ==
    /\ StoreHolds(layerDb, imageDb)
    /\ disk # None => StoreHolds(disk.layers, disk.images)

MountHas(m) ==
    /\ m.image \in verified
    /\ Len(m.stack) = Len(Fetched(m.image))
    /\ \A k \in 1..Len(m.stack) : Holds(m.stack[k], Fetched(m.image)[Len(m.stack) - k + 1])
    /\ m.daemon \in {"failed", "served", "gone"} => IsNydusImage(m.image)
MountInv == \A m \in 1..Len(mounts) : MountHas(mounts[m])

\* Something names directory d: the meta store, its file, or a mount.
NamedIn(layers, images, d) ==
    \/ \E l \in Digests : layers[l] = d
    \/ \E img \in Images : \E k \in 1..Len(images[img]) : images[img][k] = d
Named(d) ==
    \/ NamedIn(layerDb, imageDb, d)
    \/ disk # None /\ NamedIn(disk.layers, disk.images, d)
    \/ \E m \in 1..Len(mounts) : \E k \in 1..Len(mounts[m].stack) : mounts[m].stack[k] = d

\* A task that is done has its layer; one that is still writing has a
\* directory that no other task and nothing else names.
Writing(i) == task[i].pc \in {"unpack", "verify"}
TaskHas(i) ==
    /\ task[i].pc = "done" => Holds(task[i].dir, Fetched(pull.image)[i])
    /\ task[i].pc \in {"waiting", "fetch"} => task[i].dir = None
    /\ Writing(i) =>
          /\ task[i].dir \in DOMAIN dirs
          /\ ~Named(task[i].dir)
          /\ \A j \in 1..Len(task) : j # i => task[j].dir # task[i].dir
TaskInv == \A i \in 1..Len(task) : TaskHas(i)

IInv == TypeInv /\ DirInv /\ PhaseInv /\ StoreInv /\ MountInv /\ TaskInv

-----------------------------------------------------------------------------
(* Steps preserve the invariant.                                            *)

\* What is stored and mounted keeps its layers as long as no directory that
\* is named changes.
LEMMA NamedKept ==
    ASSUME TypeInv, StoreInv, MountInv, verified \subseteq verified',
           UNCHANGED <<layerDb, imageDb, disk, mounts>>,
           \A d \in DOMAIN dirs : Named(d) => d \in DOMAIN dirs' /\ dirs'[d] = dirs[d]
    PROVE  StoreInv' /\ MountInv'
<1>1. StoreHolds(layerDb, imageDb)'
  BY DEF StoreInv, StoreHolds, Holds, Named, NamedIn
<1>2. ASSUME disk # None PROVE StoreHolds(disk.layers, disk.images)'
  BY <1>2 DEF StoreInv, StoreHolds, Holds, Named, NamedIn
<1>3. MountInv'
  BY DEF MountInv, MountHas, Holds, Named
<1>. QED
  BY <1>1, <1>2, <1>3 DEF StoreInv

\* Steps that touch neither directories, store nor mounts.
LEMMA QuietKept ==
    ASSUME TypeInv, DirInv, StoreInv, MountInv, verified \subseteq verified',
           UNCHANGED <<layerDb, imageDb, disk, mounts, dirs, nextDir>>
    PROVE  DirInv' /\ StoreInv' /\ MountInv'
<1>1. DirInv'
  BY DEF DirInv
<1>. QED
  BY <1>1, NamedKept

\* The value of "no daemon" is none of a daemon's states.
LEMMA NoneIsNoDaemon == None \notin {"served", "failed", "gone"}
  BY ImagePullAssumption

LEMMA InitInv == Init => IInv
<1>. SUFFICES ASSUME Init PROVE IInv
  OBVIOUS
<1>. USE DEF Init, NoPull, EmptyStore
<1>1. TypeInv
  BY DEF TypeInv, LayerStore
<1>2. DirInv /\ PhaseInv /\ MountInv /\ TaskInv
  BY NoneIsNoDaemon DEF DirInv, PhaseInv, MountInv, TaskInv
<1>3. StoreInv
  BY DEF StoreInv, StoreHolds
<1>. QED
  BY <1>1, <1>2, <1>3 DEF IInv

\* An error ends the pull; the layers its tasks were at are nobody's.
LEMMA AbortInv ==
    ASSUME IInv, Abort, UNCHANGED <<layerDb, imageDb, disk, mounts, dirs, nextDir, verified>>,
           answered' \subseteq 1..Len(mounts)
    PROVE  IInv'
<1>. USE DEF IInv, Abort, NoPull
<1>1. TypeInv'
  BY DEF TypeInv
<1>2. DirInv' /\ StoreInv' /\ MountInv'
  BY QuietKept
<1>3. PhaseInv'
  BY NoneIsNoDaemon DEF PhaseInv
<1>4. TaskInv'
  BY DEF TaskInv
<1>. QED
  BY <1>1, <1>2, <1>3, <1>4

LEMMA StartInv == ASSUME IInv, NEW img \in Images, Start(img) PROVE IInv'
<1>. USE DEF IInv, Start, NoPull, store, fsys
<1>1. TypeInv'
  BY DEF TypeInv
<1>2. DirInv' /\ StoreInv' /\ MountInv'
  BY QuietKept
<1>3. PhaseInv'
  BY NoneIsNoDaemon DEF PhaseInv, At
<1>4. TaskInv'
  BY DEF TaskInv, PhaseInv, At
<1>. QED
  BY <1>1, <1>2, <1>3, <1>4

\* What the tasks have is kept while they, the directories and the names stay.
LEMMA TasksKept ==
    ASSUME TaskInv, UNCHANGED <<task, layerDb, imageDb, disk, mounts, dirs>>,
           task = <<>> \/ pull'.image = pull.image
    PROVE  TaskInv'
<1>1. CASE task = <<>>
  BY <1>1 DEF TaskInv
<1>2. CASE task # <<>>
  BY <1>2 DEF TaskInv, TaskHas, Holds, Named, NamedIn, Writing
<1>. QED
  BY <1>1, <1>2

LEMMA ManifestInv == ASSUME IInv, Manifest PROVE IInv'
<1>. USE DEF IInv, Manifest, Goto, At, store, fsys
<1>1. TypeInv'
  BY DEF TypeInv
<1>2. DirInv' /\ StoreInv' /\ MountInv'
  BY QuietKept
<1>3. PhaseInv'
  BY DEF PhaseInv, TypeInv
<1>4. TaskInv'
  BY TasksKept DEF TypeInv
<1>. QED
  BY <1>1, <1>2, <1>3, <1>4

LEMMA CheckSignatureInv == ASSUME IInv, CheckSignature PROVE IInv'
<1>. USE DEF CheckSignature, store, fsys, bounds
<1>1. CASE pull.image \in Trusted
  <2>. DEFINE n == Len(Fetched(pull.image))
  <2>1. n \in Nat /\ pull.image \in Images
    BY <1>1, FetchedType, ImagePullAssumption
  <2>. HIDE DEF n
  <2>2. task' = [i \in 1..n |-> NoTask] /\ NoTask \in Task
    BY <1>1 DEF n, NoTask, Task
  <2>3. task' \in Seq(Task) /\ Len(task') = n
    BY <2>1, <2>2
  <2>4. TypeInv'
    BY <1>1, <2>3 DEF IInv, TypeInv, Goto, At
  <2>5. DirInv' /\ StoreInv' /\ MountInv'
    BY <1>1, QuietKept DEF IInv
  <2>6. PhaseInv'
    BY ZenonT(40), <1>1, <2>1, <2>3 DEF n, IInv, PhaseInv, TypeInv, Goto, At
  <2>7. TaskInv'
    BY <2>1, <2>2, <2>3 DEF TaskInv, TaskHas, NoTask, Writing
  <2>. QED
    BY <2>4, <2>5, <2>6, <2>7 DEF IInv
<1>2. CASE pull.image \notin Trusted
  BY <1>2, AbortInv DEF IInv, PhaseInv
<1>. QED
  BY <1>1, <1>2

\* The ways a pull ends early.
LEMMA ErrorInv == ASSUME IInv, EarlyError \/ BundleError \/ SaveError PROVE IInv'
BY AbortInv DEF EarlyError, BundleError, SaveError, store, fsys, IInv, PhaseInv

LEMMA ConfigCachedInv == ASSUME IInv, ConfigCached PROVE IInv'
<1>1. answered' \subseteq 1..Len(mounts)
  BY DEF ConfigCached, IInv, PhaseInv, TypeInv, At
<1>. QED
  BY <1>1, AbortInv DEF ConfigCached, store, fsys

LEMMA StartDaemonInv == ASSUME IInv, StartDaemon PROVE IInv'
<1>. USE DEF IInv, StartDaemon, DaemonOutcomes, At, store, fsys
<1>1. TypeInv'
  BY ZenonT(40) DEF TypeInv
<1>2. DirInv' /\ StoreInv' /\ MountInv'
  BY QuietKept
<1>3. PhaseInv'
  BY DEF PhaseInv, TypeInv
<1>4. TaskInv'
  BY TasksKept DEF TypeInv
<1>. QED
  BY <1>1, <1>2, <1>3, <1>4

-----------------------------------------------------------------------------
(* The layer tasks.                                                         *)

\* A step of task i changes that task only.
LEMMA TaskUpdate ==
    ASSUME task \in Seq(Task), NEW i \in DOMAIN task, NEW t \in Task,
           task' = [task EXCEPT ![i] = t]
    PROVE  /\ i \in 1..Len(task) /\ task[i] \in Task
           /\ task' \in Seq(Task) /\ Len(task') = Len(task)
           /\ \A j \in 1..Len(task) : task'[j] = IF j = i THEN t ELSE task[j]
<1>1. i \in 1..Len(task)
  OBVIOUS
<1>2. \A s \in Seq(Task) : \A k \in 1..Len(s) :
          /\ [s EXCEPT ![k] = t] \in Seq(Task)
          /\ Len([s EXCEPT ![k] = t]) = Len(s)
          /\ \A j \in 1..Len(s) : [s EXCEPT ![k] = t][j] = IF j = k THEN t ELSE s[j]
  BY ExceptSeq
<1>. QED
  BY <1>1, <1>2

\* The task whose turn it is belongs to a pull that is at its layers.
LEMMA TaskLayer ==
    ASSUME TypeInv, PhaseInv, At("layers"), NEW i \in DOMAIN task
    PROVE  /\ i \in 1..Len(task) /\ task[i] \in Task
           /\ pull.image \in Images /\ pull.image \in verified
           /\ LayerOf(i) \in Digests /\ LayerOf(i) = Fetched(pull.image)[i]
BY FetchedType DEF TypeInv, PhaseInv, LayerOf, At

LEMMA StartTaskInv == ASSUME IInv, NEW i \in DOMAIN task, StartTask(i) PROVE IInv'
<1>. USE DEF StartTask, store, fsys
<1>. DEFINE t == IF layerDb[LayerOf(i)] # None
                   THEN [task[i] EXCEPT !.pc = "done", !.dir = layerDb[LayerOf(i)]]
                   ELSE [task[i] EXCEPT !.pc = "fetch"]
<1>1. /\ i \in 1..Len(task) /\ task[i] \in Task
      /\ LayerOf(i) \in Digests /\ LayerOf(i) = Fetched(pull.image)[i]
  BY TaskLayer DEF IInv
<1>2. t \in Task
  BY <1>1 DEF IInv, TypeInv, Task
<1>3. task' = [task EXCEPT ![i] = t]
  BY <1>1 DEF Task
<1>. HIDE DEF t
<1>4. /\ task' \in Seq(Task) /\ Len(task') = Len(task)
      /\ \A j \in 1..Len(task) : task'[j] = IF j = i THEN t ELSE task[j]
  BY <1>2, <1>3, TaskUpdate DEF IInv, TypeInv
<1>5. DirInv' /\ StoreInv' /\ MountInv'
  BY QuietKept DEF IInv
<1>6. TypeInv'
  BY <1>4 DEF IInv, TypeInv
<1>7. PhaseInv'
  BY <1>4 DEF IInv, PhaseInv, At
<1>8. TaskInv'
  <2>1. t.pc = "done" => Holds(t.dir, Fetched(pull.image)[i]) /\ Named(t.dir)
    BY <1>1 DEF t, IInv, StoreInv, StoreHolds, Named, NamedIn, Task
  <2>2. t.pc # "done" => t.pc = "fetch" /\ t.dir = None
    BY <1>1 DEF t, IInv, TaskInv, TaskHas, Task
  <2>3. None \notin DOMAIN dirs /\ t.pc \in {"done", "fetch"}
    BY <1>1, ImagePullAssumption DEF t, IInv, DirInv, Task
  <2>4. TaskHas(i)'
    BY <1>1, <1>4, <2>1, <2>2, <2>3 DEF TaskHas, Holds, Writing
  <2>5. ASSUME NEW j \in 1..Len(task), j # i PROVE TaskHas(j)'
    <3>1. TaskHas(j) /\ task'[j] = task[j]
      BY <1>4, <2>5 DEF IInv, TaskInv
    <3>2. Writing(j) => task[j].dir # t.dir
      BY <2>1, <2>2, <2>3, <3>1 DEF TaskHas
    <3>3. UNCHANGED <<layerDb, imageDb, disk, mounts, dirs, pull>>
      OBVIOUS
    <3>. HIDE DEF StartTask
    <3>. QED
      BY <1>1, <1>4, <2>5, <3>1, <3>2, <3>3 DEF TaskHas, Holds, Named, NamedIn, Writing
  <2>. QED
    BY <1>4, <2>4, <2>5 DEF TaskInv
<1>. QED
  BY <1>5, <1>6, <1>7, <1>8 DEF IInv

\* A new directory is nobody's: all names are below the counter.
LEMMA NextDirUnnamed ==
    ASSUME IInv
    PROVE  /\ nextDir \notin DOMAIN dirs /\ ~Named(nextDir)
           /\ \A j \in 1..Len(task) : task[j].dir # nextDir
<1>1. nextDir \notin DOMAIN dirs /\ nextDir \in Nat /\ nextDir # None
  BY ImagePullAssumption DEF IInv, DirInv, TypeInv
<1>2. \A d : Named(d) => d = None \/ d \in DOMAIN dirs
  <2>1. ASSUME NEW layers, NEW images, StoreHolds(layers, images), NEW d, NamedIn(layers, images, d),
               images \in [Images -> Seq(Nat)]
        PROVE  d = None \/ d \in DOMAIN dirs
    BY <2>1 DEF StoreHolds, NamedIn, Holds
  <2>2. \A d : NamedIn(layerDb, imageDb, d) => d = None \/ d \in DOMAIN dirs
    BY <2>1 DEF IInv, StoreInv, TypeInv
  <2>3. \A d : disk # None /\ NamedIn(disk.layers, disk.images, d) => d = None \/ d \in DOMAIN dirs
    BY <2>1 DEF IInv, StoreInv, TypeInv, LayerStore
  <2>4. \A m \in 1..Len(mounts) : \A k \in 1..Len(mounts[m].stack) :
            mounts[m].stack[k] \in DOMAIN dirs
    BY DEF IInv, MountInv, MountHas, Holds
  <2>. QED
    BY <2>2, <2>3, <2>4 DEF Named
<1>3. ASSUME NEW j \in 1..Len(task) PROVE task[j].dir # nextDir
  <2>1. task[j] \in Task /\ TaskHas(j)
    BY DEF IInv, TypeInv, TaskInv
  <2>2. task[j].pc \in {"waiting", "fetch", "unpack", "verify", "done"}
    BY <2>1 DEF Task
  <2>. QED
    BY <1>1, <2>1, <2>2 DEF TaskHas, Writing, Holds
<1>. QED
  BY <1>1, <1>2, <1>3

LEMMA OpenLayerInv == ASSUME IInv, NEW i \in DOMAIN task, OpenLayer(i) PROVE IInv'
<1>. USE DEF OpenLayer, store
<1>. DEFINE t == [task[i] EXCEPT !.pc = "unpack", !.dir = nextDir]
<1>1. /\ i \in 1..Len(task) /\ task[i] \in Task
  BY TaskLayer DEF IInv
<1>2. t \in Task /\ t.pc = "unpack" /\ t.dir = nextDir
  BY <1>1 DEF IInv, TypeInv, Task
<1>3. task' = [task EXCEPT ![i] = t]
  BY <1>1 DEF Task
<1>. HIDE DEF t
<1>4. /\ task' \in Seq(Task) /\ Len(task') = Len(task)
      /\ \A j \in 1..Len(task) : task'[j] = IF j = i THEN t ELSE task[j]
  <2>1. task \in Seq(Task)
    BY DEF IInv, TypeInv
  <2>2. t \in Task
    BY <1>2
  <2>. QED
    BY <1>3, <2>1, <2>2, TaskUpdate
<1>5. nextDir \notin DOMAIN dirs /\ ~Named(nextDir) /\ \A j \in 1..Len(task) : task[j].dir # nextDir
  BY NextDirUnnamed
<1>6. /\ DOMAIN dirs' = DOMAIN dirs \cup {nextDir}
      /\ \A d \in DOMAIN dirs : dirs'[d] = dirs[d]
  BY <1>5
<1>7. StoreInv' /\ MountInv'
  BY <1>6, NamedKept DEF IInv
<1>8. TypeInv' /\ DirInv'
  BY <1>4, <1>6 DEF IInv, TypeInv, DirInv
<1>9. PhaseInv'
  BY <1>4 DEF IInv, PhaseInv, At
<1>10. TaskInv'
  BY <1>1, <1>2, <1>4, <1>5, <1>6 DEF IInv, TaskInv, TaskHas, Holds, Named, NamedIn, Writing
<1>. QED
  BY <1>7, <1>8, <1>9, <1>10 DEF IInv

\* A step of task i that changes at most its own directory and forgets or
\* keeps it.
WritesOwn(i) ==
    \E x \in {None, task[i].dir} :
        /\ task[i].pc \in {"fetch", "unpack", "verify"}
        /\ DOMAIN dirs' \in {DOMAIN dirs, DOMAIN dirs \ {x}}
        /\ \A d \in DOMAIN dirs : d # x => dirs'[d] = dirs[d]
        /\ UNCHANGED <<layerDb, imageDb, disk, mounts, nextDir, verified>>

\* Such a step disturbs nothing that is stored or mounted ...
LEMMA OwnDirKept ==
    ASSUME IInv, NEW i \in 1..Len(task), WritesOwn(i)
    PROVE  /\ DirInv' /\ StoreInv' /\ MountInv'
           /\ \A d \in DOMAIN dirs :
                 d # task[i].dir => d \in DOMAIN dirs' /\ dirs'[d] = dirs[d]
<1>1. TaskHas(i)
  BY DEF IInv, TaskInv
<1>2. PICK x \in {None, task[i].dir} :
        /\ task[i].pc \in {"fetch", "unpack", "verify"}
        /\ DOMAIN dirs' \in {DOMAIN dirs, DOMAIN dirs \ {x}}
        /\ \A d \in DOMAIN dirs : d # x => dirs'[d] = dirs[d]
        /\ UNCHANGED <<layerDb, imageDb, disk, mounts, nextDir, verified>>
  BY DEF WritesOwn
<1>3. x \in DOMAIN dirs => x = task[i].dir /\ ~Named(x)
  BY <1>1, <1>2, ImagePullAssumption DEF TaskHas, Writing, IInv, DirInv
<1>4. StoreInv' /\ MountInv'
  BY <1>2, <1>3, NamedKept DEF IInv
<1>5. DirInv'
  BY <1>2 DEF IInv, DirInv
<1>. QED
  BY <1>2, <1>3, <1>4, <1>5

\* ... and no other task.
LEMMA OwnDirTasks ==
    ASSUME IInv, NEW i \in 1..Len(task), WritesOwn(i), pull' = pull,
           task' \in Seq(Task), Len(task') = Len(task),
           \A j \in 1..Len(task) : j # i => task'[j] = task[j],
           TaskHas(i)', task'[i].dir \in {None, task[i].dir}
    PROVE  TaskInv'
<1>1. TaskHas(i)
  BY DEF IInv, TaskInv
<1>2. UNCHANGED <<layerDb, imageDb, disk, mounts>> /\ task[i].pc \in {"fetch", "unpack", "verify"}
  BY DEF WritesOwn
<1>3. None \notin DOMAIN dirs
  BY ImagePullAssumption DEF IInv, DirInv
<1>4. ASSUME NEW j \in 1..Len(task), j # i PROVE TaskHas(j)'
  <2>1. TaskHas(j) /\ task'[j] = task[j]
    BY <1>4 DEF IInv, TaskInv
  <2>2. task[j].dir \in DOMAIN dirs => task[j].dir # task[i].dir
    BY <1>1, <1>2, <1>3, <1>4 DEF TaskHas, Writing
  <2>3. task[j].dir \in DOMAIN dirs =>
            task[j].dir \in DOMAIN dirs' /\ dirs'[task[j].dir] = dirs[task[j].dir]
    BY <2>2, OwnDirKept
  <2>4. Writing(j) => task[j].dir # task'[i].dir
    BY <1>3, <1>4, <2>1 DEF TaskHas
  <2>. QED
    BY <1>2, <1>4, <2>1, <2>3, <2>4 DEF TaskHas, Holds, Named, NamedIn, Writing
<1>. QED
  BY <1>4 DEF TaskInv

LEMMA UnpackInv == ASSUME IInv, NEW i \in DOMAIN task, Unpack(i) PROVE IInv'
<1>. DEFINE t == [task[i] EXCEPT !.pc = "verify"]
<1>1. i \in 1..Len(task) /\ task[i] \in Task /\ task[i].pc = "unpack" /\ pull.pc = "layers"
  BY TaskLayer DEF IInv, Unpack, At
<1>2. t \in Task /\ t.pc = "verify" /\ t.dir = task[i].dir
  BY <1>1 DEF Task
<1>3. task' = [task EXCEPT ![i] = t]
  BY <1>1 DEF Task, Unpack
<1>. HIDE DEF t
<1>4. /\ task' \in Seq(Task) /\ Len(task') = Len(task)
      /\ \A j \in 1..Len(task) : task'[j] = IF j = i THEN t ELSE task[j]
  BY <1>2, <1>3, TaskUpdate DEF IInv, TypeInv
<1>5. /\ DOMAIN dirs' = DOMAIN dirs
      /\ \A d \in DOMAIN dirs : d # task[i].dir => dirs'[d] = dirs[d]
      /\ dirs' = [d \in DOMAIN dirs' |-> dirs'[d]]
  BY DEF Unpack, IInv, TypeInv
<1>6. UNCHANGED <<pull, layerDb, imageDb, disk, mounts, nextDir, verified, answered>>
  BY DEF Unpack, store
<1>7. WritesOwn(i)
  BY <1>1, <1>5, <1>6 DEF WritesOwn
<1>8. DirInv' /\ StoreInv' /\ MountInv'
  BY <1>1, <1>7, OwnDirKept
<1>9. TypeInv'
  BY <1>4, <1>5, <1>6 DEF IInv, TypeInv
<1>10. PhaseInv'
  BY <1>1, <1>4, <1>6 DEF IInv, PhaseInv
<1>11. TaskHas(i)'
  <2>1. TaskHas(i)
    BY <1>1 DEF IInv, TaskInv
  <2>. QED
    BY <1>1, <1>2, <1>4, <1>5, <1>6, <2>1 DEF TaskHas, Writing, Named, NamedIn
<1>12. TaskInv'
  BY <1>1, <1>2, <1>4, <1>6, <1>7, <1>11, OwnDirTasks
<1>. QED
  BY <1>8, <1>9, <1>10, <1>12 DEF IInv

\* A directory is removed only by the task it is of, which then starts over or
\* ends the pull.
LEMMA RetryInv ==
    ASSUME IInv, NEW i \in DOMAIN task, At("layers"),
           task[i].pc \in {"fetch", "unpack", "verify"},
           RemoveDir(task[i].dir), Retry(i),
           UNCHANGED <<layerDb, imageDb, disk, mounts, nextDir, verified, answered>>
    PROVE  IInv'
<1>1. i \in 1..Len(task) /\ task[i] \in Task /\ pull.pc = "layers"
  BY TaskLayer DEF IInv, At
<1>2. /\ DOMAIN dirs' = DOMAIN dirs \ {task[i].dir}
      /\ \A d \in DOMAIN dirs : d # task[i].dir => dirs'[d] = dirs[d]
      /\ dirs' = [d \in DOMAIN dirs' |-> dirs'[d]]
  BY DEF RemoveDir
<1>3. WritesOwn(i)
  BY <1>1, <1>2 DEF WritesOwn
<1>4. DirInv' /\ StoreInv' /\ MountInv'
  BY <1>1, <1>3, OwnDirKept
<1>5. CASE task[i].attempt < Attempts
  <2>. DEFINE t == [pc |-> "fetch", attempt |-> task[i].attempt + 1, dir |-> None]
  <2>1. t \in Task /\ t.pc = "fetch" /\ t.dir = None
    BY <1>1 DEF Task
  <2>2. task' = [task EXCEPT ![i] = t] /\ pull' = pull
    BY <1>1, <1>5 DEF Retry
  <2>. HIDE DEF t
  <2>3. /\ task' \in Seq(Task) /\ Len(task') = Len(task)
        /\ \A j \in 1..Len(task) : task'[j] = IF j = i THEN t ELSE task[j]
    BY <2>1, <2>2, TaskUpdate DEF IInv, TypeInv
  <2>4. TypeInv'
    BY <1>2, <2>2, <2>3 DEF IInv, TypeInv
  <2>5. PhaseInv'
    BY <1>1, <2>2, <2>3 DEF IInv, PhaseInv
  <2>6. TaskHas(i)'
    BY <1>1, <2>1, <2>3 DEF TaskHas, Writing
  <2>7. TaskInv'
    BY <1>1, <1>3, <2>1, <2>2, <2>3, <2>6, OwnDirTasks
  <2>. QED
    BY <1>4, <2>4, <2>5, <2>7 DEF IInv
<1>6. CASE ~(task[i].attempt < Attempts)
  <2>1. pull' = NoPull /\ task' = <<>>
    BY <1>6 DEF Retry, Abort
  <2>2. TypeInv'
    BY <1>2, <2>1 DEF IInv, TypeInv, NoPull
  <2>3. PhaseInv' /\ TaskInv'
    BY <2>1, NoneIsNoDaemon DEF IInv, PhaseInv, NoPull, TaskInv
  <2>. QED
    BY <1>4, <2>2, <2>3 DEF IInv
<1>. QED
  BY <1>5, <1>6

LEMMA LayerErrorInv == ASSUME IInv, NEW i \in DOMAIN task, LayerError(i) PROVE IInv'
BY RetryInv DEF LayerError, store

LEMMA VerifyInv == ASSUME IInv, NEW i \in DOMAIN task, Verify(i) PROVE IInv'
<1>1. /\ i \in 1..Len(task) /\ task[i] \in Task /\ task[i].pc = "verify" /\ At("layers")
      /\ LayerOf(i) = Fetched(pull.image)[i]
  BY TaskLayer DEF IInv, Verify
<1>2. CASE dirs[task[i].dir] = LayerOf(i)
  <2>. DEFINE t == [task[i] EXCEPT !.pc = "done"]
  <2>1. t \in Task /\ t.pc = "done" /\ t.dir = task[i].dir
    BY <1>1 DEF Task
  <2>2. task' = [task EXCEPT ![i] = t]
    BY <1>1, <1>2 DEF Task, Verify
  <2>. HIDE DEF t
  <2>3. /\ task' \in Seq(Task) /\ Len(task') = Len(task)
        /\ \A j \in 1..Len(task) : task'[j] = IF j = i THEN t ELSE task[j]
    BY <2>1, <2>2, TaskUpdate DEF IInv, TypeInv
  <2>4. UNCHANGED <<pull, layerDb, imageDb, disk, mounts, dirs, nextDir, verified, answered>>
    BY <1>2 DEF Verify, store
  <2>5. WritesOwn(i)
    BY <1>1, <2>4 DEF WritesOwn
  <2>6. DirInv' /\ StoreInv' /\ MountInv'
    BY <2>4, QuietKept DEF IInv
  <2>7. TypeInv'
    BY <2>3, <2>4 DEF IInv, TypeInv
  <2>8. PhaseInv'
    BY <1>1, <2>3, <2>4 DEF IInv, PhaseInv, At
  <2>9. TaskHas(i)'
    <3>1. TaskHas(i)
      BY <1>1 DEF IInv, TaskInv
    <3>. QED
      BY <1>1, <1>2, <2>1, <2>3, <2>4, <3>1 DEF TaskHas, Writing, Holds
  <2>10. TaskInv'
    BY <1>1, <2>1, <2>3, <2>4, <2>5, <2>9, OwnDirTasks
  <2>. QED
    BY <2>6, <2>7, <2>8, <2>10 DEF IInv
<1>3. CASE dirs[task[i].dir] # LayerOf(i)
  BY <1>1, <1>3, RetryInv DEF Verify, store
<1>. QED
  BY <1>2, <1>3

-----------------------------------------------------------------------------
(* The bundle, the meta store and a restart.                                *)

\* Once every task is done, each has its layer whatever else is named.
LEMMA DoneHolds ==
    ASSUME TaskInv, NEW i \in 1..Len(task), task[i].pc = "done"
    PROVE  Holds(task[i].dir, Fetched(pull.image)[i])
BY DEF TaskInv, TaskHas

LEMMA DoneKept ==
    ASSUME TaskInv, \A i \in 1..Len(task) : task[i].pc = "done",
           UNCHANGED <<task, dirs>>, pull'.image = pull.image
    PROVE  TaskInv'
BY DEF TaskInv, TaskHas, Holds, Writing

\* The directories of a pull whose tasks are done, in the manifest's order.
LEMMA StackHolds ==
    ASSUME IInv, \A i \in 1..Len(task) : task[i].pc = "done",
           Len(task) = Len(Fetched(pull.image))
    PROVE  /\ Stack \in Seq(Nat) /\ Len(Stack) = Len(Fetched(pull.image))
           /\ \A k \in 1..Len(Stack) : Holds(Stack[k], Fetched(pull.image)[k])
<1>1. task \in Seq(Task) /\ DOMAIN task = 1..Len(task) /\ Len(task) \in Nat
  BY DEF IInv, TypeInv
<1>2. ASSUME NEW k \in 1..Len(task)
      PROVE  task[k].dir \in Nat /\ Holds(task[k].dir, Fetched(pull.image)[k])
  BY <1>2, DoneHolds DEF IInv, Holds, DirInv
<1>3. Stack = [k \in 1..Len(task) |-> task[k].dir]
  BY <1>1 DEF Stack
<1>4. Stack \in Seq(Nat) /\ Len(Stack) = Len(task)
  BY <1>1, <1>2, <1>3
<1>. QED
  BY <1>1, <1>2, <1>3, <1>4

LEMMA LayersDoneInv == ASSUME IInv, LayersDone PROVE IInv'
<1>1. /\ At("layers") /\ \A i \in 1..Len(task) : task[i].pc = "done"
      /\ DOMAIN task = 1..Len(task)
      /\ pull' = [pull EXCEPT !.pc = IF IsNydusImage(pull.image) THEN "daemon" ELSE "mount"]
      /\ UNCHANGED <<task, imageDb, disk, dirs, nextDir, mounts, answered, verified>>
  BY DEF LayersDone, fsys, Goto, IInv, TypeInv
<1>2. ASSUME NEW d \in Digests
      PROVE  \/ layerDb'[d] = layerDb[d]
             \/ layerDb'[d] \in Nat /\ Holds(layerDb'[d], d)
  <2>. DEFINE j == CHOOSE i \in DOMAIN task : LayerOf(i) = d
  <2>1. CASE \E i \in DOMAIN task : LayerOf(i) = d
    <3>1. j \in DOMAIN task /\ LayerOf(j) = d
      BY <2>1
    <3>2. layerDb'[d] = task[j].dir
      BY <2>1 DEF LayersDone
    <3>. HIDE DEF j
    <3>3. Holds(task[j].dir, d)
      BY <1>1, <3>1, DoneHolds DEF IInv, LayerOf
    <3>. QED
      BY <3>2, <3>3 DEF Holds, IInv, DirInv
  <2>2. CASE ~\E i \in DOMAIN task : LayerOf(i) = d
    BY <2>2 DEF LayersDone
  <2>. QED
    BY <2>1, <2>2
<1>3. layerDb' = [d \in Digests |-> layerDb'[d]]
  BY DEF LayersDone
<1>4. TypeInv'
  <2>1. layerDb' \in [Digests -> Nat \cup {None}]
    BY <1>2, <1>3 DEF IInv, TypeInv
  <2>. QED
    BY <1>1, <2>1 DEF IInv, TypeInv
<1>5. DirInv' /\ MountInv'
  BY <1>1 DEF IInv, DirInv, MountInv, MountHas, Holds
<1>6. StoreInv'
  BY <1>1, <1>2 DEF IInv, StoreInv, StoreHolds, Holds
<1>7. PhaseInv'
  BY <1>1 DEF IInv, PhaseInv, TypeInv, At
<1>8. TaskInv'
  BY <1>1, DoneKept DEF IInv, TypeInv
<1>. QED
  BY <1>4, <1>5, <1>6, <1>7, <1>8 DEF IInv

\* A mount of directories that hold an image's layers joins the others.
LEMMA MountAdded ==
    ASSUME IInv, NEW m \in MountRecord, m.image \in verified,
           Len(m.stack) = Len(Fetched(m.image)),
           \A k \in 1..Len(m.stack) : Holds(m.stack[k], Fetched(m.image)[Len(m.stack) - k + 1]),
           m.daemon \in {"failed", "served", "gone"} => IsNydusImage(m.image),
           mounts' = Append(mounts, m), UNCHANGED <<dirs, verified>>
    PROVE  /\ mounts' \in Seq(MountRecord) /\ Len(mounts') = Len(mounts) + 1 /\ mounts' # <<>>
           /\ MountInv'
<1>1. mounts \in Seq(MountRecord) /\ Len(mounts) \in Nat
  BY DEF IInv, TypeInv
<1>2. /\ mounts' \in Seq(MountRecord) /\ Len(mounts') = Len(mounts) + 1 /\ mounts' # <<>>
      /\ \A j \in 1..Len(mounts') : mounts'[j] = IF j = Len(mounts) + 1 THEN m ELSE mounts[j]
  BY <1>1
<1>3. MountInv
  BY DEF IInv
<1>. HIDE DEF MountRecord
<1>4. MountHas(m) /\ \A x : MountHas(x) => MountHas(x)'
  BY DEF MountHas, Holds
<1>5. MountInv'
  BY <1>1, <1>2, <1>3, <1>4 DEF MountInv
<1>. QED
  BY <1>2, <1>5

\* create_bundle over directories that hold the image's layers in order.
LEMMA MountInvStep ==
    ASSUME IInv, NEW pc, NEW lower, NEW next, Mount(pc, lower, next),
           pc \in {"mount", "mountCached"},
           next = (IF pc = "mount" THEN "config" ELSE "configCached"),
           pull.image \in Images, pull.image \in verified,
           lower \in Seq(Nat), Len(lower) = Len(Fetched(pull.image)),
           \A k \in 1..Len(lower) : Holds(lower[k], Fetched(pull.image)[k])
    PROVE  IInv'
<1>. DEFINE r == Reversed(lower)
            m == [image |-> pull.image, stack |-> r, daemon |-> pull.daemon]
<1>1. /\ pull.pc = pc /\ pull' = [pull EXCEPT !.pc = next]
      /\ mounts' = Append(mounts, m)
      /\ UNCHANGED <<task, layerDb, imageDb, disk, dirs, nextDir, answered, verified>>
  BY DEF Mount, At, Goto, store
<1>2. /\ r \in Seq(Nat) /\ Len(r) = Len(lower)
      /\ \A k \in 1..Len(lower) : r[k] = lower[Len(lower) - k + 1]
  BY DEF Reversed
<1>3. \A k \in 1..Len(lower) : Holds(r[k], Fetched(pull.image)[Len(lower) - k + 1])
  BY SMTT(30), <1>2
<1>. HIDE DEF r
<1>4. m \in MountRecord /\ (m.daemon \in {"failed", "served", "gone"} => IsNydusImage(m.image))
  <2>1. pull.daemon \in {"served", "failed", None}
    BY DEF IInv, TypeInv
  <2>2. pull.daemon \in {"served", "failed"} => IsNydusImage(pull.image)
    BY DEF IInv, PhaseInv
  <2>. QED
    BY <1>2, <2>1, <2>2, NoneIsNoDaemon DEF MountRecord
<1>5. /\ mounts' \in Seq(MountRecord) /\ Len(mounts') = Len(mounts) + 1 /\ mounts' # <<>>
      /\ MountInv'
  BY <1>1, <1>2, <1>3, <1>4, MountAdded
<1>. HIDE DEF m
<1>6. TypeInv'
  BY <1>1, <1>5 DEF IInv, TypeInv
<1>7. DirInv' /\ StoreInv'
  BY <1>1 DEF IInv, DirInv, StoreInv, StoreHolds, Holds
<1>8. PhaseInv'
  <2>1. /\ pull'.pc = next /\ pull'.image = pull.image /\ pull'.daemon = pull.daemon
        /\ task' = task /\ imageDb' = imageDb /\ verified' = verified
    BY <1>1 DEF IInv, TypeInv
  <2>2. pc = "mount" => next = "config"
    OBVIOUS
  <2>3. pc = "mountCached" => next = "configCached"
    OBVIOUS
  <2>. QED
    BY <1>1, <1>5, <2>1, <2>2, <2>3 DEF IInv, PhaseInv
<1>9. TaskInv'
  <2>1. \A i \in 1..Len(task) : task[i].pc = "done"
    BY <1>1 DEF IInv, PhaseInv
  <2>. QED
    BY <1>1, <2>1, DoneKept DEF IInv, TypeInv
<1>. QED
  BY <1>5, <1>6, <1>7, <1>8, <1>9 DEF IInv

LEMMA CreateBundleInv == ASSUME IInv, CreateBundle PROVE IInv'
<1>1. CASE Mount("mount", Stack, "config")
  <2>1. pull.pc = "mount"
    BY <1>1 DEF Mount, At
  <2>2. /\ pull.image \in Images /\ pull.image \in verified
        /\ Len(task) = Len(Fetched(pull.image))
        /\ \A i \in 1..Len(task) : task[i].pc = "done"
    BY <2>1 DEF IInv, PhaseInv
  <2>. QED
    BY <1>1, <2>2, StackHolds, MountInvStep
<1>2. CASE Mount("mountCached", imageDb[pull.image], "configCached")
  <2>1. pull.pc = "mountCached"
    BY <1>2 DEF Mount, At
  <2>2. pull.image \in Images /\ imageDb[pull.image] # <<>>
    BY <2>1 DEF IInv, PhaseInv
  <2>3. /\ imageDb[pull.image] \in Seq(Nat) /\ pull.image \in verified
        /\ Len(imageDb[pull.image]) = Len(Fetched(pull.image))
        /\ \A k \in 1..Len(imageDb[pull.image]) :
              Holds(imageDb[pull.image][k], Fetched(pull.image)[k])
    BY <2>2 DEF IInv, TypeInv, StoreInv, StoreHolds
  <2>. QED
    BY <1>2, <2>2, <2>3, MountInvStep
<1>. QED
  BY <1>1, <1>2 DEF CreateBundle

LEMMA NydusCachedInv == ASSUME IInv, NydusCached PROVE IInv'
<1>0. /\ pull.pc = "mountCached"
      /\ UNCHANGED <<layerDb, imageDb, disk, dirs, nextDir, answered, verified>>
  BY DEF NydusCached, At, store
<1>1. CASE Abort /\ UNCHANGED mounts
  BY <1>0, <1>1, AbortInv DEF IInv, PhaseInv
<1>2. CASE ~(Abort /\ UNCHANGED mounts)
  <2>1. PICK n \in 1..Len(mounts) :
          /\ mounts[n].image = pull.image
          /\ mounts' = Append(mounts, [mounts[n] EXCEPT !.daemon = IF @ = "gone" THEN "failed" ELSE @])
          /\ Goto("configCached") /\ UNCHANGED task
    BY <1>2 DEF NydusCached
  <2>. DEFINE m == [mounts[n] EXCEPT !.daemon = IF @ = "gone" THEN "failed" ELSE @]
  <2>0. mounts[n] \in MountRecord /\ MountHas(mounts[n])
    BY DEF IInv, TypeInv, MountInv
  <2>2. /\ m \in MountRecord /\ m.image = mounts[n].image /\ m.stack = mounts[n].stack
        /\ m.daemon \in {"failed", "served", "gone"} => mounts[n].daemon \in {"failed", "served", "gone"}
    BY <2>0 DEF MountRecord
  <2>3. /\ m.image \in verified /\ Len(m.stack) = Len(Fetched(m.image))
        /\ \A k \in 1..Len(m.stack) :
              Holds(m.stack[k], Fetched(m.image)[Len(m.stack) - k + 1])
        /\ m.daemon \in {"failed", "served", "gone"} => IsNydusImage(m.image)
    BY <2>0, <2>2 DEF MountHas
  <2>4. mounts' = Append(mounts, m)
    BY <2>1
  <2>. HIDE DEF m
  <2>5. /\ mounts' \in Seq(MountRecord) /\ Len(mounts') = Len(mounts) + 1 /\ mounts' # <<>>
        /\ MountInv'
    BY <1>0, <2>2, <2>3, <2>4, MountAdded
  <2>6. pull' = [pull EXCEPT !.pc = "configCached"] /\ task' = task
    BY <2>1 DEF Goto
  <2>7. TypeInv'
    BY <1>0, <2>5, <2>6 DEF IInv, TypeInv
  <2>8. DirInv' /\ StoreInv'
    BY <1>0 DEF IInv, DirInv, StoreInv, StoreHolds, Holds
  <2>9. PhaseInv'
    BY <1>0, <2>5, <2>6 DEF IInv, PhaseInv, TypeInv
  <2>10. TaskInv'
    BY <1>0, <2>6 DEF IInv, PhaseInv, TaskInv
  <2>. QED
    BY <2>5, <2>7, <2>8, <2>9, <2>10 DEF IInv
<1>. QED
  BY <1>1, <1>2

LEMMA ConfigInv == ASSUME IInv, Config PROVE IInv'
<1>1. /\ pull.pc = "config"
      /\ imageDb' = [imageDb EXCEPT ![pull.image] = Stack]
      /\ UNCHANGED <<layerDb, disk, dirs, nextDir, mounts, verified>>
  BY DEF Config, At, fsys
<1>2. /\ pull.image \in Images /\ pull.image \in verified
      /\ Len(task) = Len(Fetched(pull.image)) /\ mounts # <<>>
      /\ \A i \in 1..Len(task) : task[i].pc = "done"
  BY <1>1 DEF IInv, PhaseInv
<1>3. /\ Stack \in Seq(Nat) /\ Len(Stack) = Len(Fetched(pull.image))
      /\ \A k \in 1..Len(Stack) : Holds(Stack[k], Fetched(pull.image)[k])
  BY <1>2, StackHolds
<1>4. /\ imageDb' \in [Images -> Seq(Nat)]
      /\ \A img \in Images : imageDb'[img] = IF img = pull.image THEN Stack ELSE imageDb[img]
  BY <1>1, <1>2, <1>3 DEF IInv, TypeInv
<1>5. StoreHolds(layerDb, imageDb)'
  BY <1>1, <1>2, <1>3, <1>4 DEF IInv, StoreInv, StoreHolds, Holds
<1>6. DirInv' /\ MountInv' /\ StoreInv'
  BY <1>1, <1>5 DEF IInv, DirInv, StoreInv, StoreHolds, MountInv, MountHas, Holds
<1>7. CASE IsNydusImage(pull.image)
  <2>1. pull' = NoPull /\ task' = <<>> /\ answered' = answered \cup {Len(mounts)}
    BY <1>7 DEF Config, Abort
  <2>2. TypeInv'
    BY <1>1, <1>4, <2>1 DEF IInv, TypeInv, NoPull
  <2>3. PhaseInv' /\ TaskInv'
    BY <1>1, <1>2, <2>1, NoneIsNoDaemon DEF IInv, PhaseInv, TypeInv, NoPull, TaskInv
  <2>. QED
    BY <1>6, <2>2, <2>3 DEF IInv
<1>8. CASE ~IsNydusImage(pull.image)
  <2>1. pull' = [pull EXCEPT !.pc = "truncate"] /\ task' = task /\ answered' = answered
    BY <1>8 DEF Config, Goto
  <2>2. TypeInv'
    BY ZenonT(40), <1>1, <1>4, <2>1 DEF IInv, TypeInv
  <2>3. PhaseInv'
    BY <1>1, <1>2, <2>1 DEF IInv, PhaseInv, TypeInv
  <2>4. TaskInv'
    BY <1>1, <1>2, <2>1, DoneKept DEF IInv, TypeInv
  <2>. QED
    BY <1>6, <2>2, <2>3, <2>4 DEF IInv
<1>. QED
  BY <1>7, <1>8

LEMMA TruncateMetaInv == ASSUME IInv, TruncateMeta PROVE IInv'
<1>1. /\ pull.pc = "truncate" /\ pull' = [pull EXCEPT !.pc = "save"] /\ disk' = None
      /\ UNCHANGED <<task, layerDb, imageDb, dirs, nextDir, mounts, answered, verified>>
  BY DEF TruncateMeta, At, Goto, store
<1>2. TypeInv' /\ PhaseInv'
  BY <1>1 DEF IInv, TypeInv, PhaseInv
<1>3. DirInv' /\ StoreInv' /\ MountInv'
  BY <1>1 DEF IInv, DirInv, StoreInv, StoreHolds, MountInv, MountHas, Holds
<1>4. TaskInv'
  BY <1>1, DoneKept DEF IInv, TypeInv, PhaseInv
<1>. QED
  BY <1>2, <1>3, <1>4 DEF IInv

LEMMA SaveMetaInv == ASSUME IInv, SaveMeta PROVE IInv'
<1>1. /\ pull.pc = "save" /\ pull' = NoPull /\ task' = <<>>
      /\ disk' = [layers |-> layerDb, images |-> imageDb]
      /\ answered' = answered \cup {Len(mounts)}
      /\ UNCHANGED <<layerDb, imageDb, dirs, nextDir, mounts, verified>>
  BY DEF SaveMeta, At, Abort, store
<1>2. TypeInv' /\ PhaseInv'
  BY <1>1, NoneIsNoDaemon DEF IInv, TypeInv, PhaseInv, LayerStore, NoPull
<1>3. DirInv' /\ StoreInv' /\ MountInv'
  BY <1>1 DEF IInv, DirInv, StoreInv, StoreHolds, MountInv, MountHas, Holds
<1>4. TaskInv'
  BY <1>1 DEF TaskInv
<1>. QED
  BY <1>2, <1>3, <1>4 DEF IInv

\* The counter a new client starts with is above every directory there is.
LEMMA NextLayerIndexFresh ==
    ASSUME TypeInv, DirInv
    PROVE  NextLayerIndex \in Nat /\ \A d \in DOMAIN dirs : d < NextLayerIndex
<1>1. CASE DOMAIN dirs = {}
  BY <1>1 DEF NextLayerIndex
<1>2. CASE DOMAIN dirs # {}
  <2>1. DOMAIN dirs \in SUBSET Nat /\ nextDir \in Nat /\ \A d \in DOMAIN dirs : d < nextDir
    BY DEF TypeInv, DirInv
  <2>2. \E m \in DOMAIN dirs : \A d \in DOMAIN dirs : d <= m
    BY <1>2, <2>1, GreatestNatural
  <2>3. MaxDir \in DOMAIN dirs /\ \A d \in DOMAIN dirs : d <= MaxDir
    BY <2>2 DEF MaxDir
  <2>. QED
    BY <1>2, <2>1, <2>3 DEF NextLayerIndex
<1>. QED
  BY <1>1, <1>2

\* A restart reads the file's store, and leaves directories and mounts.
LEMMA RestartMounts ==
    ASSUME IInv, Restart
    PROVE  /\ mounts' \in Seq(MountRecord) /\ Len(mounts') = Len(mounts)
           /\ \A m \in 1..Len(mounts) :
                 /\ mounts'[m].image = mounts[m].image
                 /\ mounts'[m].stack = mounts[m].stack
                 /\ mounts'[m].daemon = "failed" <=> mounts[m].daemon = "failed"
                 /\ mounts'[m].daemon \in {"failed", "served", "gone"}
                       => mounts[m].daemon \in {"failed", "served", "gone"}
<1>. DEFINE r(m) == [mounts[m] EXCEPT !.daemon = IF @ = "served" THEN "gone" ELSE @]
<1>1. mounts \in Seq(MountRecord) /\ Len(mounts) \in Nat
  BY DEF IInv, TypeInv
<1>2. ASSUME NEW m \in 1..Len(mounts)
      PROVE  /\ r(m) \in MountRecord
             /\ r(m).image = mounts[m].image /\ r(m).stack = mounts[m].stack
             /\ r(m).daemon = "failed" <=> mounts[m].daemon = "failed"
             /\ r(m).daemon \in {"failed", "served", "gone"}
                   => mounts[m].daemon \in {"failed", "served", "gone"}
  <2>1. mounts[m] \in MountRecord
    BY <1>1
  <2>. QED
    BY <2>1 DEF MountRecord
<1>3. mounts' = [m \in 1..Len(mounts) |-> r(m)]
  BY DEF Restart
<1>. HIDE DEF r
<1>4. mounts' \in Seq(MountRecord) /\ Len(mounts') = Len(mounts)
  BY <1>1, <1>2, <1>3
<1>. QED
  BY <1>2, <1>3, <1>4

LEMMA RestartInv == ASSUME IInv, Restart PROVE IInv'
<1>. DEFINE saved == IF disk = None THEN EmptyStore ELSE disk
<1>1. /\ pull' = NoPull /\ task' = <<>> /\ nextDir' = NextLayerIndex
      /\ layerDb' = saved.layers /\ imageDb' = saved.images
      /\ UNCHANGED <<disk, dirs, answered, verified>>
  BY DEF Restart
<1>2. /\ mounts' \in Seq(MountRecord) /\ Len(mounts') = Len(mounts)
      /\ \A m \in 1..Len(mounts) :
            /\ mounts'[m].image = mounts[m].image /\ mounts'[m].stack = mounts[m].stack
            /\ mounts'[m].daemon \in {"failed", "served", "gone"}
                  => mounts[m].daemon \in {"failed", "served", "gone"}
  BY RestartMounts
<1>3. saved \in LayerStore /\ StoreHolds(saved.layers, saved.images)
  <2>1. EmptyStore \in LayerStore /\ StoreHolds(EmptyStore.layers, EmptyStore.images)
    BY DEF EmptyStore, LayerStore, StoreHolds
  <2>. QED
    BY <2>1 DEF IInv, TypeInv, StoreInv
<1>. HIDE DEF saved
<1>4. DirInv' /\ NextLayerIndex \in Nat
  BY <1>1, NextLayerIndexFresh DEF IInv, DirInv
<1>5. layerDb' \in [Digests -> Nat \cup {None}] /\ imageDb' \in [Images -> Seq(Nat)]
  BY <1>1, <1>3 DEF LayerStore
<1>6. TypeInv'
  BY <1>1, <1>2, <1>4, <1>5 DEF IInv, TypeInv, NoPull
<1>7. PhaseInv' /\ TaskInv'
  BY <1>1, <1>2, NoneIsNoDaemon DEF IInv, PhaseInv, NoPull, TaskInv
<1>8. StoreInv'
  BY <1>1, <1>3 DEF IInv, StoreInv, StoreHolds, Holds
<1>9. MountInv'
  BY <1>1, <1>2 DEF IInv, MountInv, MountHas, Holds
<1>. QED
  BY <1>4, <1>6, <1>7, <1>8, <1>9 DEF IInv

LEMMA NextInv == ASSUME IInv, [Next]_vars PROVE IInv'
<1>1. ASSUME NEW img \in Images, Start(img) PROVE IInv'
  BY <1>1, StartInv
<1>2. CASE Run
  BY <1>2, ManifestInv, CheckSignatureInv, LayersDoneInv, StartDaemonInv, CreateBundleInv,
     NydusCachedInv, ConfigCachedInv, ConfigInv, TruncateMetaInv, SaveMetaInv DEF Run
<1>3. CASE EarlyError \/ BundleError \/ SaveError
  BY <1>3, ErrorInv
<1>4. CASE Restart
  BY <1>4, RestartInv
<1>5. ASSUME NEW i \in DOMAIN task, Layer(i) \/ LayerError(i) PROVE IInv'
  BY <1>5, StartTaskInv, OpenLayerInv, UnpackInv, VerifyInv, LayerErrorInv DEF Layer
<1>6. CASE UNCHANGED vars
  BY <1>6 DEF vars, IInv, TypeInv, DirInv, PhaseInv, StoreInv, StoreHolds, MountInv, MountHas,
              TaskInv, TaskHas, Writing, Named, NamedIn, Holds
<1>. QED
  BY <1>1, <1>2, <1>3, <1>4, <1>5, <1>6 DEF Next

LEMMA InvHolds == Spec => []IInv
<1>1. Init => IInv
  BY InitInv
<1>2. IInv /\ [Next]_vars => IInv'
  BY NextInv
<1>. QED
  BY <1>1, <1>2, PTL DEF Spec

-----------------------------------------------------------------------------
(* What follows.                                                            *)

\* Directories that hold the layers of s show s.
LEMMA ContentsAre ==
    ASSUME NEW stack \in Seq(Nat), NEW s \in Seq(Digests), Len(stack) = Len(s),
           \A k \in 1..Len(stack) : Holds(stack[k], s[k])
    PROVE  Contents(stack) = s
<1>1. Len(s) \in Nat /\ s = [k \in 1..Len(s) |-> s[k]]
  OBVIOUS
<1>2. \A k \in 1..Len(s) : Content(stack[k]) = s[k]
  BY DEF Content, Holds
<1>3. Contents(stack) = [k \in 1..Len(s) |-> Content(stack[k])]
  BY DEF Contents
<1>. QED
  BY <1>1, <1>2, <1>3

LEMMA ReversedSeq ==
    ASSUME NEW S, NEW s \in Seq(S)
    PROVE  /\ Reversed(s) \in Seq(S) /\ Len(Reversed(s)) = Len(s)
           /\ \A k \in 1..Len(s) : Reversed(s)[k] = s[Len(s) - k + 1]
           /\ Reversed(Reversed(s)) = s
<1>1. Len(s) \in Nat /\ s = [k \in 1..Len(s) |-> s[k]]
  OBVIOUS
<1>2. /\ Reversed(s) \in Seq(S) /\ Len(Reversed(s)) = Len(s)
      /\ \A k \in 1..Len(s) : Reversed(s)[k] = s[Len(s) - k + 1]
  BY DEF Reversed
<1>3. \A k \in 1..Len(s) : /\ Len(s) - k + 1 \in 1..Len(s)
                            /\ Reversed(s)[Len(s) - k + 1] = s[k]
  BY <1>1, <1>2
<1>4. Reversed(Reversed(s)) = [k \in 1..Len(s) |-> Reversed(s)[Len(s) - k + 1]]
  BY <1>2 DEF Reversed
<1>5. Reversed(Reversed(s)) = [k \in 1..Len(s) |-> s[k]]
  BY <1>3, <1>4
<1>. QED
  BY <1>1, <1>2, <1>5

LEMMA StoreSound ==
    ASSUME NEW s \in LayerStore, StoreHolds(s.layers, s.images)
    PROVE  SoundStore(s)
<1>1. ASSUME NEW d \in Digests, s.layers[d] # None PROVE Content(s.layers[d]) = d
  BY <1>1 DEF StoreHolds, Holds, Content
<1>2. ASSUME NEW img \in Images, s.images[img] # <<>>
      PROVE  Abstract!Shows(Contents(s.images[img]), Listed(img))
  <2>1. s.images[img] \in Seq(Nat)
    BY DEF LayerStore
  <2>2. Contents(s.images[img]) = Fetched(img)
    BY <1>2, <2>1, FetchedType, ContentsAre DEF StoreHolds
  <2>. QED
    BY <2>2, FetchedShows
<1>. QED
  BY <1>1, <1>2 DEF SoundStore

LEMMA StacksShow ==
    ASSUME IInv, NEW m \in 1..Len(mounts)
    PROVE  /\ mounts[m].image \in Images /\ mounts[m].image \in Trusted
           /\ mounts[m].daemon = "failed" => IsNydusImage(mounts[m].image)
           /\ Contents(mounts[m].stack) = Reversed(Fetched(mounts[m].image))
           /\ Reversed(Contents(mounts[m].stack)) = Fetched(mounts[m].image)
<1>. DEFINE img == mounts[m].image
            stack == mounts[m].stack
            f == Fetched(img)
<1>1. mounts[m] \in MountRecord /\ MountHas(mounts[m]) /\ verified \subseteq Trusted
  BY DEF IInv, TypeInv, MountInv, PhaseInv
<1>2. img \in Images /\ stack \in Seq(Nat)
  BY <1>1 DEF MountRecord
<1>3. /\ img \in verified /\ Len(stack) = Len(f)
      /\ \A k \in 1..Len(stack) : Holds(stack[k], f[Len(stack) - k + 1])
  BY <1>1 DEF MountHas
<1>4. f \in Seq(Digests)
  BY <1>2, FetchedType
<1>. HIDE DEF f
<1>5. /\ Reversed(f) \in Seq(Digests) /\ Len(Reversed(f)) = Len(f)
      /\ \A k \in 1..Len(f) : Reversed(f)[k] = f[Len(f) - k + 1]
      /\ Reversed(Reversed(f)) = f
  BY <1>4, ReversedSeq
<1>6. Contents(stack) = Reversed(f)
  BY SMTT(30), <1>2, <1>3, <1>5, ContentsAre
<1>. QED
  BY <1>1, <1>2, <1>3, <1>5, <1>6 DEF f, MountHas

\* layer_db, image_db and meta_store.json name verified layers only: a dropped
\* task, a retry that removes its directory, a failed bundle, a truncated
\* file and a restart that counts directories anew leave what they name alone.
THEOREM LayerStoreSound == Spec => []LayerDbSound
<1>1. IInv => LayerDbSound
  <2>. SUFFICES ASSUME IInv PROVE LayerDbSound
    OBVIOUS
  <2>1. [layers |-> layerDb, images |-> imageDb] \in LayerStore
    BY DEF IInv, TypeInv, LayerStore
  <2>2. SoundStore([layers |-> layerDb, images |-> imageDb])
    BY <2>1, StoreSound DEF IInv, StoreInv
  <2>3. disk # None => SoundStore(disk)
    BY StoreSound DEF IInv, StoreInv, TypeInv
  <2>. QED
    BY <2>2, <2>3 DEF LayerDbSound
<1>. QED
  BY <1>1, InvHolds, PTL

\* create_bundle's mounts have the layers that the manifest lists in its order,
\* as far as it repeats none, and no later pull, failure or restart changes
\* what they show.
THEOREM MountsStayIntact == Spec => []MountsIntact
<1>1. IInv => MountsIntact
  BY StacksShow, FetchedShows DEF MountsIntact
<1>. QED
  BY <1>1, InvHolds, PTL

\* A bundle is made only of an image that check_image_signature accepted, also
\* when it comes out of image_db after a restart.
THEOREM MountsAreVerified == Spec => []MountsVerified
<1>1. IInv => MountsVerified
  BY DEF IInv, MountInv, MountHas, MountsVerified
<1>. QED
  BY <1>1, InvHolds, PTL

-----------------------------------------------------------------------------
(* pull_image implements ImageStore.                                        *)

\* What a bundle that was handed out shows, in the invariant's terms.
Shown(n) ==
    [image |-> mounts[n].image,
     rootfs |-> IF mounts[n].daemon = "failed" THEN <<>> ELSE Fetched(mounts[n].image)]

LEMMA BundlesShow == IInv => Bundles = {Shown(n) : n \in answered}
<1>. SUFFICES ASSUME IInv PROVE \A n \in answered : Bundle(n) = Shown(n)
  BY DEF Bundles
<1>1. answered \subseteq 1..Len(mounts)
  BY DEF IInv, PhaseInv
<1>. QED
  BY <1>1, StacksShow DEF Bundle, Shown

\* A step that answers no mount, and changes of the mounts only the daemons'
\* state, hands nothing out.
LEMMA NoneHanded ==
    ASSUME IInv, IInv', answered' = answered,
           \A n \in 1..Len(mounts) :
              /\ mounts'[n].image = mounts[n].image
              /\ mounts'[n].daemon = "failed" <=> mounts[n].daemon = "failed"
    PROVE  Bundles' = Bundles
<1>1. answered \subseteq 1..Len(mounts)
  BY DEF IInv, PhaseInv
<1>2. \A n \in answered : Shown(n)' = Shown(n)
  BY <1>1 DEF Shown
<1>3. (IInv => Bundles = {Shown(n) : n \in answered})'
  BY BundlesShow, PTL
<1>4. Bundles' = {Shown(n)' : n \in answered'}
  BY <1>3
<1>5. Bundles = {Shown(n) : n \in answered}
  BY BundlesShow
<1>. QED
  BY <1>2, <1>4, <1>5

\* What may be handed out of an image: what its manifest lists, or nothing if
\* its nydus daemon failed.
Rootfs(img, rootfs) ==
    Abstract!Shows(rootfs, Listed(img)) \/ (IsNydusImage(img) /\ rootfs = <<>>)
HandsOut ==
    \E img \in Images : \E b :
        /\ img \in Trusted /\ b.image = img /\ Rootfs(img, b.rootfs)
        /\ Bundles' = Bundles \cup {b}

\* A step that answers the last mount hands out its image's layers, or, when
\* its nydus daemon failed, an empty bundle.
LEMMA LastHanded ==
    ASSUME IInv, IInv', mounts # <<>>, answered' = answered \cup {Len(mounts)}, mounts' = mounts
    PROVE  HandsOut
<1>. DEFINE l == Len(mounts)
            img == mounts[l].image
<1>1. l \in 1..Len(mounts)
  BY DEF IInv, TypeInv
<1>2. img \in Images /\ img \in Trusted /\ (mounts[l].daemon = "failed" => IsNydusImage(img))
  BY <1>1, StacksShow
<1>. HIDE DEF l
<1>3. \A n : Shown(n)' = Shown(n)
  BY DEF Shown
<1>4. Bundles' = {Shown(n)' : n \in answered \cup {l}}
  <2>1. (IInv => Bundles = {Shown(n) : n \in answered})'
    BY BundlesShow, PTL
  <2>. QED
    BY <2>1 DEF l
<1>5. Bundles = {Shown(n) : n \in answered}
  BY BundlesShow
<1>6. Bundles' = Bundles \cup {Shown(l)}
  BY <1>3, <1>4, <1>5
<1>7. PICK b : b = Shown(l)
  OBVIOUS
<1>8. b.image = img /\ b.rootfs = IF mounts[l].daemon = "failed" THEN <<>> ELSE Fetched(img)
  BY <1>7 DEF Shown
<1>9. Rootfs(img, b.rootfs)
  BY <1>2, <1>8, FetchedShows DEF Rootfs
<1>. QED
  BY <1>2, <1>6, <1>7, <1>8, <1>9 DEF HandsOut

LEMMA StepHandsOut ==
    ASSUME IInv, IInv', [Next]_vars
    PROVE  Bundles' = Bundles \/ HandsOut
<1>1. CASE ConfigCached \/ Config \/ SaveMeta
  <2>1. mounts # <<>> /\ mounts' = mounts
    BY <1>1 DEF ConfigCached, Config, SaveMeta, At, fsys, IInv, PhaseInv
  <2>2. answered' = answered \/ answered' = answered \cup {Len(mounts)}
    BY <1>1 DEF ConfigCached, Config, SaveMeta
  <2>. QED
    BY <2>1, <2>2, NoneHanded, LastHanded
<1>2. CASE Restart
  <2>1. answered' = answered
    BY <1>2 DEF Restart
  <2>. QED
    BY <1>2, <2>1, RestartMounts, NoneHanded
<1>3. CASE CreateBundle \/ NydusCached
  <2>1. answered' = answered
    BY <1>3 DEF CreateBundle, Mount, NydusCached
  <2>2. mounts' = mounts \/ \E m : mounts' = Append(mounts, m)
    BY <1>3 DEF CreateBundle, Mount, NydusCached
  <2>3. \A n \in 1..Len(mounts) : mounts'[n] = mounts[n]
    BY <2>2 DEF IInv, TypeInv
  <2>. QED
    BY <2>1, <2>3, NoneHanded
<1>4. CASE ~(ConfigCached \/ Config \/ SaveMeta \/ Restart \/ CreateBundle \/ NydusCached)
  <2>1. UNCHANGED <<mounts, answered>>
    <3>1. ASSUME NEW img \in Images, Start(img) PROVE UNCHANGED <<mounts, answered>>
      BY <3>1 DEF Start, fsys
    <3>2. CASE Run
      BY <1>4, <3>2 DEF Run, Manifest, CheckSignature, LayersDone, StartDaemon, TruncateMeta, fsys
    <3>3. CASE EarlyError \/ BundleError \/ SaveError
      BY <3>3 DEF EarlyError, BundleError, SaveError, fsys
    <3>4. ASSUME NEW i \in DOMAIN task, Layer(i) \/ LayerError(i)
          PROVE  UNCHANGED <<mounts, answered>>
      BY <3>4 DEF Layer, StartTask, OpenLayer, Unpack, Verify, LayerError, fsys
    <3>5. CASE UNCHANGED vars
      BY <3>5 DEF vars
    <3>. QED
      BY <1>4, <3>1, <3>2, <3>3, <3>4, <3>5 DEF Next
  <2>. QED
    BY <2>1, NoneHanded
<1>. QED
  BY <1>1, <1>2, <1>3, <1>4

\* pull_image keeps what ImageStore says of it: with layers pulled concurrently,
\* cached, retried, and the process ending anywhere, every bundle it hands out
\* is the root file system that the manifest of an image lists, as far as it
\* repeats no layer, or an empty one of a nydus image whose daemon failed; the
\* policy accepts the image, and what was handed out stays.
THEOREM PullImplementsStore == Spec => ImplementsImageStore
<1>1. Init => Abstract!Init
  BY DEF Init, Abstract!Init, Bundles
<1>2. IInv /\ IInv' /\ [Next]_vars => [Abstract!Next]_Bundles
  <2>. SUFFICES ASSUME IInv, IInv', [Next]_vars, Bundles' # Bundles
                PROVE  \E img \in Images : Abstract!HandOut(img)
    BY DEF Abstract!Next
  <2>0. PICK img \in Images :
          \E b : /\ img \in Trusted /\ b.image = img /\ Rootfs(img, b.rootfs)
                /\ Bundles' = Bundles \cup {b}
    BY StepHandsOut DEF HandsOut
  <2>1. PICK b : /\ img \in Trusted /\ b.image = img /\ Rootfs(img, b.rootfs)
                 /\ Bundles' = Bundles \cup {b}
    BY <2>0
  <2>2. b \in Bundles' /\ [i \in Images |-> Listed(i)][img] = Listed(img)
    BY <2>1
  <2>3. Abstract!HandOut(img)
    BY <2>1, <2>2 DEF Abstract!HandOut, Rootfs, IsNydusImage
  <2>. QED
    BY <2>3
<1>. QED
  BY <1>1, <1>2, InvHolds, PTL DEF Spec, ImplementsImageStore, Abstract!Spec
=============================================================================

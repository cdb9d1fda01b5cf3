------------------------ MODULE LayerPipelineProofs -------------------------
(***************************************************************************)
(* Proofs about LayerPipeline, for every archive, every image below it and *)
(* whatever the registry does to the bytes.                                *)
(***************************************************************************)
EXTENDS LayerPipeline, SequenceTheorems, WellFoundedInduction, TLAPS

-----------------------------------------------------------------------------
(* Paths.                                                                   *)

Paths == Seq(Names) \ {<<>>}

\* What SubSeq gives, from the beginning of a path.
LEMMA Beginning ==
    ASSUME NEW p \in Seq(Names), NEW n \in 0..Len(p)
    PROVE  /\ SubSeq(p, 1, n) \in Seq(Names) /\ Len(SubSeq(p, 1, n)) = n
           /\ \A i \in 1..n : SubSeq(p, 1, n)[i] = p[i]
<1>1. Len(p) \in Nat /\ n \in Nat /\ n <= Len(p)
  OBVIOUS
<1>2. SubSeq(p, 1, n) \in Seq(Names)
  <2>1. \A i \in 1..n : p[i] \in Names
    BY <1>1
  <2>. QED
    BY <1>1, <2>1, SubSeqProperties
<1>3. Len(SubSeq(p, 1, n)) = n
  BY <1>1, SubSeqProperties
<1>4. \A i \in 1..n : SubSeq(p, 1, n)[i] = p[i]
  BY <1>1, SubSeqProperties
<1>. QED
  BY <1>2, <1>3, <1>4

\* A beginning of a beginning.
LEMMA BeginningTwice ==
    ASSUME NEW p \in Seq(Names), NEW n \in 0..Len(p), NEW m \in 0..n
    PROVE  SubSeq(SubSeq(p, 1, n), 1, m) = SubSeq(p, 1, m)
<1>. DEFINE q == SubSeq(p, 1, n)
<1>1. /\ q \in Seq(Names) /\ Len(q) = n /\ \A i \in 1..n : q[i] = p[i]
  BY Beginning
<1>2. Len(p) \in Nat /\ n \in Nat /\ m \in Nat /\ n <= Len(p) /\ m <= n
  OBVIOUS
<1>3. m \in 0..Len(p) /\ m \in 0..Len(q)
  BY <1>1, <1>2
<1>. HIDE DEF q
<1>4. /\ SubSeq(q, 1, m) \in Seq(Names) /\ Len(SubSeq(q, 1, m)) = m
      /\ \A i \in 1..m : SubSeq(q, 1, m)[i] = q[i]
  BY <1>1, <1>3, Beginning
<1>5. /\ SubSeq(p, 1, m) \in Seq(Names) /\ Len(SubSeq(p, 1, m)) = m
      /\ \A i \in 1..m : SubSeq(p, 1, m)[i] = p[i]
  BY <1>3, Beginning
<1>6. \A i \in 1..m : SubSeq(q, 1, m)[i] = SubSeq(p, 1, m)[i]
  BY <1>1, <1>2, <1>4, <1>5
<1>7. SubSeq(q, 1, m) = SubSeq(p, 1, m)
  BY <1>4, <1>5, <1>6, SeqEqual
<1>. QED
  BY <1>7 DEF q

\* What is above a path is a shorter path, and so is what is above that.
LEMMA AncestorsArePaths ==
    ASSUME NEW p \in Paths, NEW q \in Ancestors(p)
    PROVE  q \in Paths /\ q # p /\ Ancestors(q) \subseteq Ancestors(p)
<1>1. PICK n \in 1..(Len(p) - 1) : q = SubSeq(p, 1, n)
  BY DEF Ancestors
<1>2. p \in Seq(Names) /\ Len(p) \in Nat /\ n \in Nat /\ n >= 1 /\ n < Len(p) /\ n \in 0..Len(p)
  BY DEF Paths
<1>3. q \in Seq(Names) /\ Len(q) = n
  BY <1>1, <1>2, Beginning
<1>4. q # <<>> /\ q # p
  BY <1>2, <1>3
<1>5. ASSUME NEW r \in Ancestors(q) PROVE r \in Ancestors(p)
  <2>1. PICK m \in 1..(Len(q) - 1) : r = SubSeq(q, 1, m)
    BY DEF Ancestors
  <2>2. m \in 0..n /\ m \in 1..(Len(p) - 1)
    BY <2>1, <1>2, <1>3
  <2>3. r = SubSeq(p, 1, m)
    BY <2>1, <2>2, <1>1, <1>2, BeginningTwice
  <2>. QED
    BY <2>2, <2>3 DEF Ancestors
<1>. QED
  BY <1>3, <1>4, <1>5 DEF Paths

\* The parent of a path is the root, or above it, with all that is above the
\* path but itself.
LEMMA ParentIsAbove ==
    ASSUME NEW p \in Paths
    PROVE  /\ Len(p) = 1 => Ancestors(p) = {} /\ Parent(p) = <<>>
           /\ Len(p) # 1 => /\ Parent(p) \in Paths /\ Parent(p) \in Ancestors(p)
                            /\ Ancestors(p) = Ancestors(Parent(p)) \cup {Parent(p)}
           /\ Parent(p) # p /\ Parent(p) \in Seq(Names)
<1>1. p \in Seq(Names) /\ p # <<>> /\ Len(p) \in Nat /\ Len(p) >= 1 /\ Len(p) - 1 \in 0..Len(p)
  BY DEF Paths
<1>2. Parent(p) \in Seq(Names) /\ Len(Parent(p)) = Len(p) - 1
  BY <1>1, Beginning DEF Parent
<1>3. Parent(p) # p
  BY <1>1, <1>2
<1>4. CASE Len(p) = 1
  <2>1. Ancestors(p) = {}
    BY <1>4 DEF Ancestors
  <2>2. Parent(p) = <<>>
    BY <1>2, <1>4
  <2>. QED
    BY <2>1, <2>2, <1>2, <1>3, <1>4
<1>5. CASE Len(p) # 1
  <2>1. Parent(p) \in Paths
    BY <1>1, <1>2, <1>5 DEF Paths
  <2>2. Parent(p) \in Ancestors(p)
    <3>0. \A n \in Nat : n >= 1 /\ n # 1 => n - 1 \in 1..(n - 1)
      OBVIOUS
    <3>1. Len(p) - 1 \in 1..(Len(p) - 1)
      BY <3>0, <1>1, <1>5
    <3>. QED
      BY <3>1 DEF Ancestors, Parent
  <2>3. Ancestors(Parent(p)) \subseteq Ancestors(p)
    BY <2>2, AncestorsArePaths
  <2>4. ASSUME NEW q \in Ancestors(p), q # Parent(p) PROVE q \in Ancestors(Parent(p))
    <3>1. PICK n \in 1..(Len(p) - 1) : q = SubSeq(p, 1, n)
      BY DEF Ancestors
    <3>2. n # Len(p) - 1
      BY <3>1, <2>4 DEF Parent
    <3>3. n \in 1..(Len(Parent(p)) - 1) /\ n \in 0..(Len(p) - 1)
      BY <3>1, <3>2, <1>1, <1>2
    <3>4. q = SubSeq(Parent(p), 1, n)
      BY <3>1, <3>3, <1>1, BeginningTwice DEF Parent
    <3>. QED
      BY <3>3, <3>4 DEF Ancestors
  <2>. QED
    BY <2>1, <2>2, <2>3, <2>4, <1>2, <1>3, <1>5
<1>. QED
  BY <1>4, <1>5

\* A whiteout and what it hides are in one directory.
LEMMA TargetIsBeside ==
    ASSUME NEW p \in Paths, IsWhiteout(FileName(p))
    PROVE  Target(p) \in Paths /\ Parent(Target(p)) = Parent(p)
<1>. DEFINE s == Parent(p)
            x == Stripped[FileName(p)]
            t == Append(s, x)
<1>1. s \in Seq(Names) /\ Len(s) \in Nat
  BY ParentIsAbove
<1>2. x \in Names
  BY LayerPipelineAssumption DEF IsWhiteout
<1>. HIDE DEF s, x
<1>3. t \in Seq(Names) /\ Len(t) = Len(s) + 1 /\ \A i \in 1..Len(s) : t[i] = s[i]
  BY <1>1, <1>2
<1>4. t # <<>>
  BY <1>1, <1>3
<1>5. SubSeq(t, 1, Len(s)) = s
  <2>1. Len(s) \in 0..Len(t)
    BY <1>1, <1>3
  <2>2. /\ SubSeq(t, 1, Len(s)) \in Seq(Names) /\ Len(SubSeq(t, 1, Len(s))) = Len(s)
        /\ \A i \in 1..Len(s) : SubSeq(t, 1, Len(s))[i] = t[i]
    BY <2>1, <1>3, Beginning
  <2>3. \A i \in 1..Len(s) : SubSeq(t, 1, Len(s))[i] = s[i]
    BY <2>2, <1>3
  <2>. QED
    BY <2>2, <2>3, <1>1, SeqEqual
<1>6. Len(t) - 1 = Len(s)
  BY <1>1, <1>3
<1>7. Parent(t) = s
  BY <1>5, <1>6 DEF Parent
<1>8. Target(p) = t
  BY DEF Target, s, x
<1>. QED
  BY <1>3, <1>4, <1>7, <1>8 DEF Paths, s

-----------------------------------------------------------------------------
(* Trees.                                                                   *)

\* A tree of nodes, in which everything is in a directory.
NodeKinds == Kinds \cup {"whiteout"}
Nodes == [kind : NodeKinds, opaque : BOOLEAN, mtime : BOOLEAN, perms : BOOLEAN]
IsTree(t) ==
    /\ t = [p \in DOMAIN t |-> t[p]]
    /\ DOMAIN t \subseteq Paths
    /\ \A p \in DOMAIN t : t[p] \in Nodes
    /\ \A p \in DOMAIN t : \A q \in Ancestors(p) : q \in DOMAIN t /\ t[q].kind = "dir"

\* What an entry leaves as it was: everything but the mtime of a directory.
Kept(t, u, p) ==
    /\ u[p].kind = t[p].kind /\ u[p].opaque = t[p].opaque /\ u[p].perms = t[p].perms
    /\ u[p].mtime = t[p].mtime \/ t[p].kind = "dir"

\* A new node is a node.
LEMMA NodeType ==
    ASSUME NEW kind \in NodeKinds, NEW restored \in BOOLEAN
    PROVE  /\ Node(kind, restored) \in Nodes
           /\ Node(kind, restored).kind = kind /\ Node(kind, restored).opaque = FALSE
           /\ Node(kind, restored).mtime = restored /\ Node(kind, restored).perms = restored
<1>1. FALSE \in BOOLEAN
  OBVIOUS
<1>. QED
  BY <1>1 DEF Node, Nodes

LEMMA DirNode ==
    /\ Node("dir", FALSE) \in Nodes
    /\ Node("dir", FALSE).kind = "dir" /\ Node("dir", FALSE).opaque = FALSE
<1>1. FALSE \in BOOLEAN /\ "dir" \in NodeKinds
  BY DEF NodeKinds, Kinds
<1>. QED
  BY <1>1 DEF Node, Nodes

\* The directory of a path in a tree is a directory.
LEMMA PutTree ==
    ASSUME NEW t, IsTree(t), NEW path \in Paths, NEW node \in Nodes,
           \A q \in Ancestors(path) : q \in DOMAIN t /\ t[q].kind = "dir",
           path \in DOMAIN t => t[path].kind # "dir"
    PROVE  LET u == Put(t, path, node)
           IN /\ IsTree(u) /\ DOMAIN u = DOMAIN t \cup {path} /\ u[path] = node
              /\ \A p \in DOMAIN t \ {path} : Kept(t, u, p)
<1>. DEFINE u == Put(t, path, node)
<1>1. DOMAIN u = DOMAIN t \cup {path} /\ u[path] = node /\ u = [p \in DOMAIN u |-> u[p]]
  BY DEF Put
<1>2. ASSUME NEW p \in DOMAIN t \ {path} PROVE Kept(t, u, p) /\ u[p] \in Nodes
  <2>1. t[p] \in Nodes
    BY DEF IsTree
  <2>2. CASE p = Parent(path) /\ path \notin DOMAIN t
    <3>1. u[p] = [t[p] EXCEPT !.mtime = FALSE]
      BY <2>2 DEF Put
    <3>2. Len(path) # 1
      <4>1. p # <<>>
        BY DEF IsTree, Paths
      <4>. QED
        BY <4>1, <2>2, ParentIsAbove
    <3>3. t[p].kind = "dir"
      BY <2>2, <3>2, ParentIsAbove
    <3>. QED
      BY <2>1, <3>1, <3>3 DEF Kept, Nodes
  <2>3. CASE ~(p = Parent(path) /\ path \notin DOMAIN t)
    <3>1. u[p] = t[p]
      BY <2>3 DEF Put
    <3>. QED
      BY <2>1, <3>1 DEF Kept
  <2>. QED
    BY <2>2, <2>3
<1>. HIDE DEF u
<1>3. ASSUME NEW p \in DOMAIN u, NEW q \in Ancestors(p) PROVE q \in DOMAIN u /\ u[q].kind = "dir"
  <2>1. q \in DOMAIN t /\ t[q].kind = "dir"
    BY <1>1 DEF IsTree
  <2>2. q # path
    BY <2>1
  <2>. QED
    BY <2>1, <2>2, <1>1, <1>2 DEF Kept
<1>4. IsTree(u)
  <2>1. DOMAIN u \subseteq Paths
    BY <1>1 DEF IsTree
  <2>2. \A p \in DOMAIN u : u[p] \in Nodes
    BY <1>1, <1>2
  <2>. QED
    BY <1>1, <1>3, <2>1, <2>2 DEF IsTree
<1>. QED
  BY <1>1, <1>2, <1>4 DEF u

\* set_perms_ownerships touches the one node.
Owned(t, u, path) ==
    /\ DOMAIN u = DOMAIN t
    /\ u[path].kind = t[path].kind /\ u[path].opaque = t[path].opaque /\ u[path].perms = TRUE
    /\ \A p \in DOMAIN t \ {path} : u[p] = t[p]
LEMMA SetPermsTree ==
    ASSUME NEW t, IsTree(t), NEW path \in DOMAIN t
    PROVE  /\ IsTree(SetPermsOwnerships(t, path))
           /\ Owned(t, SetPermsOwnerships(t, path), path)
<1>. DEFINE u == SetPermsOwnerships(t, path)
<1>1. t[path] \in Nodes
  BY DEF IsTree
<1>2. DOMAIN u = DOMAIN t /\ u = [p \in DOMAIN u |-> u[p]] /\ \A p \in DOMAIN t \ {path} : u[p] = t[p]
  BY DEF SetPermsOwnerships, IsTree
<1>3. u[path] = [t[path] EXCEPT !.perms = TRUE, !.mtime = FALSE]
  BY <1>1 DEF SetPermsOwnerships, IsTree, Nodes
<1>. HIDE DEF u
<1>4. u[path] \in Nodes /\ u[path].kind = t[path].kind /\ u[path].opaque = t[path].opaque /\ u[path].perms = TRUE
  BY <1>1, <1>3 DEF Nodes
<1>5. \A p \in DOMAIN t : u[p].kind = t[p].kind
  BY <1>2, <1>4
<1>6. \A p \in DOMAIN u : u[p] \in Nodes
  BY <1>2, <1>4 DEF IsTree
<1>7. IsTree(u)
  BY <1>2, <1>5, <1>6 DEF IsTree
<1>. QED
  BY <1>2, <1>4, <1>7 DEF u, Owned

\* The missing parents become directories.
LEMMA ParentsTree ==
    ASSUME NEW t, IsTree(t), NEW path \in Paths,
           \A q \in Ancestors(path) : Parents(t, path)[q].kind = "dir"
    PROVE  LET u == Parents(t, path)
           IN /\ IsTree(u) /\ DOMAIN u = DOMAIN t \cup Ancestors(path)
              /\ \A p \in DOMAIN t : u[p] = t[p]
              /\ \A p \in Ancestors(path) \ DOMAIN t : u[p] = Node("dir", FALSE)
<1>. DEFINE u == Parents(t, path)
<1>1. /\ DOMAIN u = DOMAIN t \cup Ancestors(path) /\ u = [p \in DOMAIN u |-> u[p]]
      /\ \A p \in DOMAIN t : u[p] = t[p]
      /\ \A p \in Ancestors(path) \ DOMAIN t : u[p] = Node("dir", FALSE)
  BY DEF Parents
<1>2. \A q \in Ancestors(path) : u[q].kind = "dir"
  OBVIOUS
<1>. HIDE DEF u
<1>3. Node("dir", FALSE) \in Nodes
  BY DirNode
<1>4. \A p \in DOMAIN u : u[p] \in Nodes
  BY <1>1, <1>3 DEF IsTree
<1>5. DOMAIN u \subseteq Paths
  BY <1>1, AncestorsArePaths DEF IsTree
<1>6. ASSUME NEW p \in DOMAIN u, NEW q \in Ancestors(p) PROVE q \in DOMAIN u /\ u[q].kind = "dir"
  <2>1. CASE p \in DOMAIN t
    BY <1>1, <2>1 DEF IsTree
  <2>2. CASE p \in Ancestors(path)
    BY <1>1, <1>2, <2>2, AncestorsArePaths
  <2>. QED
    BY <1>1, <2>1, <2>2
<1>. QED
  BY <1>1, <1>4, <1>5, <1>6 DEF IsTree, u

-----------------------------------------------------------------------------
(* One entry.                                                               *)

IsDir(e) == e.kind = "dir"

\* What unpack_in and unpack make of an entry that is no whiteout: it is there,
\* in directories, as the header has it; the rest is as it was.
Grown(t, u, e) ==
    /\ DOMAIN u = DOMAIN t \cup Ancestors(e.path) \cup {e.path}
    /\ \A p \in DOMAIN t \ {e.path} : Kept(t, u, p)
    /\ \A p \in Ancestors(e.path) \ DOMAIN t : u[p].kind = "dir" /\ u[p].opaque = FALSE
    /\ u[e.path].kind = e.kind
    /\ e.path \in DOMAIN t => (t[e.path].kind = "dir" <=> IsDir(e))
    /\ e.path \in DOMAIN t /\ IsDir(e) => u[e.path].opaque = t[e.path].opaque
    /\ ~(e.path \in DOMAIN t /\ IsDir(e)) => u[e.path].opaque = FALSE
    /\ e.kind # "link" => u[e.path].perms = TRUE
    /\ e.kind \notin {"link", "dir"} => u[e.path].mtime = TRUE

LEMMA UnpackInTree ==
    ASSUME NEW t, IsTree(t), NEW e, IsEntry(e), UnpackIn(t, e) # Failed
    PROVE  LET u == UnpackIn(t, e)
           IN /\ IsTree(u)
              /\ DOMAIN u = DOMAIN t \cup Ancestors(e.path) \cup {e.path}
              /\ \A p \in DOMAIN t \ {e.path} : Kept(t, u, p)
              /\ \A p \in Ancestors(e.path) \ DOMAIN t : u[p].kind = "dir" /\ u[p].opaque = FALSE
              /\ u[e.path].kind = e.kind
              /\ e.path \in DOMAIN t => (t[e.path].kind = "dir" <=> IsDir(e))
              /\ e.path \in DOMAIN t /\ IsDir(e) => u[e.path].opaque = t[e.path].opaque
              /\ ~(e.path \in DOMAIN t /\ IsDir(e)) => u[e.path].opaque = FALSE
<1>. DEFINE v == Parents(t, e.path)
            u == UnpackIn(t, e)
<1>0. e.path \in Paths /\ e.kind \in NodeKinds
  BY DEF IsEntry, Paths, NodeKinds
<1>1. \A q \in Ancestors(e.path) : v[q].kind = "dir"
  BY DEF UnpackIn
<1>2. /\ IsTree(v) /\ DOMAIN v = DOMAIN t \cup Ancestors(e.path)
      /\ \A p \in DOMAIN t : v[p] = t[p]
      /\ \A p \in Ancestors(e.path) \ DOMAIN t : v[p] = Node("dir", FALSE)
  BY <1>0, <1>1, ParentsTree
<1>3. e.path \notin Ancestors(e.path)
  BY <1>0, AncestorsArePaths
<1>4. \A p \in Ancestors(e.path) \ DOMAIN t : v[p].kind = "dir" /\ v[p].opaque = FALSE
  BY <1>2, DirNode
<1>5. /\ e.path \in DOMAIN v <=> e.path \in DOMAIN t
      /\ e.path \in DOMAIN v => v[e.path] = t[e.path]
  BY <1>2, <1>3
<1>6. CASE IsDir(e) /\ e.path \in DOMAIN v
  <2>1. u = v /\ v[e.path].kind = "dir"
    BY <1>1, <1>6 DEF UnpackIn, IsDir
  <2>2. DOMAIN v = DOMAIN t \cup Ancestors(e.path) \cup {e.path}
    BY <1>2, <1>6
  <2>. QED
    BY <1>2, <1>4, <1>5, <1>6, <2>1, <2>2 DEF Kept, IsDir
<1>7. CASE ~(IsDir(e) /\ e.path \in DOMAIN v)
  <2>1. u = Put(v, e.path, Node(e.kind, TRUE)) /\ (e.path \in DOMAIN v => v[e.path].kind # "dir")
    BY <1>1, <1>7 DEF UnpackIn, IsDir
  <2>2. /\ Node(e.kind, TRUE) \in Nodes /\ Node(e.kind, TRUE).kind = e.kind
        /\ Node(e.kind, TRUE).opaque = FALSE
    BY <1>0, NodeType
  <2>3. \A q \in Ancestors(e.path) : q \in DOMAIN v /\ v[q].kind = "dir"
    BY <1>1, <1>2
  <2>. HIDE DEF u, v
  <2>4. /\ IsTree(u) /\ DOMAIN u = DOMAIN v \cup {e.path} /\ u[e.path] = Node(e.kind, TRUE)
        /\ \A p \in DOMAIN v \ {e.path} : Kept(v, u, p)
    <3>. DEFINE n == Node(e.kind, TRUE)
                x == Put(v, e.path, n)
    <3>. HIDE DEF n
    <3>1. /\ IsTree(x) /\ DOMAIN x = DOMAIN v \cup {e.path} /\ x[e.path] = n
          /\ \A p \in DOMAIN v \ {e.path} : Kept(v, x, p)
      <4>1. n \in Nodes /\ (e.path \in DOMAIN v => v[e.path].kind # "dir")
        BY <2>1, <2>2 DEF n
      <4>. QED
        BY ONLY <1>0, <1>2, <4>1, <2>3, PutTree, Zenon
    <3>2. u = x
      BY <2>1 DEF n
    <3>. QED
      BY <3>1, <3>2 DEF n
  <2>5. \A p \in DOMAIN t \ {e.path} : Kept(t, u, p)
    BY <1>2, <2>4 DEF Kept
  <2>6. \A p \in Ancestors(e.path) \ DOMAIN t : u[p].kind = "dir" /\ u[p].opaque = FALSE
    BY <1>2, <1>3, <1>4, <2>4 DEF Kept
  <2>7. DOMAIN u = DOMAIN t \cup Ancestors(e.path) \cup {e.path}
    BY <1>2, <2>4
  <2>8. e.path \in DOMAIN t => t[e.path].kind # "dir" /\ ~IsDir(e)
    BY <1>5, <1>7, <2>1
  <2>. QED
    BY <2>2, <2>4, <2>5, <2>6, <2>7, <2>8 DEF u
<1>. QED
  BY <1>6, <1>7

LEMMA EntryTree ==
    ASSUME NEW t, IsTree(t), NEW e, IsEntry(e), NEW xattrs, ~IsConverted(e, xattrs),
           UnpackEntry(t, e, xattrs) # Failed
    PROVE  LET u == UnpackEntry(t, e, xattrs) IN IsTree(u) /\ Grown(t, u, e)
<1>. DEFINE v == UnpackIn(t, e)
            w == SetPermsOwnerships(v, e.path)
            u == UnpackEntry(t, e, xattrs)
<1>1. v # Failed
  BY DEF UnpackEntry
<1>2. /\ IsTree(v)
      /\ DOMAIN v = DOMAIN t \cup Ancestors(e.path) \cup {e.path}
      /\ \A p \in DOMAIN t \ {e.path} : Kept(t, v, p)
      /\ \A p \in Ancestors(e.path) \ DOMAIN t : v[p].kind = "dir" /\ v[p].opaque = FALSE
      /\ v[e.path].kind = e.kind
      /\ e.path \in DOMAIN t => (t[e.path].kind = "dir" <=> IsDir(e))
      /\ e.path \in DOMAIN t /\ IsDir(e) => v[e.path].opaque = t[e.path].opaque
      /\ ~(e.path \in DOMAIN t /\ IsDir(e)) => v[e.path].opaque = FALSE
  BY <1>1, UnpackInTree
<1>3. e.path \in DOMAIN v /\ e.path \in Paths /\ e.path \notin Ancestors(e.path)
  BY <1>2, AncestorsArePaths DEF IsEntry, Paths
<1>4. /\ IsTree(w) /\ DOMAIN w = DOMAIN v
      /\ w[e.path].kind = v[e.path].kind /\ w[e.path].opaque = v[e.path].opaque /\ w[e.path].perms = TRUE
      /\ \A p \in DOMAIN v \ {e.path} : w[p] = v[p]
  <2>. HIDE DEF v
  <2>1. IsTree(v) /\ e.path \in DOMAIN v
    BY <1>2, <1>3
  <2>2. IsTree(w) /\ Owned(v, w, e.path)
    BY ONLY <2>1, SetPermsTree DEF w
  <2>. QED
    BY <2>2 DEF Owned
<1>5. CASE e.kind = "link"
  <2>1. u = v
    BY <1>5 DEF UnpackEntry
  <2>. QED
    BY <1>2, <1>5, <2>1 DEF Grown
<1>6. CASE e.kind = "dir"
  <2>1. u = w
    BY <1>1, <1>6 DEF UnpackEntry
  <2>. HIDE DEF u, v, w
  <2>2. \A p \in DOMAIN t \ {e.path} : Kept(t, w, p)
    BY <1>2, <1>4 DEF Kept
  <2>3. \A p \in Ancestors(e.path) \ DOMAIN t : w[p].kind = "dir" /\ w[p].opaque = FALSE
    BY <1>2, <1>3, <1>4
  <2>4. Grown(t, u, e)
    BY <1>2, <1>4, <1>6, <2>1, <2>2, <2>3 DEF Grown
  <2>. QED
    BY <1>4, <2>1, <2>4 DEF u
<1>7. CASE e.kind \notin {"link", "dir"}
  <2>1. u = [w EXCEPT ![e.path].mtime = TRUE]
    BY <1>1, <1>7 DEF UnpackEntry
  <2>2. w[e.path] \in Nodes /\ w = [p \in DOMAIN w |-> w[p]] /\ e.path \in DOMAIN w
    BY <1>3, <1>4 DEF IsTree
  <2>. HIDE DEF u, v, w
  <2>3. /\ DOMAIN u = DOMAIN w /\ u = [p \in DOMAIN u |-> u[p]]
        /\ \A p \in DOMAIN w \ {e.path} : u[p] = w[p]
        /\ u[e.path] = [w[e.path] EXCEPT !.mtime = TRUE]
    BY <2>1, <2>2
  <2>4. /\ u[e.path] \in Nodes /\ u[e.path].kind = w[e.path].kind /\ u[e.path].opaque = w[e.path].opaque
        /\ u[e.path].perms = w[e.path].perms /\ u[e.path].mtime = TRUE
    BY <2>2, <2>3 DEF Nodes
  <2>5. \A p \in DOMAIN w : u[p] \in Nodes /\ u[p].kind = w[p].kind
    BY <2>3, <2>4, <1>4 DEF IsTree
  <2>6. IsTree(u)
    BY <2>3, <2>5, <1>4 DEF IsTree
  <2>7. \A p \in DOMAIN t \ {e.path} : Kept(t, u, p)
    BY <1>2, <1>4, <2>3 DEF Kept
  <2>8. \A p \in Ancestors(e.path) \ DOMAIN t : u[p].kind = "dir" /\ u[p].opaque = FALSE
    BY <1>2, <1>3, <1>4, <2>3
  <2>9. Grown(t, u, e)
    BY <1>2, <1>4, <1>7, <2>3, <2>4, <2>7, <2>8 DEF Grown
  <2>. QED
    BY <2>6, <2>9 DEF u
<1>. QED
  BY <1>5, <1>6, <1>7

\* What convert_whiteout makes of an opaque marker and of a whiteout.
MadeOpaque(t, u, path) ==
    /\ DOMAIN u = DOMAIN t
    /\ \A p \in DOMAIN t : u[p].kind = t[p].kind /\ u[p].perms = t[p].perms /\ u[p].mtime = t[p].mtime
    /\ \A p \in DOMAIN t \ {path} : u[p].opaque = t[p].opaque
    /\ path # <<>> => path \in DOMAIN t /\ u[path].opaque = TRUE
WhitedOut(t, u, path) ==
    /\ path \notin DOMAIN t /\ DOMAIN u = DOMAIN t \cup {path}
    /\ \A p \in DOMAIN t : Kept(t, u, p)
    /\ u[path].kind = "whiteout" /\ u[path].opaque = FALSE

LEMMA OpaqueTree ==
    ASSUME NEW t, IsTree(t), NEW path \in Paths, FileName(path) = Opaque,
           ConvertWhiteout(t, path) # Failed
    PROVE  IsTree(ConvertWhiteout(t, path)) /\ MadeOpaque(t, ConvertWhiteout(t, path), Parent(path))
<1>. DEFINE u == ConvertWhiteout(t, path)
            d == Parent(path)
<1>1. CASE Len(path) = 1
  <2>1. u = t /\ d = <<>>
    BY <1>1, ParentIsAbove DEF ConvertWhiteout
  <2>. QED
    BY <2>1 DEF MadeOpaque
<1>2. CASE Len(path) # 1
  <2>1. d \in DOMAIN t /\ u = [t EXCEPT ![d].opaque = TRUE]
    BY <1>2 DEF ConvertWhiteout
  <2>2. t[d] \in Nodes /\ t = [p \in DOMAIN t |-> t[p]]
    BY <2>1 DEF IsTree
  <2>. HIDE DEF u, d
  <2>3. /\ DOMAIN u = DOMAIN t /\ u = [p \in DOMAIN u |-> u[p]]
        /\ \A p \in DOMAIN t \ {d} : u[p] = t[p]
        /\ u[d] = [t[d] EXCEPT !.opaque = TRUE]
    BY <2>1, <2>2
  <2>4. /\ u[d] \in Nodes /\ u[d].kind = t[d].kind /\ u[d].perms = t[d].perms
        /\ u[d].mtime = t[d].mtime /\ u[d].opaque = TRUE
    BY <2>2, <2>3 DEF Nodes
  <2>5. \A p \in DOMAIN t : u[p] \in Nodes /\ u[p].kind = t[p].kind
    BY <2>3, <2>4 DEF IsTree
  <2>6. IsTree(u)
    BY <2>3, <2>5 DEF IsTree
  <2>7. MadeOpaque(t, u, d)
    BY <2>1, <2>3, <2>4 DEF MadeOpaque
  <2>. QED
    BY <2>6, <2>7 DEF u, d
<1>. QED
  BY <1>1, <1>2

LEMMA WhiteoutTree ==
    ASSUME NEW t, IsTree(t), NEW path \in Paths, IsWhiteout(FileName(path)),
           FileName(path) # Opaque, ConvertWhiteout(t, path) # Failed
    PROVE  IsTree(ConvertWhiteout(t, path)) /\ WhitedOut(t, ConvertWhiteout(t, path), Target(path))
<1>1. PICK q : q = Target(path)
  OBVIOUS
<1>2. q \in Paths
  BY <1>1, TargetIsBeside
<1>. DEFINE n == Node("whiteout", FALSE)
            v == Put(t, q, n)
            u == SetPermsOwnerships(v, q)
<1>3. /\ q \notin DOMAIN t /\ InDirectory(t, q)
      /\ ConvertWhiteout(t, path) = u
  BY <1>1 DEF ConvertWhiteout
<1>4. n \in Nodes /\ n.kind = "whiteout" /\ n.opaque = FALSE
  <2>1. "whiteout" \in NodeKinds /\ FALSE \in BOOLEAN
    BY DEF NodeKinds
  <2>. QED
    BY <2>1, NodeType
<1>5. \A r \in Ancestors(q) : r \in DOMAIN t /\ t[r].kind = "dir"
  <2>1. CASE Len(q) = 1
    BY <2>1, <1>2, ParentIsAbove
  <2>2. CASE Len(q) # 1
    <3>1. Parent(q) \in DOMAIN t /\ t[Parent(q)].kind = "dir"
      BY <2>2, <1>3 DEF InDirectory
    <3>2. Ancestors(q) = Ancestors(Parent(q)) \cup {Parent(q)}
      BY <2>2, <1>2, ParentIsAbove
    <3>. QED
      BY <3>1, <3>2 DEF IsTree
  <2>. QED
    BY <2>1, <2>2
<1>. HIDE DEF n
<1>6. /\ IsTree(v) /\ DOMAIN v = DOMAIN t \cup {q} /\ v[q] = n
      /\ \A p \in DOMAIN t \ {q} : Kept(t, v, p)
  BY <1>2, <1>3, <1>4, <1>5, PutTree
<1>. HIDE DEF v
<1>7. IsTree(u) /\ Owned(v, u, q)
  BY <1>6, SetPermsTree
<1>. HIDE DEF u
<1>8. WhitedOut(t, u, q)
  <2>1. \A p \in DOMAIN t : Kept(t, u, p)
    BY <1>3, <1>6, <1>7 DEF Owned, Kept
  <2>. QED
    BY <2>1, <1>3, <1>4, <1>6, <1>7 DEF WhitedOut, Owned
<1>. QED
  BY <1>1, <1>3, <1>7, <1>8

\* An entry is one of three things, and leaves a tree.
LEMMA EntryCases ==
    ASSUME NEW t, IsTree(t), NEW e, IsEntry(e), NEW xattrs \in BOOLEAN,
           UnpackEntry(t, e, xattrs) # Failed
    PROVE  LET u == UnpackEntry(t, e, xattrs)
           IN /\ IsTree(u)
              /\ \/ ~IsConverted(e, xattrs) /\ Grown(t, u, e)
                 \/ /\ IsConverted(e, xattrs) /\ FileName(e.path) = Opaque
                    /\ MadeOpaque(t, u, Parent(e.path))
                 \/ /\ IsConverted(e, xattrs) /\ FileName(e.path) # Opaque
                    /\ WhitedOut(t, u, Target(e.path))
<1>1. CASE ~IsConverted(e, xattrs)
  BY <1>1, EntryTree
<1>2. CASE IsConverted(e, xattrs)
  <2>1. UnpackEntry(t, e, xattrs) = ConvertWhiteout(t, e.path) /\ IsWhiteout(FileName(e.path))
    BY <1>2 DEF UnpackEntry, IsConverted
  <2>2. e.path \in Paths
    BY DEF IsEntry, Paths
  <2>3. PICK path : path = e.path
    OBVIOUS
  <2>4. ConvertWhiteout(t, path) # Failed /\ path \in Paths /\ IsWhiteout(FileName(path))
    BY <2>1, <2>2, <2>3
  <2>5. CASE FileName(path) = Opaque
    BY <1>2, <2>1, <2>3, <2>4, <2>5, OpaqueTree
  <2>6. CASE FileName(path) # Opaque
    BY <1>2, <2>1, <2>3, <2>4, <2>6, WhiteoutTree
  <2>. QED
    BY <2>5, <2>6
<1>. QED
  BY <1>1, <1>2

-----------------------------------------------------------------------------
(* The entries so far.                                                      *)

\* What one more entry adds to what a changeset says.
LEMMA PlainGrows ==
    ASSUME NEW E, NEW e, ~IsWhiteout(FileName(e.path))
    PROVE  LET F == E \cup {e}
           IN /\ Added(F) = Added(E) \cup Ancestors(e.path) \cup {e.path}
              /\ Removed(F) = Removed(E) /\ Emptied(F) = Emptied(E)
              /\ e.kind = "dir" => NoDirs(F) = NoDirs(E)
              /\ e.kind # "dir" => NoDirs(F) = NoDirs(E) \cup {e.path}
<1>. DEFINE F == E \cup {e}
<1>1. Plain(F) = Plain(E) \cup {e}
  BY DEF Plain
<1>2. Added(F) = Added(E) \cup Ancestors(e.path) \cup {e.path}
  <2>1. \A p : p \in Added(F) <=> \E x \in Plain(F) : p \in Ancestors(x.path) \cup {x.path}
    BY DEF Added
  <2>2. \A p : p \in Added(E) <=> \E x \in Plain(E) : p \in Ancestors(x.path) \cup {x.path}
    BY DEF Added
  <2>. QED
    BY <1>1, <2>1, <2>2
<1>3. F \ Plain(F) = E \ Plain(E)
  BY DEF Plain
<1>4. Removed(F) = Removed(E)
  BY <1>3 DEF Removed
<1>5. FileName(e.path) # Opaque
  <2>1. IsWhiteout(Opaque)
    BY DEF IsWhiteout, Stripped
  <2>. QED
    BY <2>1
<1>6. Emptied(F) = Emptied(E)
  BY <1>5 DEF Emptied
<1>7. e.kind = "dir" => NoDirs(F) = NoDirs(E)
  BY <1>1 DEF NoDirs
<1>8. e.kind # "dir" => NoDirs(F) = NoDirs(E) \cup {e.path}
  BY <1>1 DEF NoDirs
<1>. QED
  BY <1>2, <1>4, <1>6, <1>7, <1>8

LEMMA WhiteoutGrows ==
    ASSUME NEW E, NEW e, IsWhiteout(FileName(e.path))
    PROVE  LET F == E \cup {e}
           IN /\ Added(F) = Added(E) /\ NoDirs(F) = NoDirs(E)
              /\ FileName(e.path) = Opaque => /\ Removed(F) = Removed(E)
                                              /\ Emptied(F) = Emptied(E) \cup {Parent(e.path)}
              /\ FileName(e.path) # Opaque => /\ Removed(F) = Removed(E) \cup {Target(e.path)}
                                              /\ Emptied(F) = Emptied(E)
<1>. DEFINE F == E \cup {e}
<1>1. Plain(F) = Plain(E)
  BY DEF Plain
<1>2. Added(F) = Added(E) /\ NoDirs(F) = NoDirs(E)
  BY <1>1 DEF Added, NoDirs
<1>3. F \ Plain(F) = (E \ Plain(E)) \cup {e}
  BY DEF Plain
<1>4. FileName(e.path) = Opaque => Removed(F) = Removed(E)
  BY <1>3 DEF Removed
<1>5. FileName(e.path) # Opaque => Removed(F) = Removed(E) \cup {Target(e.path)}
  BY <1>3 DEF Removed
<1>6. FileName(e.path) = Opaque => Emptied(F) = Emptied(E) \cup {Parent(e.path)}
  BY DEF Emptied
<1>7. FileName(e.path) # Opaque => Emptied(F) = Emptied(E)
  BY DEF Emptied
<1>. QED
  BY <1>2, <1>4, <1>5, <1>6, <1>7

LEMMA NoDirsAreAdded ==
    ASSUME NEW E
    PROVE  NoDirs(E) \subseteq Added(E)
BY DEF NoDirs, Added

LEMMA NoEntries ==
    Added({}) = {} /\ Removed({}) = {} /\ NoDirs({}) = {} /\ Emptied({}) = {}
BY DEF Added, Removed, NoDirs, Emptied, Plain

-----------------------------------------------------------------------------
(* The tree and the entries so far.                                         *)

\* The nodes are those of the entries, of the kinds that the entries have, and
\* opaque where a marker has been: also where a file has taken the place of
\* another, which lifts its attributes, since no directory is ever replaced.
Merged(t, E) ==
    /\ DOMAIN t = Added(E) \cup Removed(E)
    /\ \A p \in DOMAIN t : t[p].kind = "dir" <=> p \notin Removed(E) \cup NoDirs(E)
    /\ \A p \in DOMAIN t : t[p].kind = "whiteout" <=> p \notin Added(E)
    /\ \A p \in DOMAIN t : t[p].opaque = TRUE => p \in Emptied(E)
    /\ \A p \in Emptied(E) : p # <<>> => p \in DOMAIN t /\ (t[p].opaque = TRUE \/ t[p].kind # "dir")

LEMMA MergedStep ==
    ASSUME NEW t, IsTree(t), NEW E, Merged(t, E), NEW e, IsEntry(e),
           UnpackEntry(t, e, TRUE) # Failed
    PROVE  Merged(UnpackEntry(t, e, TRUE), E \cup {e})
<1>1. PICK u : u = UnpackEntry(t, e, TRUE)
  OBVIOUS
<1>2. PICK F : F = E \cup {e}
  OBVIOUS
<1>3. IsTree(u)
  BY <1>1, EntryCases
<1>4. PICK path : path = e.path
  OBVIOUS
<1>5. path \in Paths /\ path \notin Ancestors(path)
  BY <1>4, AncestorsArePaths DEF IsEntry, Paths
<1>6. NoDirs(E) \subseteq DOMAIN t /\ Removed(E) \subseteq DOMAIN t /\ Added(E) \subseteq DOMAIN t
  BY NoDirsAreAdded DEF Merged
<1>7. CASE ~IsWhiteout(FileName(path))
  <2>1. Grown(t, u, e)
    BY <1>1, <1>4, <1>7, EntryCases DEF IsConverted
  <2>2. /\ Added(F) = Added(E) \cup Ancestors(path) \cup {path}
        /\ Removed(F) = Removed(E) /\ Emptied(F) = Emptied(E)
        /\ e.kind = "dir" => NoDirs(F) = NoDirs(E)
        /\ e.kind # "dir" => NoDirs(F) = NoDirs(E) \cup {path}
    BY <1>2, <1>4, <1>7, PlainGrows
  <2>3. DOMAIN u = DOMAIN t \cup Ancestors(path) \cup {path}
    BY <2>1, <1>4 DEF Grown
  <2>4. \A p \in Ancestors(path) : u[p].kind = "dir"
    BY <1>3, <1>5, <2>3 DEF IsTree
  <2>5. \A p \in DOMAIN t \ {path} : u[p].kind = t[p].kind /\ u[p].opaque = t[p].opaque
    BY <2>1, <1>4 DEF Grown, Kept
  <2>6. \A p \in Ancestors(path) \ DOMAIN t : u[p].kind = "dir" /\ u[p].opaque = FALSE
    BY <2>1, <1>4 DEF Grown
  <2>7. /\ u[path].kind = e.kind /\ e.kind # "whiteout"
        /\ path \in DOMAIN t => (t[path].kind = "dir" <=> e.kind = "dir")
    BY <2>1, <1>4 DEF Grown, IsDir, IsEntry, Kinds
  <2>8. /\ path \in DOMAIN t /\ e.kind = "dir" => u[path].opaque = t[path].opaque
        /\ ~(path \in DOMAIN t /\ e.kind = "dir") => u[path].opaque = FALSE
    BY <2>1, <1>4 DEF Grown, IsDir
  <2>9. DOMAIN u = Added(F) \cup Removed(F)
    BY <2>2, <2>3 DEF Merged
  <2>10. \A p \in DOMAIN u : u[p].kind = "dir" <=> p \notin Removed(F) \cup NoDirs(F)
    <3>1. ASSUME NEW p \in DOMAIN u PROVE u[p].kind = "dir" <=> p \notin Removed(F) \cup NoDirs(F)
      <4>1. CASE p = path
        BY <4>1, <1>6, <2>2, <2>7 DEF Merged
      <4>2. CASE p # path /\ p \in DOMAIN t
        BY <4>2, <1>6, <2>2, <2>5 DEF Merged
      <4>3. CASE p # path /\ p \notin DOMAIN t
        BY <4>3, <1>6, <2>2, <2>3, <2>6
      <4>. QED
        BY <4>1, <4>2, <4>3
    <3>. QED
      BY <3>1
  <2>11. \A p \in DOMAIN u : u[p].kind = "whiteout" <=> p \notin Added(F)
    BY <2>2, <2>3, <2>4, <2>5, <2>7 DEF Merged
  <2>12. \A p \in DOMAIN u : u[p].opaque = TRUE => p \in Emptied(F)
    <3>1. ASSUME NEW p \in DOMAIN u, u[p].opaque = TRUE PROVE p \in Emptied(F)
      <4>1. CASE p = path
        <5>1. path \in DOMAIN t /\ t[path].opaque = TRUE
          BY <3>1, <4>1, <2>8
        <5>. QED
          BY <5>1, <4>1, <2>2 DEF Merged
      <4>2. CASE p # path
        <5>1. p \in DOMAIN t
          BY <3>1, <4>2, <2>3, <2>6
        <5>2. t[p].opaque = TRUE
          BY <5>1, <3>1, <4>2, <2>5
        <5>. QED
          BY <5>1, <5>2, <2>2 DEF Merged
      <4>. QED
        BY <4>1, <4>2
    <3>. QED
      BY <3>1
  <2>13. ASSUME NEW p \in Emptied(F), p # <<>>
         PROVE  p \in DOMAIN u /\ (u[p].opaque = TRUE \/ u[p].kind # "dir")
    <3>1. p \in DOMAIN t /\ (t[p].opaque = TRUE \/ t[p].kind # "dir")
      BY <2>2, <2>13 DEF Merged
    <3>2. CASE p = path
      <4>1. CASE e.kind = "dir"
        <5>1. u[path].opaque = t[path].opaque /\ t[path].kind = "dir"
          BY <3>1, <3>2, <4>1, <2>7, <2>8
        <5>. QED
          BY <5>1, <3>1, <3>2, <2>3
      <4>2. CASE e.kind # "dir"
        BY <4>2, <3>2, <2>3, <2>7
      <4>. QED
        BY <4>1, <4>2
    <3>3. CASE p # path
      <4>1. u[p].kind = t[p].kind /\ u[p].opaque = t[p].opaque
        BY <3>1, <3>3, <2>5
      <4>. QED
        BY <4>1, <3>1, <2>3
    <3>. QED
      BY <3>2, <3>3
  <2>14. Merged(u, F)
    BY <2>9, <2>10, <2>11, <2>12, <2>13 DEF Merged
  <2>. QED
    BY <2>14, <1>1, <1>2
<1>8. CASE IsWhiteout(FileName(path)) /\ FileName(path) = Opaque
  <2>1. MadeOpaque(t, u, Parent(path))
    BY <1>1, <1>4, <1>8, EntryCases DEF IsConverted
  <2>2. /\ Added(F) = Added(E) /\ NoDirs(F) = NoDirs(E) /\ Removed(F) = Removed(E)
        /\ Emptied(F) = Emptied(E) \cup {Parent(path)}
    BY <1>2, <1>4, <1>8, WhiteoutGrows
  <2>3. PICK d : d = Parent(path)
    OBVIOUS
  <2>4. /\ DOMAIN u = DOMAIN t
        /\ \A p \in DOMAIN t : u[p].kind = t[p].kind
        /\ \A p \in DOMAIN t \ {d} : u[p].opaque = t[p].opaque
        /\ d # <<>> => d \in DOMAIN t /\ u[d].opaque = TRUE
    BY <2>1, <2>3 DEF MadeOpaque
  <2>5. \A p \in DOMAIN u : u[p].opaque = TRUE => p \in Emptied(F)
    BY <2>2, <2>3, <2>4 DEF Merged
  <2>6. ASSUME NEW p \in Emptied(F), p # <<>>
        PROVE  p \in DOMAIN u /\ (u[p].opaque = TRUE \/ u[p].kind # "dir")
    <3>1. CASE p = d
      BY <3>1, <2>4, <2>6
    <3>2. CASE p # d
      <4>1. p \in DOMAIN t /\ (t[p].opaque = TRUE \/ t[p].kind # "dir")
        BY <3>2, <2>2, <2>3, <2>6 DEF Merged
      <4>2. u[p].kind = t[p].kind /\ u[p].opaque = t[p].opaque
        BY <4>1, <3>2, <2>4
      <4>. QED
        BY <4>1, <4>2, <2>4
    <3>. QED
      BY <3>1, <3>2
  <2>7. Merged(u, F)
    BY <2>2, <2>4, <2>5, <2>6 DEF Merged
  <2>. QED
    BY <2>7, <1>1, <1>2
<1>9. CASE IsWhiteout(FileName(path)) /\ FileName(path) # Opaque
  <2>1. PICK q : q = Target(path)
    OBVIOUS
  <2>2. WhitedOut(t, u, q)
    BY <1>1, <1>4, <1>9, <2>1, EntryCases DEF IsConverted
  <2>3. /\ Added(F) = Added(E) /\ NoDirs(F) = NoDirs(E) /\ Removed(F) = Removed(E) \cup {q}
        /\ Emptied(F) = Emptied(E)
    BY <1>2, <1>4, <1>9, <2>1, WhiteoutGrows
  <2>4. /\ q \notin DOMAIN t /\ DOMAIN u = DOMAIN t \cup {q}
        /\ \A p \in DOMAIN t : u[p].kind = t[p].kind /\ u[p].opaque = t[p].opaque
        /\ u[q].kind = "whiteout" /\ u[q].opaque = FALSE
    BY <2>2 DEF WhitedOut, Kept
  <2>5. DOMAIN u = Added(F) \cup Removed(F)
    BY <2>3, <2>4 DEF Merged
  <2>6. \A p \in DOMAIN u : u[p].kind = "dir" <=> p \notin Removed(F) \cup NoDirs(F)
    BY <2>3, <2>4 DEF Merged
  <2>7. \A p \in DOMAIN u : u[p].kind = "whiteout" <=> p \notin Added(F)
    BY <1>6, <2>3, <2>4 DEF Merged
  <2>8. \A p \in DOMAIN u : u[p].opaque = TRUE => p \in Emptied(F)
    BY <2>3, <2>4 DEF Merged
  <2>9. ASSUME NEW p \in Emptied(F), p # <<>>
        PROVE  p \in DOMAIN u /\ (u[p].opaque = TRUE \/ u[p].kind # "dir")
    <3>1. p \in DOMAIN t /\ (t[p].opaque = TRUE \/ t[p].kind # "dir")
      BY <2>3, <2>9 DEF Merged
    <3>2. u[p].kind = t[p].kind /\ u[p].opaque = t[p].opaque
      BY <3>1, <2>4
    <3>. QED
      BY <3>1, <3>2, <2>4
  <2>10. Merged(u, F)
    BY <2>5, <2>6, <2>7, <2>8, <2>9 DEF Merged
  <2>. QED
    BY <2>10, <1>1, <1>2
<1>. QED
  BY <1>7, <1>8, <1>9

\* The files are restored, and the directories but for their times.
Restored(t, E, dirs, xattrs) ==
    /\ \A p \in DOMAIN t : t[p].kind = "file" => t[p].mtime = TRUE /\ t[p].perms = TRUE
    /\ \A e \in E : e.kind = "dir" /\ ~IsConverted(e, xattrs) =>
          /\ e.path \in DOMAIN t /\ t[e.path].kind = "dir" /\ t[e.path].perms = TRUE
          /\ e.path \in dirs

LEMMA RestoredStep ==
    ASSUME NEW t, IsTree(t), NEW E, NEW dirs, NEW xattrs \in BOOLEAN, Restored(t, E, dirs, xattrs),
           NEW e, IsEntry(e), UnpackEntry(t, e, xattrs) # Failed
    PROVE  Restored(UnpackEntry(t, e, xattrs), E \cup {e},
                    IF e.kind = "dir" /\ ~IsConverted(e, xattrs) THEN dirs \cup {e.path} ELSE dirs, xattrs)
<1>1. PICK u : u = UnpackEntry(t, e, xattrs)
  OBVIOUS
<1>2. PICK ds : ds = IF e.kind = "dir" /\ ~IsConverted(e, xattrs) THEN dirs \cup {e.path} ELSE dirs
  OBVIOUS
<1>3. PICK path : path = e.path
  OBVIOUS
<1>4. dirs \subseteq ds /\ (e.kind = "dir" /\ ~IsConverted(e, xattrs) => path \in ds)
  BY <1>2, <1>3
<1>5. CASE ~IsConverted(e, xattrs)
  <2>1. Grown(t, u, e)
    BY <1>1, <1>5, EntryCases
  <2>2. /\ DOMAIN u = DOMAIN t \cup Ancestors(path) \cup {path}
        /\ \A p \in DOMAIN t \ {path} : Kept(t, u, p)
        /\ \A p \in Ancestors(path) \ DOMAIN t : u[p].kind = "dir"
        /\ u[path].kind = e.kind
        /\ path \in DOMAIN t => (t[path].kind = "dir" <=> e.kind = "dir")
        /\ e.kind # "link" => u[path].perms = TRUE
        /\ e.kind \notin {"link", "dir"} => u[path].mtime = TRUE
    BY <2>1, <1>3 DEF Grown, IsDir
  <2>3. ASSUME NEW p \in DOMAIN u, u[p].kind = "file" PROVE u[p].mtime = TRUE /\ u[p].perms = TRUE
    <3>1. CASE p = path
      BY <3>1, <2>2, <2>3
    <3>2. CASE p # path
      <4>1. p \in DOMAIN t /\ Kept(t, u, p)
        BY <3>2, <2>2, <2>3
      <4>2. t[p].mtime = TRUE /\ t[p].perms = TRUE
        BY <4>1, <2>3 DEF Kept, Restored
      <4>. QED
        BY <4>1, <4>2, <2>3 DEF Kept
    <3>. QED
      BY <3>1, <3>2
  <2>4. ASSUME NEW x \in E \cup {e}, x.kind = "dir", ~IsConverted(x, xattrs)
        PROVE  /\ x.path \in DOMAIN u /\ u[x.path].kind = "dir" /\ u[x.path].perms = TRUE
               /\ x.path \in ds
    <3>1. CASE x.path = path /\ e.kind = "dir"
      BY <3>1, <2>2, <1>4, <1>5
    <3>2. CASE ~(x.path = path /\ e.kind = "dir")
      <4>1. x \in E
        BY <3>2, <2>4, <1>3
      <4>2. x.path \in DOMAIN t /\ t[x.path].kind = "dir" /\ t[x.path].perms = TRUE /\ x.path \in dirs
        BY <4>1, <2>4 DEF Restored
      <4>3. x.path # path
        BY <4>2, <3>2, <2>2
      <4>. QED
        BY <4>2, <4>3, <2>2, <1>4 DEF Kept
    <3>. QED
      BY <3>1, <3>2
  <2>5. Restored(u, E \cup {e}, ds, xattrs)
    BY <2>3, <2>4 DEF Restored
  <2>. QED
    BY <2>5, <1>1, <1>2
<1>6. CASE IsConverted(e, xattrs)
  <2>1. PICK q : \/ MadeOpaque(t, u, q)
                 \/ WhitedOut(t, u, q)
    BY <1>1, <1>6, EntryCases
  <2>2. /\ DOMAIN t \subseteq DOMAIN u
        /\ \A p \in DOMAIN u \ DOMAIN t : u[p].kind # "file"
        /\ \A p \in DOMAIN t : /\ u[p].kind = t[p].kind /\ u[p].perms = t[p].perms
                               /\ u[p].mtime = t[p].mtime \/ t[p].kind = "dir"
    BY <2>1 DEF MadeOpaque, WhitedOut, Kept
  <2>3. ASSUME NEW p \in DOMAIN u, u[p].kind = "file" PROVE u[p].mtime = TRUE /\ u[p].perms = TRUE
    <3>1. p \in DOMAIN t
      BY <2>2, <2>3
    <3>2. t[p].mtime = TRUE /\ t[p].perms = TRUE
      BY <3>1, <2>2, <2>3 DEF Restored
    <3>. QED
      BY <3>1, <3>2, <2>2, <2>3
  <2>4. ASSUME NEW x \in E \cup {e}, x.kind = "dir", ~IsConverted(x, xattrs)
        PROVE  /\ x.path \in DOMAIN u /\ u[x.path].kind = "dir" /\ u[x.path].perms = TRUE
               /\ x.path \in ds
    <3>1. x \in E
      BY <2>4, <1>6
    <3>2. x.path \in DOMAIN t /\ t[x.path].kind = "dir" /\ t[x.path].perms = TRUE /\ x.path \in dirs
      BY <3>1, <2>4 DEF Restored
    <3>. QED
      BY <3>2, <2>2, <1>4
  <2>5. Restored(u, E \cup {e}, ds, xattrs)
    BY <2>3, <2>4 DEF Restored
  <2>. QED
    BY <2>5, <1>1, <1>2
<1>. QED
  BY <1>5, <1>6

\* At the end the times of the directories are restored too.
Finished(t, E, xattrs) ==
    /\ xattrs => Merged(t, E)
    /\ \A p \in DOMAIN t : t[p].kind = "file" => t[p].mtime = TRUE /\ t[p].perms = TRUE
    /\ \A e \in E : e.kind = "dir" /\ ~IsConverted(e, xattrs) =>
          e.path \in DOMAIN t /\ t[e.path].mtime = TRUE /\ t[e.path].perms = TRUE

LEMMA TimesFinish ==
    ASSUME NEW t, IsTree(t), NEW E, NEW dirs, NEW xattrs, xattrs => Merged(t, E),
           Restored(t, E, dirs, xattrs)
    PROVE  Finished(SetDirTimes(t, dirs), E, xattrs)
<1>. DEFINE u == SetDirTimes(t, dirs)
<1>1. DOMAIN u = DOMAIN t
  BY DEF SetDirTimes
<1>2. ASSUME NEW p \in DOMAIN t
      PROVE  /\ u[p].kind = t[p].kind /\ u[p].opaque = t[p].opaque /\ u[p].perms = t[p].perms
             /\ p \in dirs => u[p].mtime = TRUE
             /\ u[p].mtime = t[p].mtime \/ u[p].mtime = TRUE
  <2>1. t[p] \in Nodes
    BY DEF IsTree
  <2>2. CASE p \in dirs
    <3>1. u[p] = [t[p] EXCEPT !.mtime = TRUE]
      BY <2>2 DEF SetDirTimes
    <3>. QED
      BY <2>1, <3>1 DEF Nodes
  <2>3. CASE p \notin dirs
    <3>1. u[p] = t[p]
      BY <2>3 DEF SetDirTimes
    <3>. QED
      BY <2>3, <3>1
  <2>. QED
    BY <2>2, <2>3
<1>. HIDE DEF u
<1>3. ASSUME xattrs PROVE Merged(u, E)
  <2>1. Merged(t, E)
    BY <1>3
  <2>. QED
    BY <2>1, <1>1, <1>2 DEF Merged
<1>4. ASSUME NEW p \in DOMAIN u, u[p].kind = "file" PROVE u[p].mtime = TRUE /\ u[p].perms = TRUE
  <2>1. t[p].mtime = TRUE /\ t[p].perms = TRUE
    BY <1>1, <1>2, <1>4 DEF Restored
  <2>. QED
    BY <2>1, <1>1, <1>2
<1>5. ASSUME NEW e \in E, e.kind = "dir", ~IsConverted(e, xattrs)
      PROVE  e.path \in DOMAIN u /\ u[e.path].mtime = TRUE /\ u[e.path].perms = TRUE
  <2>1. e.path \in DOMAIN t /\ t[e.path].perms = TRUE /\ e.path \in dirs
    BY <1>5 DEF Restored
  <2>. QED
    BY <2>1, <1>1, <1>2
<1>6. Finished(u, E, xattrs)
  BY <1>3, <1>4, <1>5 DEF Finished
<1>. QED
  BY <1>6 DEF u

\* What overlayfs shows of a tree that holds the entries of an archive is what
\* the changeset says.
LEMMA OverlayIsChangeset ==
    ASSUME NEW t, NEW tar, \A i \in DOMAIN tar : IsEntry(tar[i]), ~MarksRoot(tar),
           Merged(t, {tar[i] : i \in DOMAIN tar}), NEW L
    PROVE  Overlay(L, t) = Changeset(L, tar)
<1>1. PICK E : E = {tar[i] : i \in DOMAIN tar}
  OBVIOUS
<1>2. Merged(t, E)
  BY <1>1
<1>3. <<>> \notin Emptied(E)
  <2>1. SUFFICES ASSUME NEW e \in E, FileName(e.path) = Opaque, Parent(e.path) = <<>> PROVE FALSE
    BY DEF Emptied
  <2>2. PICK i \in DOMAIN tar : e = tar[i]
    BY <1>1
  <2>3. PICK p : p = e.path
    OBVIOUS
  <2>4. p \in Paths
    BY <2>2, <2>3 DEF IsEntry, Paths
  <2>5. Len(p) = 1
    BY <2>1, <2>3, <2>4, ParentIsAbove DEF Paths
  <2>6. p = <<Opaque>>
    <3>1. p \in Seq(Names) /\ p[1] = Opaque
      BY <2>1, <2>3, <2>4, <2>5 DEF FileName, Paths
    <3>. QED
      BY <3>1, <2>5
  <2>. QED
    BY <2>2, <2>3, <2>6 DEF MarksRoot
<1>4. {q \in DOMAIN t : t[q].kind # "whiteout"} = Added(E)
  BY <1>2 DEF Merged
<1>. DEFINE Hidden(p) == \/ (Ancestors(p) \cup {p}) \cap (Removed(E) \cup NoDirs(E)) # {}
                         \/ (Ancestors(p) \cup {<<>>}) \cap Emptied(E) # {}
<1>5. ASSUME NEW q PROVE (q \notin DOMAIN t /\ SeenThrough(t, q)) <=> (q \notin Added(E) /\ ~Hidden(q))
  <2>1. ASSUME q \notin DOMAIN t, SeenThrough(t, q) PROVE q \notin Added(E) /\ ~Hidden(q)
    <3>1. q \notin Added(E) \cup Removed(E) \cup NoDirs(E)
      BY <2>1, <1>2, NoDirsAreAdded DEF Merged
    <3>2. ASSUME NEW a \in Ancestors(q) PROVE a \notin Removed(E) \cup NoDirs(E)
      <4>1. a \in Removed(E) \cup NoDirs(E) => a \in DOMAIN t /\ t[a].kind # "dir"
        BY <1>2, NoDirsAreAdded DEF Merged
      <4>. QED
        BY <4>1, <2>1 DEF SeenThrough
    <3>3. ASSUME NEW a \in Ancestors(q) \cup {<<>>} PROVE a \notin Emptied(E)
      <4>1. a \in Emptied(E) => a \in DOMAIN t /\ (t[a].opaque = TRUE \/ t[a].kind # "dir") /\ a # <<>>
        BY <1>2, <1>3 DEF Merged
      <4>. QED
        BY <4>1, <2>1, <3>3 DEF SeenThrough
    <3>. QED
      BY <3>1, <3>2, <3>3
  <2>2. ASSUME q \notin Added(E), ~Hidden(q) PROVE q \notin DOMAIN t /\ SeenThrough(t, q)
    <3>1. q \notin DOMAIN t
      BY <2>2, <1>2 DEF Merged
    <3>2. ASSUME NEW a \in Ancestors(q), a \in DOMAIN t PROVE t[a].kind = "dir" /\ t[a].opaque # TRUE
      BY <2>2, <3>2, <1>2 DEF Merged
    <3>3. \A a \in Ancestors(q) : a \in DOMAIN t => ~t[a].opaque
      BY <3>2
    <3>. QED
      BY <3>1, <3>2, <3>3 DEF SeenThrough
  <2>. QED
    BY <2>1, <2>2
<1>6. {q \in L : q \notin DOMAIN t /\ SeenThrough(t, q)} = {q \in L : q \notin Added(E) /\ ~Hidden(q)}
  BY <1>5
<1>7. Changeset(L, tar) = {<<p, "upper">> : p \in Added(E)}
                          \cup {<<p, "lower">> : p \in {q \in L : q \notin Added(E) /\ ~Hidden(q)}}
  BY <1>1 DEF Changeset
<1>. QED
  BY <1>4, <1>6, <1>7 DEF Overlay

-----------------------------------------------------------------------------
(* The tree after each entry.                                               *)

IsTreeAfter(f, tar, xattrs, n) ==
    /\ f = [k \in 0..n |-> f[k]] /\ f[0] = <<>>
    /\ \A k \in 1..n : f[k] = IF f[k - 1] = Failed THEN Failed ELSE UnpackEntry(f[k - 1], tar[k], xattrs)

\* A set of naturals that is not empty has a least one.
LEMMA LeastOf ==
    ASSUME NEW T \in SUBSET Nat, T # {}
    PROVE  \E x \in T : \A y \in T : x <= y
<1>. DEFINE Less == OpToRel(<, Nat)
<1>1. Less = {ss \in Nat \X Nat : ss[1] < ss[2]}
  BY DEF OpToRel
<1>2. IsWellFoundedOn(Less, Nat)
  BY NatLessThanWellFounded
<1>. HIDE DEF Less
<1>3. PICK x \in T : \A y \in T : ~(<<y, x>> \in Less)
  BY <1>2, WFMin
<1>4. ASSUME NEW y \in T PROVE x <= y
  <2>1. x \in Nat /\ y \in Nat /\ ~(<<y, x>> \in Less)
    BY <1>3
  <2>2. ~(y < x)
    BY <1>1, <2>1
  <2>. QED
    BY <2>1, <2>2
<1>. QED
  BY <1>4

\* The recursion of TreeAfter has a solution, and so it is one.
LEMMA TreeAfterDef ==
    ASSUME NEW tar, Len(tar) \in Nat, NEW xattrs
    PROVE  IsTreeAfter(TreeAfter(tar, xattrs), tar, xattrs, Len(tar))
<1>. DEFINE N == Len(tar)
            Bad == {n \in 0..N : ~\E f : IsTreeAfter(f, tar, xattrs, n)}
            Step(f, n) == IF n = 0 THEN <<>>
                          ELSE IF f[n - 1] = Failed THEN Failed ELSE UnpackEntry(f[n - 1], tar[n], xattrs)
<1>1. Bad = {}
  <2>. SUFFICES ASSUME Bad # {} PROVE FALSE
    OBVIOUS
  <2>0. Bad \in SUBSET Nat
    OBVIOUS
  <2>1. PICK m \in Bad : \A y \in Bad : m <= y
    BY <2>0, LeastOf
  <2>2. m \in 0..N /\ ~\E f : IsTreeAfter(f, tar, xattrs, m)
    OBVIOUS
  <2>3. m # 0
    <3>1. IsTreeAfter([k \in 0..0 |-> <<>>], tar, xattrs, 0)
      BY DEF IsTreeAfter
    <3>. QED
      BY <3>1, <2>2
  <2>4. m \in Nat /\ m >= 1 /\ m - 1 \in 0..N /\ m - 1 \in Nat
    BY <2>2, <2>3
  <2>5. m - 1 \notin Bad
    <3>1. ~(m <= m - 1)
      BY <2>4
    <3>. QED
      BY <3>1, <2>1
  <2>6. PICK f : IsTreeAfter(f, tar, xattrs, m - 1)
    BY <2>4, <2>5
  <2>. DEFINE h == [k \in 0..m |-> IF k <= m - 1 THEN f[k] ELSE Step(f, m)]
  <2>7. h = [k \in 0..m |-> h[k]] /\ h[0] = <<>>
    <3>1. 0 \in 0..m /\ 0 <= m - 1
      BY <2>4
    <3>. QED
      BY <3>1, <2>6 DEF IsTreeAfter
  <2>8. ASSUME NEW k \in 1..m PROVE h[k] = Step(h, k)
    <3>1. k - 1 \in 0..m /\ k - 1 <= m - 1 /\ k # 0 /\ k \in 0..m /\ k \in Nat
      BY <2>4
    <3>2. h[k - 1] = f[k - 1]
      BY <3>1
    <3>3. CASE k <= m - 1
      <4>1. h[k] = f[k] /\ k \in 1..(m - 1)
        BY <3>1, <3>3, <2>4
      <4>2. f[k] = Step(f, k)
        BY <4>1, <3>1, <2>6 DEF IsTreeAfter
      <4>. QED
        BY <4>1, <4>2, <3>1, <3>2
    <3>4. CASE ~(k <= m - 1)
      <4>1. k = m
        BY <3>1, <3>4, <2>4
      <4>2. h[k] = Step(f, k)
        BY <4>1, <3>1, <3>4
      <4>. QED
        BY <4>2, <3>1, <3>2
    <3>. QED
      BY <3>3, <3>4
  <2>. HIDE DEF h
  <2>9. \A k \in 1..m : k # 0
    BY <2>4
  <2>10. IsTreeAfter(h, tar, xattrs, m)
    BY <2>7, <2>8, <2>9 DEF IsTreeAfter
  <2>. QED
    BY <2>2, <2>10
<1>2. PICK f : IsTreeAfter(f, tar, xattrs, N)
  BY <1>1
<1>3. f = [n \in 0..N |-> Step(f, n)]
  <2>1. \A n \in 0..N : n # 0 => n \in 1..N
    OBVIOUS
  <2>2. \A n \in 0..N : f[n] = Step(f, n)
    BY <1>2, <2>1 DEF IsTreeAfter
  <2>. QED
    BY <1>2, <2>2 DEF IsTreeAfter
<1>. HIDE DEF Step
<1>4. TreeAfter(tar, xattrs) = CHOOSE x : x = [n \in 0..N |-> Step(x, n)]
  BY DEF TreeAfter, Step
<1>5. PICK t : t = TreeAfter(tar, xattrs)
  OBVIOUS
<1>6. t = [n \in 0..N |-> Step(t, n)]
  BY <1>3, <1>4, <1>5
<1>7. DOMAIN t = 0..N /\ \A n \in 0..N : t[n] = Step(t, n)
  BY <1>6
<1>8. t[0] = <<>>
  BY <1>7 DEF Step
<1>9. ASSUME NEW k \in 1..N
      PROVE  t[k] = IF t[k - 1] = Failed THEN Failed ELSE UnpackEntry(t[k - 1], tar[k], xattrs)
  BY <1>7 DEF Step
<1>10. t = [k \in 0..N |-> t[k]]
  BY <1>6
<1>. QED
  BY <1>5, <1>8, <1>9, <1>10 DEF IsTreeAfter

\* What unpack cannot take, it cannot take with more after it.
LEMMA FailureStays ==
    ASSUME NEW tar, Len(tar) \in Nat, NEW xattrs, NEW m \in 0..Len(tar),
           TreeAfter(tar, xattrs)[m] = Failed
    PROVE  TreeAfter(tar, xattrs)[Len(tar)] = Failed
<1>1. PICK t : t = TreeAfter(tar, xattrs)
  OBVIOUS
<1>2. \A k \in 1..Len(tar) : t[k - 1] = Failed => t[k] = Failed
  BY <1>1, TreeAfterDef DEF IsTreeAfter
<1>. DEFINE Bad == {n \in m..Len(tar) : t[n] # Failed}
<1>3. Bad = {}
  <2>. SUFFICES ASSUME Bad # {} PROVE FALSE
    OBVIOUS
  <2>0. Bad \in SUBSET Nat
    OBVIOUS
  <2>1. PICK n \in Bad : \A y \in Bad : n <= y
    BY <2>0, LeastOf
  <2>2. n \in m..Len(tar) /\ t[n] # Failed /\ n # m
    BY <1>1
  <2>3. n - 1 \in m..Len(tar) /\ n \in 1..Len(tar) /\ ~(n <= n - 1)
    BY <2>2
  <2>4. t[n - 1] = Failed
    BY <2>1, <2>3
  <2>. QED
    BY <2>2, <2>3, <2>4, <1>2
<1>4. Len(tar) \in m..Len(tar)
  OBVIOUS
<1>. QED
  BY <1>1, <1>3, <1>4

-----------------------------------------------------------------------------
(* The handler.                                                             *)

Fields == {"pc", "media", "dc", "key", "nonce", "hmac", "pos", "hashed", "dirs", "excused", "tree"}
Before == {"wait", "config", "unwrap", "cipher", "begin"}
Streaming == {"stream", "blocked"}
Complete == {"verify", "stored"}
Ended == {"cleanup", "failed"}

\* While what has been read is what the publisher's archive has there, the tree
\* is that of the entries read; nothing is claimed of bytes that are not.
OnTrack(h) == h.pos <= Len(sc.tar) /\ \A i \in 1..h.pos : h.hashed[i] = sc.tar[i]
SoFar(n) == {sc.tar[i] : i \in 1..n}
StreamOK(h) ==
    /\ IsTree(h.tree) /\ h.tree # Failed
    /\ h.tree = TreeAfter(sc.tar, sc.xattrs)[h.pos]
    /\ sc.xattrs => Merged(h.tree, SoFar(h.pos))
    /\ Restored(h.tree, SoFar(h.pos), h.dirs, sc.xattrs)

HandlerOK(h) ==
    /\ h = [f \in Fields |-> h[f]]
    /\ h.pc \in Before \cup Streaming \cup Complete \cup Ended
    /\ h.pos \in Nat /\ Len(h.hashed) = h.pos /\ \E S : h.hashed \in Seq(S)
    /\ h.pc \in Before => h.pos = 0 /\ h.hashed = <<>> /\ h.dirs = {} /\ h.tree = None
    /\ h.pc \in Streaming /\ OnTrack(h) => StreamOK(h)
    /\ h.pc \in Complete /\ OnTrack(h) => Finished(h.tree, SoFar(h.pos), sc.xattrs)
    /\ h.pc = "stored" => h.hashed = sc.tar
    /\ h.pc = "failed" => h.tree = None

LayerInv == sc \in Scenarios /\ HandlerOK(g)

LEMMA ScenarioType ==
    ASSUME sc \in Scenarios
    PROVE  /\ sc.tar \in Seq({sc.tar[i] : i \in DOMAIN sc.tar}) /\ Len(sc.tar) \in Nat
           /\ DOMAIN sc.tar = 1..Len(sc.tar)
           /\ \A i \in 1..Len(sc.tar) : IsEntry(sc.tar[i]) /\ sc.tar[i] # Damaged
           /\ sc.xattrs \in BOOLEAN /\ sc.frame \in Nat
           /\ sc.tool # None <=> sc.media \in EncryptedMedia
<1>1. sc.tar \in Seq({sc.tar[i] : i \in DOMAIN sc.tar})
  BY LayerPipelineAssumption
<1>2. PICK s : s = sc.tar
  OBVIOUS
<1>3. PICK S : s \in Seq(S)
  BY <1>1, <1>2
<1>4. Len(s) \in Nat /\ DOMAIN s = 1..Len(s)
  BY <1>3
<1>. QED
  BY <1>1, <1>2, <1>4, LayerPipelineAssumption

LEMMA EmptyTree == IsTree(<<>>) /\ Merged(<<>>, {}) /\ \A d, x : Restored(<<>>, {}, d, x)
<1>1. DOMAIN <<>> = {}
  OBVIOUS
<1>2. PICK t : t = <<>>
  OBVIOUS
<1>3. t = [p \in DOMAIN t |-> t[p]]
  BY <1>2
<1>. QED
  BY <1>1, <1>2, <1>3, NoEntries DEF IsTree, Merged, Restored

LEMMA HandlerInit == Init => LayerInv
<1>. SUFFICES ASSUME Init PROVE LayerInv
  OBVIOUS
<1>1. sc \in Scenarios /\ g = NoHandler
  BY DEF Init
<1>2. /\ g = [f \in Fields |-> g[f]] /\ g.pc = "wait" /\ g.pos = 0 /\ g.hashed = <<>> /\ g.dirs = {}
      /\ g.tree = None
  BY <1>1 DEF NoHandler, Fields
<1>3. g.hashed \in Seq(Names) /\ Len(g.hashed) = 0
  <2>1. <<>> \in Seq(Names) /\ Len(<<>>) = 0
    OBVIOUS
  <2>. QED
    BY <2>1, <1>2
<1>4. \E S : g.hashed \in Seq(S)
  BY <1>3
<1>5. 0 \in Nat
  OBVIOUS
<1>. QED
  BY <1>1, <1>2, <1>3, <1>4, <1>5 DEF LayerInv, HandlerOK, Before, Streaming, Complete, Ended

\* A step of the handler that ends in an error, or only moves its counter.
LEMMA HandlerFails ==
    ASSUME LayerInv, Fail \/ FailExcused, sc' = sc
    PROVE  LayerInv'
<1>1. PICK h : h = g
  OBVIOUS
<1>2. PICK k : k = g'
  OBVIOUS
<1>3. h = [f \in Fields |-> h[f]]
  BY <1>1 DEF LayerInv, HandlerOK
<1>4. k = [h EXCEPT !.pc = "cleanup"] \/ k = [h EXCEPT !.pc = "cleanup", !.excused = TRUE]
  BY <1>1, <1>2 DEF Fail, FailExcused, To
<1>5. /\ k = [f \in Fields |-> k[f]] /\ k.pc = "cleanup" /\ k.pos = h.pos /\ k.hashed = h.hashed
  BY <1>3, <1>4 DEF Fields
<1>6. h.pos \in Nat /\ Len(h.hashed) = h.pos /\ \E S : h.hashed \in Seq(S)
  BY <1>1 DEF LayerInv, HandlerOK
<1>7. HandlerOK(k)'
  BY <1>5, <1>6 DEF HandlerOK, Before, Streaming, Complete, Ended
<1>. QED
  BY <1>2, <1>7 DEF LayerInv

LEMMA HandlerBefore ==
    ASSUME LayerInv, sc' = sc, g.pc \in Before, NEW pc \in Before, g'.pc = pc,
           g' = [f \in Fields |-> g'[f]],
           g'.pos = g.pos, g'.hashed = g.hashed, g'.dirs = g.dirs, g'.tree = g.tree
    PROVE  LayerInv'
  BY DEF LayerInv, HandlerOK, Before, Streaming, Complete, Ended

LEMMA EntryRead == LayerInv /\ ReadEntry => LayerInv'
<1>. SUFFICES ASSUME LayerInv, ReadEntry PROVE LayerInv'
  OBVIOUS
<1>1. PICK h : h = g
  OBVIOUS
<1>2. PICK k : k = g'
  OBVIOUS
<1>3. /\ h = [f \in Fields |-> h[f]] /\ h.pos \in Nat /\ Len(h.hashed) = h.pos
      /\ OnTrack(h) => StreamOK(h)
  BY <1>1 DEF LayerInv, HandlerOK, ReadEntry, Streaming
<1>4. PICK S : h.hashed \in Seq(S)
  BY <1>1 DEF LayerInv, HandlerOK
<1>5. sc \in Scenarios /\ sc' = sc
  BY DEF LayerInv, ReadEntry
<1>6. CASE Fail
  BY <1>5, <1>6, HandlerFails
<1>7. CASE ~Fail
  <2>1. PICK e : LET t == UnpackEntry(g.tree, e, sc.xattrs)
                     converted == IsConverted(e, sc.xattrs)
                 IN /\ t # Failed
                    /\ g' = [g EXCEPT !.pos = @ + 1, !.hashed = Append(@, e), !.tree = t,
                                      !.pc = IF OpenBlocks(e) /\ ~converted THEN "blocked" ELSE @,
                                      !.dirs = IF e.kind = "dir" /\ ~converted THEN @ \cup {e.path} ELSE @]
    BY <1>7 DEF ReadEntry
  <2>2. PICK t : t = UnpackEntry(h.tree, e, sc.xattrs)
    OBVIOUS
  <2>3. PICK ds : ds = IF e.kind = "dir" /\ ~IsConverted(e, sc.xattrs) THEN h.dirs \cup {e.path} ELSE h.dirs
    OBVIOUS
  <2>4. PICK pc : pc = IF OpenBlocks(e) /\ ~IsConverted(e, sc.xattrs) THEN "blocked" ELSE h.pc
    OBVIOUS
  <2>5. k = [h EXCEPT !.pos = h.pos + 1, !.hashed = Append(h.hashed, e), !.tree = t, !.pc = pc, !.dirs = ds]
        /\ t # Failed
    BY <2>1, <2>2, <2>3, <2>4, <1>1, <1>2
  <2>6. /\ k = [f \in Fields |-> k[f]] /\ k.pos = h.pos + 1 /\ k.hashed = Append(h.hashed, e)
        /\ k.tree = t /\ k.pc = pc /\ k.dirs = ds
    BY <2>5, <1>3 DEF Fields
  <2>7. pc \in Streaming
    BY <2>4, <1>1 DEF ReadEntry, Streaming
  <2>8. PICK s : s = h.hashed
    OBVIOUS
  <2>9. /\ k.hashed \in Seq(S \cup {e}) /\ Len(k.hashed) = k.pos /\ k.pos \in Nat
        /\ k.hashed[k.pos] = e /\ \A i \in 1..h.pos : k.hashed[i] = h.hashed[i]
    <3>1. s \in Seq(S \cup {e}) /\ Len(s) = h.pos
      BY <1>3, <1>4, <2>8
    <3>2. /\ Append(s, e) \in Seq(S \cup {e}) /\ Len(Append(s, e)) = Len(s) + 1
          /\ Append(s, e)[Len(s) + 1] = e /\ \A i \in 1..Len(s) : Append(s, e)[i] = s[i]
      BY <3>1
    <3>3. k.hashed = Append(s, e) /\ k.pos = Len(s) + 1 /\ Len(s) = h.pos /\ h.pos \in Nat
      BY <3>1, <2>6, <2>8, <1>3
    <3>4. k.hashed \in Seq(S \cup {e}) /\ Len(k.hashed) = k.pos /\ k.pos \in Nat
      BY <3>2, <3>3
    <3>5. k.hashed[k.pos] = e
      BY <3>2, <3>3
    <3>6. \A i \in 1..h.pos : k.hashed[i] = h.hashed[i]
      BY <3>2, <3>3, <2>8
    <3>. QED
      BY <3>4, <3>5, <3>6
  <2>10. ASSUME OnTrack(k) PROVE StreamOK(k)
    <3>1. k.pos <= Len(sc.tar) /\ \A i \in 1..k.pos : k.hashed[i] = sc.tar[i]
      BY <2>10 DEF OnTrack
    <3>2. Len(sc.tar) \in Nat /\ h.pos \in Nat /\ k.pos = h.pos + 1
      BY <1>3, <1>5, <2>6, ScenarioType
    <3>3. OnTrack(h)
      <4>1. h.pos <= Len(sc.tar)
        BY <3>1, <3>2
      <4>2. \A i \in 1..h.pos : i \in 1..k.pos
        BY <3>2
      <4>. QED
        BY <4>1, <4>2, <3>1, <2>9 DEF OnTrack
    <3>4. e = sc.tar[k.pos] /\ k.pos \in 1..Len(sc.tar)
      BY <3>1, <3>2, <2>9
    <3>5. IsEntry(e) /\ sc.xattrs \in BOOLEAN
      BY <3>4, <1>5, ScenarioType
    <3>6. SoFar(k.pos) = SoFar(h.pos) \cup {e}
      <4>1. \A i : i \in 1..k.pos <=> i \in 1..h.pos \/ i = k.pos
        BY <3>2
      <4>. QED
        BY <4>1, <3>4 DEF SoFar
    <3>7. StreamOK(h)
      BY <3>3, <1>3
    <3>8. IsTree(t)
      BY <3>5, <3>7, <2>2, <2>5, EntryCases DEF StreamOK
    <3>9. ASSUME sc.xattrs PROVE Merged(t, SoFar(k.pos))
      <4>1. Merged(h.tree, SoFar(h.pos)) /\ IsTree(h.tree)
        BY <3>7, <3>9 DEF StreamOK
      <4>2. t = UnpackEntry(h.tree, e, TRUE)
        BY <2>2, <3>5, <3>9
      <4>3. UnpackEntry(h.tree, e, TRUE) # Failed
        BY <4>2, <2>5
      <4>4. PICK before, old : before = SoFar(h.pos) /\ old = h.tree
        OBVIOUS
      <4>5. Merged(UnpackEntry(old, e, TRUE), before \cup {e})
        BY <4>1, <4>3, <4>4, <3>5, MergedStep
      <4>. QED
        BY <4>2, <4>4, <4>5, <3>6
    <3>10. Restored(t, SoFar(k.pos), ds, sc.xattrs)
      <4>1. Restored(h.tree, SoFar(h.pos), h.dirs, sc.xattrs) /\ IsTree(h.tree)
        BY <3>7 DEF StreamOK
      <4>. QED
        BY <4>1, <3>5, <3>6, <2>2, <2>3, <2>5, RestoredStep
    <3>11. t = TreeAfter(sc.tar, sc.xattrs)[k.pos]
      <4>1. PICK f : f = TreeAfter(sc.tar, sc.xattrs)
        OBVIOUS
      <4>2. \A n \in 1..Len(sc.tar) :
               f[n] = IF f[n - 1] = Failed THEN Failed ELSE UnpackEntry(f[n - 1], sc.tar[n], sc.xattrs)
        BY <4>1, <3>2, TreeAfterDef DEF IsTreeAfter
      <4>3. k.pos - 1 = h.pos
        BY <3>2
      <4>4. f[h.pos] = h.tree /\ h.tree # Failed
        BY <4>1, <3>7 DEF StreamOK
      <4>. QED
        BY <4>1, <4>2, <4>3, <4>4, <3>4, <2>2
    <3>. QED
      BY <3>8, <3>9, <3>10, <3>11, <2>5, <2>6 DEF StreamOK
  <2>11. HandlerOK(k)'
    <3>1. OnTrack(k)' => OnTrack(k)
      BY <1>5 DEF OnTrack
    <3>2. StreamOK(k) => StreamOK(k)'
      BY <1>5 DEF StreamOK, SoFar
    <3>. QED
      BY <3>1, <3>2, <2>6, <2>7, <2>9, <2>10 DEF HandlerOK, Before, Streaming, Complete, Ended
  <2>. QED
    BY <2>11, <1>2, <1>5 DEF LayerInv
<1>. QED
  BY <1>6, <1>7

LEMMA EofRead == LayerInv /\ ReadEof => LayerInv'
<1>. SUFFICES ASSUME LayerInv, ReadEof PROVE LayerInv'
  OBVIOUS
<1>1. sc \in Scenarios /\ sc' = sc
  BY DEF LayerInv, ReadEof
<1>2. CASE Fail
  BY <1>1, <1>2, HandlerFails
<1>3. CASE ~Fail
  <2>1. PICK h : h = g
    OBVIOUS
  <2>2. PICK k : k = g'
    OBVIOUS
  <2>3. /\ h = [f \in Fields |-> h[f]] /\ h.pos \in Nat /\ Len(h.hashed) = h.pos
        /\ \E S : h.hashed \in Seq(S) /\ (OnTrack(h) => StreamOK(h))
    BY <2>1 DEF LayerInv, HandlerOK, ReadEof, Streaming
  <2>4. k = [h EXCEPT !.pc = "verify", !.tree = SetDirTimes(h.tree, h.dirs)]
    BY <1>3, <2>1, <2>2 DEF ReadEof
  <2>5. /\ k = [f \in Fields |-> k[f]] /\ k.pc = "verify" /\ k.tree = SetDirTimes(h.tree, h.dirs)
        /\ k.pos = h.pos /\ k.hashed = h.hashed
    BY <2>3, <2>4 DEF Fields
  <2>6. ASSUME OnTrack(k) PROVE Finished(k.tree, SoFar(k.pos), sc.xattrs)
    <3>1. StreamOK(h)
      BY <2>3, <2>5, <2>6 DEF OnTrack
    <3>. QED
      BY <3>1, <2>5, TimesFinish DEF StreamOK
  <2>7. HandlerOK(k)'
    <3>1. OnTrack(k)' => OnTrack(k)
      BY <1>1 DEF OnTrack
    <3>2. Finished(k.tree, SoFar(k.pos), sc.xattrs) => Finished(k.tree, SoFar(k.pos), sc.xattrs)'
      BY <1>1 DEF SoFar
    <3>. QED
      BY <3>1, <3>2, <2>3, <2>5, <2>6 DEF HandlerOK, Before, Streaming, Complete, Ended
  <2>. QED
    BY <2>2, <2>7, <1>1 DEF LayerInv
<1>. QED
  BY <1>2, <1>3

LEMMA LayerVerified == LayerInv /\ Verify => LayerInv'
<1>. SUFFICES ASSUME LayerInv, Verify PROVE LayerInv'
  OBVIOUS
<1>1. sc \in Scenarios /\ sc' = sc
  BY DEF LayerInv, Verify
<1>2. CASE Fail
  BY <1>1, <1>2, HandlerFails
<1>3. CASE ~Fail
  <2>1. PICK h : h = g
    OBVIOUS
  <2>2. PICK k : k = g'
    OBVIOUS
  <2>3. k = [h EXCEPT !.pc = "stored"] /\ h.hashed = sc.tar
    BY <1>3, <2>1, <2>2 DEF Verify, To
  <2>4. /\ h = [f \in Fields |-> h[f]] /\ h.pos \in Nat /\ Len(h.hashed) = h.pos
        /\ \E S : h.hashed \in Seq(S)
        /\ OnTrack(h) => Finished(h.tree, SoFar(h.pos), sc.xattrs)
    BY <2>1 DEF LayerInv, HandlerOK, Verify, Complete
  <2>5. /\ k = [f \in Fields |-> k[f]] /\ k.pc = "stored" /\ k.tree = h.tree
        /\ k.pos = h.pos /\ k.hashed = h.hashed
    BY <2>3, <2>4 DEF Fields
  <2>6. OnTrack(k)' => Finished(k.tree, SoFar(k.pos), sc.xattrs)'
    <3>1. OnTrack(k)' => OnTrack(h)
      BY <1>1, <2>5 DEF OnTrack
    <3>2. Finished(h.tree, SoFar(h.pos), sc.xattrs) => Finished(k.tree, SoFar(k.pos), sc.xattrs)'
      BY <1>1, <2>5 DEF SoFar
    <3>. QED
      BY <3>1, <3>2, <2>4
  <2>7. HandlerOK(k)'
    BY <1>1, <2>3, <2>4, <2>5, <2>6 DEF HandlerOK, Before, Streaming, Complete, Ended
  <2>. QED
    BY <2>2, <2>7, <1>1 DEF LayerInv
<1>. QED
  BY <1>2, <1>3

LEMMA UnpackBegins == LayerInv /\ BeginUnpack => LayerInv'
<1>. SUFFICES ASSUME LayerInv, BeginUnpack PROVE LayerInv'
  OBVIOUS
<1>1. sc \in Scenarios /\ sc' = sc
  BY DEF LayerInv, BeginUnpack
<1>2. CASE Fail
  BY <1>1, <1>2, HandlerFails
<1>3. CASE ~Fail
  <2>1. PICK h : h = g
    OBVIOUS
  <2>2. PICK k : k = g'
    OBVIOUS
  <2>3. k = [h EXCEPT !.pc = "stream", !.tree = <<>>]
    BY <1>3, <2>1, <2>2 DEF BeginUnpack
  <2>4. /\ h = [f \in Fields |-> h[f]] /\ h.pos = 0 /\ Len(h.hashed) = h.pos
        /\ h.dirs = {} /\ \E S : h.hashed \in Seq(S)
    BY <2>1 DEF LayerInv, HandlerOK, BeginUnpack, Before
  <2>5. /\ k = [f \in Fields |-> k[f]] /\ k.pc = "stream" /\ k.tree = <<>>
        /\ k.pos = 0 /\ k.hashed = h.hashed /\ k.dirs = {}
    BY <2>3, <2>4 DEF Fields
  <2>6. StreamOK(k)'
    <3>1. SoFar(k.pos)' = {}
      BY <2>5 DEF SoFar
    <3>2. k.tree = TreeAfter(sc.tar, sc.xattrs)[k.pos] /\ k.tree # Failed
      BY <2>5, <1>1, ScenarioType, TreeAfterDef, PublisherAssumption DEF IsTreeAfter
    <3>. QED
      BY <3>1, <3>2, <2>5, <1>1, EmptyTree DEF StreamOK
  <2>7. HandlerOK(k)'
    BY <2>4, <2>5, <2>6 DEF HandlerOK, Before, Streaming, Complete, Ended
  <2>. QED
    BY <2>2, <2>7, <1>1 DEF LayerInv
<1>. QED
  BY <1>2, <1>3

LEMMA LayerInvStep == LayerInv /\ [Next]_vars => LayerInv'
<1>. SUFFICES ASSUME LayerInv, [Next]_vars PROVE LayerInv'
  OBVIOUS
<1>0. g = [f \in Fields |-> g[f]]
  BY DEF LayerInv, HandlerOK
<1>1. CASE UNCHANGED <<sc, g>>
  <2>1. PICK h : h = g
    OBVIOUS
  <2>2. HandlerOK(h)'
    BY <1>1, <2>1 DEF LayerInv, HandlerOK, OnTrack, SoFar, StreamOK
  <2>. QED
    BY <1>1, <2>1, <2>2 DEF LayerInv
<1>2. CASE Publisher \/ Damage \/ UNCHANGED vars
  BY <1>1, <1>2 DEF Publisher, Damage, EncryptLayer, CipherRead, Rewrap, Finalize, FinalizeElsewhere, vars
<1>3. CASE Open
  <2>1. g.pc = "wait" /\ sc' = sc /\ \E m : \/ g' = [g EXCEPT !.pc = "config", !.media = m]
                                             \/ g' = [g EXCEPT !.pc = "begin", !.media = m]
    BY <1>3 DEF Open
  <2>. QED
    BY <1>0, <2>1, HandlerBefore DEF Before, Fields
<1>4. CASE GetDecryptConfig
  <2>1. g.pc = "config" /\ sc' = sc /\ (Fail \/ \E d : g' = [g EXCEPT !.pc = "unwrap", !.dc = d])
    BY <1>4 DEF GetDecryptConfig
  <2>. QED
    BY <1>0, <2>1, HandlerBefore, HandlerFails DEF Before, Fields
<1>5. CASE \E r \in BOOLEAN : GetDecryptKey(r)
  <2>1. /\ g.pc = "unwrap" /\ sc' = sc
        /\ \/ Fail \/ FailExcused
           \/ \E o : g' = [g EXCEPT !.pc = "cipher", !.key = o.key, !.nonce = o.nonce]
    BY <1>5 DEF GetDecryptKey
  <2>. QED
    BY <1>0, <2>1, HandlerBefore, HandlerFails DEF Before, Fields
<1>6. CASE InitCipher
  <2>1. /\ g.pc = "cipher" /\ sc' = sc
        /\ \/ Fail
           \/ \E o, n : g' = [g EXCEPT !.pc = "begin", !.hmac = o, !.nonce = n]
    BY <1>6 DEF InitCipher
  <2>. QED
    BY <1>0, <2>1, HandlerBefore, HandlerFails DEF Before, Fields
<1>7. CASE BeginUnpack
  BY <1>7, UnpackBegins
<1>8. CASE ReadEntry
  BY <1>8, EntryRead
<1>9. CASE ReadEof
  BY <1>9, EofRead
<1>10. CASE Verify
  BY <1>10, LayerVerified
<1>11. CASE Cleanup
  <2>1. g' = [g EXCEPT !.pc = "failed", !.tree = None] /\ sc' = sc
    BY <1>11 DEF Cleanup
  <2>2. /\ g' = [f \in Fields |-> g'[f]] /\ g'.pc = "failed" /\ g'.tree = None
        /\ g'.pos = g.pos /\ g'.hashed = g.hashed
    BY <1>0, <2>1 DEF Fields
  <2>. QED
    BY <2>1, <2>2 DEF LayerInv, HandlerOK, Before, Streaming, Complete, Ended
<1>12. CASE StreamBreaks \/ UnpackTimeout
  BY <1>12, HandlerFails DEF StreamBreaks, UnpackTimeout
<1>. QED
  BY <1>2, <1>3, <1>4, <1>5, <1>6, <1>7, <1>8, <1>9, <1>10, <1>11, <1>12 DEF Next, Handler

-----------------------------------------------------------------------------
(* What a layer that is kept is, and that no other leaves anything.         *)

LEMMA LayerInvHolds == Spec => []LayerInv
  BY HandlerInit, LayerInvStep, PTL DEF Spec

LEMMA StoredIsFinished ==
    ASSUME LayerInv, g.pc = "stored"
    PROVE  /\ {sc.tar[i] : i \in DOMAIN sc.tar} = SoFar(g.pos)
           /\ Finished(g.tree, SoFar(g.pos), sc.xattrs)
<1>1. sc \in Scenarios /\ g.hashed = sc.tar /\ Len(g.hashed) = g.pos
  BY DEF LayerInv, HandlerOK
<1>2. DOMAIN sc.tar = 1..Len(sc.tar) /\ Len(sc.tar) \in Nat
  BY <1>1, ScenarioType
<1>3. OnTrack(g)
  BY <1>1, <1>2 DEF OnTrack
<1>4. Finished(g.tree, SoFar(g.pos), sc.xattrs)
  BY <1>3 DEF LayerInv, HandlerOK, Complete
<1>. QED
  BY <1>1, <1>2, <1>4 DEF SoFar

LEMMA MergedFromInv == LayerInv => MergedTreeIsChangeset
<1>. SUFFICES ASSUME LayerInv, g.pc = "stored", sc.xattrs, ~MarksRoot(sc.tar)
              PROVE  Overlay(Lower, g.tree) = Changeset(Lower, sc.tar)
  BY DEF MergedTreeIsChangeset
<1>1. PICK tar : tar = sc.tar
  OBVIOUS
<1>2. Merged(g.tree, {tar[i] : i \in DOMAIN tar})
  BY <1>1, StoredIsFinished DEF Finished
<1>3. \A i \in DOMAIN tar : IsEntry(tar[i])
  BY <1>1, ScenarioType DEF LayerInv
<1>4. ~MarksRoot(tar)
  BY <1>1
<1>. QED
  BY <1>1, <1>2, <1>3, <1>4, OverlayIsChangeset

LEMMA AttributesFromInv == LayerInv => AttributesRestored
<1>. SUFFICES ASSUME LayerInv, g.pc = "stored", NEW i \in DOMAIN sc.tar, NEW e, e = sc.tar[i],
                     e.kind \in {"dir", "file"}, ~IsConverted(e, sc.xattrs),
                     e.path \in DOMAIN g.tree, g.tree[e.path].kind = e.kind
              PROVE  g.tree[e.path].mtime /\ g.tree[e.path].perms
  BY DEF AttributesRestored
<1>1. e \in SoFar(g.pos) /\ Finished(g.tree, SoFar(g.pos), sc.xattrs)
  BY StoredIsFinished
<1>2. g.tree[e.path].mtime = TRUE /\ g.tree[e.path].perms = TRUE
  BY <1>1 DEF Finished
<1>. QED
  BY <1>2

\* Whatever archive, whatever image below, whatever the registry did: a layer
\* that async_handle_layer keeps, as overlayfs stacks it, is its changeset.
THEOREM MergedTreeHolds == Spec => []MergedTreeIsChangeset
  BY LayerInvHolds, MergedFromInv, PTL

\* Every file and directory of a layer that is kept has the header's mode and
\* mtime, whatever came after it in the archive.
THEOREM AttributesHold == Spec => []AttributesRestored
  BY LayerInvHolds, AttributesFromInv, PTL

\* A layer that is refused leaves nothing of what had been unpacked.
THEOREM NothingUnverified == Spec => []NothingUnverifiedStays
<1>1. LayerInv => NothingUnverifiedStays
  BY DEF LayerInv, HandlerOK, NothingUnverifiedStays
<1>. QED
  BY <1>1, LayerInvHolds, PTL

-----------------------------------------------------------------------------
(* The publisher and the registry.                                          *)

PubFields == {"pc", "ec", "blocks", "hmac", "rewrapped"}
BlobFields == {"blocks", "size", "annotations", "damaged"}

\* The encrypted archive, and what goes with it.
Ciphertext == [i \in 1..Len(sc.tar) |-> Block(i, sc.tar[i])]
Public == PublicOptions(Hmac(Lek, Ciphertext))
GoodAnnotations(as) ==
    /\ PubOpts \in DOMAIN as /\ as[PubOpts] = Public
    /\ \A id \in DOMAIN as \ {PubOpts} : \E p : as[id] = <<p>> /\ p.opts = PrivateOptions

PublishedAsIs(b) ==
    /\ b.size = Len(sc.tar)
    /\ ~Encrypted => b.blocks = sc.tar
    /\ Encrypted => b.blocks = Ciphertext /\ GoodAnnotations(b.annotations)

\* The publisher has encrypted the first entries; what it published is the
\* whole, until it is damaged or wrapped again.
PublisherOK ==
    /\ pub = [f \in PubFields |-> pub[f]]
    /\ Encrypted => /\ Len(pub.blocks) \in 0..Len(sc.tar)
                    /\ pub.blocks = [i \in 1..Len(pub.blocks) |-> Block(i, sc.tar[i])]
    /\ pub.pc = "read" => Len(pub.blocks) = Len(sc.tar) /\ pub.hmac = Hmac(Lek, pub.blocks)
    /\ ~Encrypted => pub.pc = "idle"
    /\ blob # None /\ Encrypted => pub.pc \in {"published", "failed"}
    /\ blob # None => /\ blob = [f \in BlobFields |-> blob[f]]
                      /\ blob.damaged \in BOOLEAN
                      /\ blob.damaged # TRUE /\ pub.rewrapped # TRUE => PublishedAsIs(blob)

\* The packets that a key wrapper makes hold the private options.
LEMMA WrappedAnnotations ==
    ASSUME NEW ws, NEW ec, NEW hmac,
           LET new == FinalizeAnnotations(ws, ec, <<>>, PrivateOptions, PublicOptions(hmac), Err)
           IN new # Err
    PROVE  LET new == FinalizeAnnotations(ws, ec, <<>>, PrivateOptions, PublicOptions(hmac), Err)
           IN /\ PubOpts \in DOMAIN new /\ new[PubOpts] = PublicOptions(hmac)
              /\ \A id \in DOMAIN new \ {PubOpts} : \E p : new[id] = <<p>> /\ p.opts = PrivateOptions
<1>. DEFINE packet == [w \in ws |-> WrapKeys(w, ec, PrivateOptions, Err)]
            ids == {AnnotationId(w) : w \in ws}
            wrapper(id) == CHOOSE w \in ws : AnnotationId(w) = id
            new == FinalizeAnnotations(ws, ec, <<>>, PrivateOptions, PublicOptions(hmac), Err)
<1>1. /\ \A w \in ws : packet[w] # Err
      /\ new = [id \in ids \cup {PubOpts} |->
                   IF id = PubOpts THEN PublicOptions(hmac)
                   ELSE Append(Values(<<>>, id), packet[wrapper(id)])]
  BY DEF FinalizeAnnotations
<1>2. \A w \in ws : packet[w].opts = PrivateOptions
  <2>1. ASSUME NEW w \in ws PROVE packet[w].opts = PrivateOptions
    <3>1. packet[w] # Err /\ packet[w] = WrapKeys(w, ec, PrivateOptions, Err)
      BY <1>1
    <3>2. w.scheme = "jwe" /\ packet[w] = JweWrap(ec, PrivateOptions)
      BY <3>1 DEF WrapKeys, ProviderWrap, FromService
    <3>3. PICK to : packet[w] = [to |-> to, opts |-> PrivateOptions]
      BY <3>1, <3>2 DEF JweWrap
    <3>. QED
      BY <3>3
  <2>. QED
    BY <2>1
<1>. HIDE DEF packet
<1>3. ASSUME NEW id \in ids, id # PubOpts
      PROVE \E p : new[id] = <<p>> /\ p.opts = PrivateOptions
  <2>1. wrapper(id) \in ws
    BY <1>3
  <2>2. PICK p : p = packet[wrapper(id)]
    OBVIOUS
  <2>3. p.opts = PrivateOptions
    BY <1>2, <2>1, <2>2
  <2>4. Values(<<>>, id) = <<>>
    BY DEF Values
  <2>5. Append(<<>>, p) = <<p>>
    OBVIOUS
  <2>6. new[id] = Append(Values(<<>>, id), packet[wrapper(id)])
    BY <1>1, <1>3
  <2>. QED
    BY <2>2, <2>3, <2>4, <2>5, <2>6
<1>. HIDE DEF ids, wrapper
<1>4. DOMAIN new = ids \cup {PubOpts} /\ new[PubOpts] = PublicOptions(hmac)
  BY <1>1
<1>. QED
  BY <1>3, <1>4

\* And so does the key provider's.
LEMMA ServicePacket ==
    ASSUME NEW form, NEW ec, NEW reached, Service(form, PrivateOptions, ec, reached) # Err
    PROVE  form = "base64" /\ Service(form, PrivateOptions, ec, reached).packet.opts = PrivateOptions
<1>. DEFINE answer == WrapKeyService(form, PrivateOptions, ec, Random, sc.kbsGiven)
<1>1. answer # Err /\ Service(form, PrivateOptions, ec, reached) = answer
  BY DEF Service
<1>2. form = "base64"
  BY <1>1 DEF WrapKeyService
<1>3. PICK par : answer = EncOptsdataGenAnno(PrivateOptions, par, Random, sc.kbsGiven)
  BY <1>1 DEF WrapKeyService
<1>. HIDE DEF answer
<1>4. PICK ver, prov, kid, kek, iv, wt, reg :
        answer = [packet |-> [version |-> ver, provider |-> prov, kid |-> kid, kek |-> kek,
                              iv |-> iv, wrapType |-> wt, opts |-> PrivateOptions],
                  register |-> reg]
  BY <1>1, <1>3 DEF EncOptsdataGenAnno
<1>5. answer.packet.opts = PrivateOptions
  BY <1>4
<1>. QED
  BY <1>1, <1>2, <1>5

LEMMA PublisherInit == Init => PublisherOK
<1>. SUFFICES ASSUME Init PROVE PublisherOK
  OBVIOUS
<1>1. /\ pub = NoPublisher /\ sc \in Scenarios
      /\ blob = IF sc.tool = None THEN [blocks |-> sc.tar, size |-> Len(sc.tar), annotations |-> <<>>, damaged |-> FALSE]
                ELSE None
  BY DEF Init
<1>2. /\ pub = [f \in PubFields |-> pub[f]] /\ pub.pc = "idle" /\ pub.blocks = <<>> /\ pub.rewrapped = FALSE
  BY <1>1 DEF NoPublisher, PubFields
<1>3. Len(sc.tar) \in Nat
  BY <1>1, ScenarioType
<1>4. Len(<<>>) = 0 /\ 0 \in 0..Len(sc.tar) /\ <<>> = [i \in 1..0 |-> Block(i, sc.tar[i])]
  BY <1>3
<1>5. CASE Encrypted
  BY <1>1, <1>2, <1>4, <1>5 DEF Encrypted, PublisherOK
<1>6. CASE ~Encrypted
  <2>1. PICK b : b = blob
    OBVIOUS
  <2>2. b = [blocks |-> sc.tar, size |-> Len(sc.tar), annotations |-> <<>>, damaged |-> FALSE]
    BY <1>1, <1>6, <2>1 DEF Encrypted
  <2>3. /\ b = [f \in BlobFields |-> b[f]] /\ b.damaged = FALSE /\ b.blocks = sc.tar /\ b.size = Len(sc.tar)
    BY <2>2 DEF BlobFields
  <2>. QED
    BY <1>2, <1>6, <2>1, <2>3 DEF PublisherOK, PublishedAsIs
<1>. QED
  BY <1>5, <1>6

\* Publishing the whole of an encrypted layer.
LEMMA PublishStep ==
    ASSUME PublisherOK, sc \in Scenarios, sc' = sc, Encrypted, pub.pc = "read",
           NEW as, GoodAnnotations(as), Publish(as, FALSE)
    PROVE  PublisherOK'
<1>1. PICK b : b = blob'
  OBVIOUS
<1>2. PICK q : q = pub'
  OBVIOUS
<1>3. pub = [f \in PubFields |-> pub[f]] /\ pub.blocks = Ciphertext /\ Len(pub.blocks) = Len(sc.tar)
  BY DEF PublisherOK, Ciphertext
<1>4. /\ b = [blocks |-> pub.blocks, size |-> Len(pub.blocks), annotations |-> as, damaged |-> FALSE]
      /\ q = [pub EXCEPT !.pc = "published", !.rewrapped = FALSE]
  BY <1>1, <1>2 DEF Publish
<1>5. /\ b = [f \in BlobFields |-> b[f]] /\ b.blocks = pub.blocks /\ b.size = Len(pub.blocks)
      /\ b.annotations = as /\ b.damaged = FALSE
  BY <1>4 DEF BlobFields
<1>6. /\ q = [f \in PubFields |-> q[f]] /\ q.pc = "published" /\ q.rewrapped = FALSE /\ q.blocks = pub.blocks
  BY <1>3, <1>4 DEF PubFields
<1>7. PublishedAsIs(b)'
  BY <1>3, <1>5 DEF PublishedAsIs, Ciphertext, Encrypted, GoodAnnotations, Public
<1>8. /\ Len(pub.blocks) \in 0..Len(sc.tar)
      /\ pub.blocks = [i \in 1..Len(pub.blocks) |-> Block(i, sc.tar[i])]
  BY DEF PublisherOK
<1>. QED
  BY <1>1, <1>2, <1>5, <1>6, <1>7, <1>8 DEF PublisherOK, Encrypted

\* The publisher gives up.
LEMMA PublisherGivesUp ==
    ASSUME PublisherOK, sc' = sc, Encrypted, PublisherFails, blob' = blob
    PROVE  PublisherOK'
<1>1. PICK q : q = pub'
  OBVIOUS
<1>2. pub = [f \in PubFields |-> pub[f]] /\ q = [pub EXCEPT !.pc = "failed"]
  BY <1>1 DEF PublisherOK, PublisherFails
<1>3. /\ q = [f \in PubFields |-> q[f]] /\ q.pc = "failed" /\ q.rewrapped = pub.rewrapped
      /\ q.blocks = pub.blocks
  BY <1>2 DEF PubFields
<1>4. \A b : PublishedAsIs(b) => PublishedAsIs(b)'
  BY DEF PublishedAsIs, Encrypted, Ciphertext, GoodAnnotations, Public
<1>. QED
  BY <1>1, <1>3, <1>4 DEF PublisherOK, Encrypted

LEMMA LayerEncrypted ==
    ASSUME PublisherOK, EncryptLayer
    PROVE  PublisherOK'
<1>1. CASE PublisherFails
  BY <1>1, PublisherGivesUp DEF EncryptLayer
<1>2. CASE ~PublisherFails
  <2>1. PICK q : q = pub'
    OBVIOUS
  <2>2. PICK ec : q = [pub EXCEPT !.pc = "encrypt", !.ec = ec]
    BY <1>2, <2>1 DEF EncryptLayer
  <2>3. pub = [f \in PubFields |-> pub[f]] /\ pub.pc = "idle" /\ Encrypted /\ sc' = sc /\ blob' = blob
    BY DEF PublisherOK, EncryptLayer
  <2>4. /\ q = [f \in PubFields |-> q[f]] /\ q.pc = "encrypt" /\ q.blocks = pub.blocks
    BY <2>2, <2>3 DEF PubFields
  <2>5. blob = None
    BY <2>3 DEF PublisherOK
  <2>. QED
    BY <2>1, <2>3, <2>4, <2>5 DEF PublisherOK, Encrypted
<1>. QED
  BY <1>1, <1>2

LEMMA BlockEncrypted ==
    ASSUME PublisherOK, sc \in Scenarios, CipherRead
    PROVE  PublisherOK'
<1>1. PICK q : q = pub'
  OBVIOUS
<1>2. pub = [f \in PubFields |-> pub[f]] /\ pub.pc = "encrypt" /\ Encrypted /\ sc' = sc /\ blob' = blob
  BY DEF PublisherOK, CipherRead
<1>3. blob = None
  BY <1>2 DEF PublisherOK
<1>4. PICK s : s = pub.blocks
  OBVIOUS
<1>5. PICK n : n = Len(s)
  OBVIOUS
<1>6. n \in 0..Len(sc.tar) /\ Len(sc.tar) \in Nat /\ s = [i \in 1..n |-> Block(i, sc.tar[i])]
  BY <1>2, <1>4, <1>5, ScenarioType DEF PublisherOK
<1>7. CASE n + 1 <= Len(sc.tar)
  <2>1. PICK c : c = Block(n + 1, sc.tar[n + 1])
    OBVIOUS
  <2>2. q = [pub EXCEPT !.blocks = Append(s, c)]
    BY <1>1, <1>4, <1>5, <1>7, <2>1 DEF CipherRead
  <2>3. q = [f \in PubFields |-> q[f]] /\ q.pc = "encrypt" /\ q.blocks = Append(s, c)
    BY <1>2, <2>2 DEF PubFields
  <2>4. n \in Nat /\ n + 1 \in 0..Len(sc.tar)
    BY <1>6, <1>7
  <2>5. PICK S : S = {Block(i, sc.tar[i]) : i \in 1..(n + 1)}
    OBVIOUS
  <2>6. c \in S /\ s \in [1..n -> S]
    BY <2>1, <2>4, <2>5, <1>6
  <2>7. s \in Seq(S)
    BY <2>4, <2>6
  <2>8. PICK b2 : b2 = Append(s, c)
    OBVIOUS
  <2>9. b2 \in Seq(S)
    BY <2>6, <2>7, <2>8
  <2>10. Len(b2) = Len(s) + 1
    BY <2>6, <2>7, <2>8
  <2>11. Len(b2) = n + 1
    BY <2>10, <1>5
  <2>12. \A i \in 1..Len(s) : b2[i] = s[i]
    BY <2>6, <2>7, <2>8
  <2>13. b2[Len(s) + 1] = c
    BY <2>6, <2>7, <2>8
  <2>14. \A i \in 1..(n + 1) : b2[i] = Block(i, sc.tar[i])
    <3>1. \A i \in 1..(n + 1) : i \in 1..n \/ i = n + 1
      BY <2>4
    <3>2. \A i \in 1..n : s[i] = Block(i, sc.tar[i])
      BY <1>6
    <3>3. b2[n + 1] = Block(n + 1, sc.tar[n + 1])
      BY <2>13, <2>1, <1>5
    <3>4. \A i \in 1..n : b2[i] = s[i]
      BY <2>12, <1>5
    <3>. QED
      BY <3>1, <3>2, <3>3, <3>4
  <2>15. b2 = [i \in 1..(n + 1) |-> b2[i]]
    BY <2>9, <2>11
  <2>16. b2 = [i \in 1..(n + 1) |-> Block(i, sc.tar[i])]
    BY <2>14, <2>15
  <2>17. q.blocks = b2
    BY <2>3, <2>8
  <2>18. /\ Len(q.blocks) \in 0..Len(sc.tar)
         /\ q.blocks = [i \in 1..Len(q.blocks) |-> Block(i, sc.tar[i])]
    BY <2>4, <2>11, <2>16, <2>17
  <2>. QED
    BY <1>1, <1>2, <1>3, <2>3, <2>18 DEF PublisherOK, Encrypted
<1>8. CASE ~(n + 1 <= Len(sc.tar))
  <2>1. q = [pub EXCEPT !.pc = "read", !.hmac = Hmac(Lek, s)]
    BY <1>1, <1>4, <1>5, <1>8 DEF CipherRead
  <2>2. q = [f \in PubFields |-> q[f]] /\ q.pc = "read" /\ q.blocks = s /\ q.hmac = Hmac(Lek, s)
    BY <1>2, <1>4, <2>1 DEF PubFields
  <2>3. n = Len(sc.tar)
    BY <1>6, <1>8
  <2>. QED
    BY <1>1, <1>2, <1>3, <1>5, <1>6, <2>2, <2>3 DEF PublisherOK, Encrypted
<1>. QED
  BY <1>7, <1>8

\* finalize_annotations, by either implementation.
LEMMA LayerFinalized ==
    ASSUME PublisherOK, sc \in Scenarios, NEW r \in BOOLEAN, NEW a \in BOOLEAN,
           Finalize(r, a) \/ FinalizeElsewhere(r, a)
    PROVE  PublisherOK'
<1>1. sc' = sc /\ Encrypted
  BY DEF PublisherOK, Finalize, FinalizeElsewhere
<1>2. CASE PublisherFails /\ blob' = blob
  BY <1>1, <1>2, PublisherGivesUp
<1>3. CASE ~(PublisherFails /\ blob' = blob)
  <2>1. pub.pc = "read"
    BY <1>3 DEF Finalize, FinalizeElsewhere
  <2>2. pub.hmac = Hmac(Lek, Ciphertext)
    BY <1>1, <2>1 DEF PublisherOK, Ciphertext
  <2>3. PICK hmac : hmac = pub.hmac
    OBVIOUS
  <2>4. CASE Finalize(r, a)
    <3>1. Service("json", PrivateOptions, pub.ec, r) = Err
      BY ServicePacket
    <3>. DEFINE new == FinalizeAnnotations(sc.pubWrappers, pub.ec, <<>>, PrivateOptions, PublicOptions(hmac), Err)
    <3>2. new # Err /\ Publish(new, FALSE)
      BY <1>3, <2>3, <2>4, <3>1 DEF Finalize, PacketOf
    <3>3. GoodAnnotations(new)
      <4>1. /\ PubOpts \in DOMAIN new /\ new[PubOpts] = PublicOptions(hmac)
            /\ \A id \in DOMAIN new \ {PubOpts} : \E p : new[id] = <<p>> /\ p.opts = PrivateOptions
        BY <3>2, WrappedAnnotations
      <4>. QED
        BY <4>1, <2>2, <2>3 DEF GoodAnnotations, Public
    <3>. HIDE DEF new
    <3>. QED
      BY <1>1, <2>1, <3>2, <3>3, PublishStep
  <2>5. CASE FinalizeElsewhere(r, a)
    <3>1. PICK answer : answer = Service("base64", PrivateOptions, pub.ec, r)
      OBVIOUS
    <3>2. PICK prov : prov = <<"provider", "attestation-agent">>
      OBVIOUS
    <3>. DEFINE new == [id \in {prov, PubOpts} |->
                          IF id = PubOpts THEN PublicOptions(hmac) ELSE <<answer.packet>>]
    <3>3. answer # Err /\ Publish(new, FALSE)
      BY <1>3, <2>3, <2>5, <3>1, <3>2 DEF FinalizeElsewhere
    <3>4. answer.packet.opts = PrivateOptions
      BY <3>1, <3>3, ServicePacket
    <3>5. GoodAnnotations(new)
      BY <2>2, <2>3, <3>4 DEF GoodAnnotations, Public
    <3>. HIDE DEF new
    <3>. QED
      BY <1>1, <2>1, <3>3, <3>5, PublishStep
  <2>. QED
    BY <2>4, <2>5
<1>. QED
  BY <1>2, <1>3

LEMMA LayerRewrapped ==
    ASSUME PublisherOK, Rewrap
    PROVE  PublisherOK'
<1>1. sc' = sc /\ Encrypted
  BY DEF PublisherOK, Rewrap
<1>2. CASE PublisherFails /\ blob' = blob
  BY <1>1, <1>2, PublisherGivesUp
<1>3. CASE ~(PublisherFails /\ blob' = blob)
  <2>1. PICK new : Publish(new, TRUE)
    BY <1>3 DEF Rewrap
  <2>2. PICK b : b = blob'
    OBVIOUS
  <2>3. PICK q : q = pub'
    OBVIOUS
  <2>4. pub = [f \in PubFields |-> pub[f]] /\ q = [pub EXCEPT !.pc = "published", !.rewrapped = TRUE]
    BY <2>1, <2>3 DEF PublisherOK, Publish
  <2>5. q = [f \in PubFields |-> q[f]] /\ q.pc = "published" /\ q.rewrapped = TRUE /\ q.blocks = pub.blocks
    BY <2>4 DEF PubFields
  <2>6. b = [blocks |-> pub.blocks, size |-> Len(pub.blocks), annotations |-> new, damaged |-> FALSE]
    BY <2>1, <2>2 DEF Publish
  <2>7. b = [f \in BlobFields |-> b[f]] /\ b.damaged = FALSE
    BY <2>6 DEF BlobFields
  <2>. QED
    BY <1>1, <2>2, <2>3, <2>5, <2>7 DEF PublisherOK, Encrypted
<1>. QED
  BY <1>2, <1>3

LEMMA LayerDamaged ==
    ASSUME PublisherOK, Damage
    PROVE  PublisherOK'
<1>1. PICK b : b = blob'
  OBVIOUS
<1>2. PICK c : c = blob
  OBVIOUS
<1>3. c # None /\ c = [f \in BlobFields |-> c[f]] /\ sc' = sc /\ pub' = pub
  BY <1>2 DEF PublisherOK, Damage
<1>4. b = [f \in BlobFields |-> b[f]] /\ b.damaged = TRUE
  <2>1. \/ \E x : b = [c EXCEPT !.blocks = x, !.damaged = TRUE]
        \/ b = [c EXCEPT !.annotations[PubOpts].nonce = "n2", !.damaged = TRUE]
        \/ b = [c EXCEPT !.damaged = TRUE, !.annotations = [id \in DOMAIN @ \ {PubOpts} |-> @[id]]]
    BY <1>1, <1>2 DEF Damage, Alter
  <2>2. CASE \E x : b = [c EXCEPT !.blocks = x, !.damaged = TRUE]
    BY <1>3, <2>2 DEF BlobFields
  <2>3. CASE b = [c EXCEPT !.annotations[PubOpts].nonce = "n2", !.damaged = TRUE]
    BY <1>3, <2>3 DEF BlobFields
  <2>4. CASE b = [c EXCEPT !.damaged = TRUE, !.annotations = [id \in DOMAIN @ \ {PubOpts} |-> @[id]]]
    BY <1>3, <2>4 DEF BlobFields
  <2>. QED
    BY <2>1, <2>2, <2>3, <2>4
<1>. QED
  BY <1>1, <1>2, <1>3, <1>4 DEF PublisherOK, Encrypted

LEMMA PublisherStep == LayerInv /\ PublisherOK /\ [Next]_vars => PublisherOK'
<1>. SUFFICES ASSUME LayerInv, PublisherOK, [Next]_vars PROVE PublisherOK'
  OBVIOUS
<1>1. sc \in Scenarios
  BY DEF LayerInv
<1>2. CASE Publisher
  BY <1>1, <1>2, LayerEncrypted, BlockEncrypted, LayerFinalized, LayerRewrapped DEF Publisher
<1>3. CASE Damage
  BY <1>3, LayerDamaged
<1>4. CASE Handler \/ StreamBreaks \/ UnpackTimeout \/ UNCHANGED vars
  <2>1. UNCHANGED <<sc, pub, blob>>
    BY <1>4 DEF Handler, Open, GetDecryptConfig, GetDecryptKey, InitCipher, BeginUnpack, ReadEntry,
                ReadEof, Verify, Cleanup, StreamBreaks, UnpackTimeout, vars
  <2>2. \A b : PublishedAsIs(b) => PublishedAsIs(b)'
    BY <2>1 DEF PublishedAsIs, Encrypted, Ciphertext, GoodAnnotations, Public
  <2>. QED
    BY <2>1, <2>2 DEF PublisherOK, Encrypted
<1>. QED
  BY <1>2, <1>3, <1>4 DEF Next

-----------------------------------------------------------------------------
(* The guest, when nothing went wrong and there is nothing to refuse.       *)

\* Undamaged, wrapped once, no request lost, of a kind the guest takes.
Clean(h) == blob.damaged # TRUE /\ pub.rewrapped # TRUE /\ h.excused # TRUE /\ ~Refusable

\* What the handler holds at each step: the publisher's key, nonce and HMAC,
\* the media type under the encryption, the entries of the archive.  It has
\* failed only without a key.
GuestOK(h) ==
    /\ h.pc \in {"config", "unwrap"} \cup Ended => Encrypted /\ h.key = None
    /\ h.pc = "cipher" => Encrypted
    /\ h.pc \in {"cipher", "begin", "stream"} /\ Encrypted => h.key = Lek /\ h.nonce = "n1"
    /\ h.pc \in {"begin", "stream"} /\ Encrypted => h.hmac = Hmac(Lek, Ciphertext)
    /\ h.pc \in (Before \cup {"stream"}) \ {"wait"} =>
          h.media = IF Encrypted THEN PlainMedia(sc.media) ELSE sc.media
    /\ h.pc # "blocked"
    /\ h.pc \in {"stream", "verify"} => OnTrack(h)
    /\ h.pc = "verify" => h.pos = Len(sc.tar)

AgreeOK(h) ==
    /\ h.pc = "wait" => h.key = None
    /\ h.pc # "wait" => blob # None /\ (Clean(h) => GuestOK(h))

AgreeInv == LayerInv /\ PublisherOK /\ AgreeOK(g)

\* What the hub answers for a packet: the options in it, or an error.
KnownScheme(w) == w.scheme \in {"jwe", "provider"}
MayBeUnwrapped(opts) == opts \in {PrivateOptions, Err}
Answers(as, reply) == \A p \in ProviderPackets(as) : reply[p] \in {p.opts, Err}

\* One packet per annotation, with the private options in it: unwrapped, it is
\* these or an error.
LEMMA PacketUnwrapped ==
    ASSUME NEW w, KnownScheme(w), NEW dc, NEW as, GoodAnnotations(as), NEW reply,
           Answers(as, reply), GetLayerKeyOpts(w, as) # None
    PROVE  MayBeUnwrapped(PreUnwrapKey(w, dc, GetLayerKeyOpts(w, as), reply))
<1>. DEFINE ids == {id \in DOMAIN as :
                        IF w.scheme = "provider" THEN id[1] = "provider" ELSE id = AnnotationId(w)}
<1>1. PICK id : id \in ids /\ GetLayerKeyOpts(w, as) = as[id]
  BY DEF GetLayerKeyOpts
<1>2. id \in DOMAIN as /\ (w.scheme = "provider" => id[1] = "provider") /\ id # PubOpts
  <2>1. id \in DOMAIN as /\ (w.scheme = "provider" => id[1] = "provider")
    BY <1>1
  <2>2. w.scheme # "provider" => id = <<"jwe", w.name>>
    BY <1>1 DEF AnnotationId, KnownScheme
  <2>3. PubOpts[1] = "pubopts" /\ <<"jwe", w.name>>[1] = "jwe"
    BY DEF PubOpts
  <2>. QED
    BY <2>1, <2>2, <2>3
<1>3. PICK p : as[id] = <<p>> /\ p.opts = PrivateOptions
  BY <1>2 DEF GoodAnnotations
<1>4. w.scheme = "provider" => p \in ProviderPackets(as)
  <2>1. DOMAIN <<p>> = {1} /\ <<p>>[1] = p
    OBVIOUS
  <2>2. p \in ToSet(as[id])
    BY <1>3, <2>1 DEF ToSet
  <2>. QED
    BY <1>2, <2>2 DEF ProviderPackets
<1>5. UnwrapKeys(w, dc, p, reply) \in {PrivateOptions, Err}
  <2>1. CASE w.scheme = "jwe"
    BY <2>1, <1>3 DEF UnwrapKeys, JweUnwrap
  <2>2. CASE w.scheme = "provider"
    <3>1. reply[p] \in {PrivateOptions, Err}
      BY <2>2, <1>3, <1>4 DEF Answers
    <3>. QED
      BY <2>2, <3>1 DEF UnwrapKeys, ProviderUnwrap, FromNative, FromService
  <2>. QED
    BY <2>1, <2>2 DEF KnownScheme
<1>6. PICK s : s = <<p>>
  OBVIOUS
<1>7. DOMAIN s = {1} /\ s[1] = p
  BY <1>6
<1>8. PreUnwrapKey(w, dc, s, reply) \in {PrivateOptions, Err}
  <2>. DEFINE good == {i \in DOMAIN s : UnwrapKeys(w, dc, s[i], reply) # Err}
              first == CHOOSE i \in good : \A j \in good : i <= j
  <2>1. CASE good = {}
    BY <2>1 DEF PreUnwrapKey
  <2>2. CASE good # {}
    <3>1. good = {1}
      BY <2>2, <1>7
    <3>2. \E i \in good : \A j \in good : i <= j
      BY <3>1
    <3>3. first \in good
      BY <3>2
    <3>4. s[first] = p
      BY <3>1, <3>3, <1>7
    <3>. HIDE DEF first
    <3>5. PreUnwrapKey(w, dc, s, reply) = UnwrapKeys(w, dc, s[first], reply)
      BY <2>2 DEF PreUnwrapKey, first
    <3>. QED
      BY <3>4, <3>5, <1>5
  <2>. QED
    BY <2>1, <2>2
<1>. QED
  BY <1>1, <1>3, <1>6, <1>8 DEF MayBeUnwrapped

LEMMA OptionsUnwrapped ==
    ASSUME NEW order, NEW S, order \in Seq(S), \A i \in DOMAIN order : order[i].scheme \in {"jwe", "provider"},
           NEW dc, NEW as, GoodAnnotations(as), NEW reply, Answers(as, reply)
    PROVE  MayBeUnwrapped(DecryptLayerKeyOptsData(order, dc, as, reply))
<1>. DEFINE able == {i \in DOMAIN order : GetLayerKeyOpts(order[i], as) # None /\ Probe(order[i], dc)}
            result == [i \in able |-> PreUnwrapKey(order[i], dc, GetLayerKeyOpts(order[i], as), reply)]
            stops == {i \in able : result[i] # Empty}
            first == CHOOSE i \in stops : \A j \in stops : i <= j
<1>1. \A i \in able : result[i] \in {PrivateOptions, Err}
  <2>1. ASSUME NEW i \in able PROVE result[i] \in {PrivateOptions, Err}
    <3>1. PICK w : w = order[i]
      OBVIOUS
    <3>2. KnownScheme(w) /\ GetLayerKeyOpts(w, as) # None
      BY <3>1 DEF KnownScheme
    <3>3. MayBeUnwrapped(PreUnwrapKey(w, dc, GetLayerKeyOpts(w, as), reply))
      BY <3>2, PacketUnwrapped
    <3>. QED
      BY <3>1, <3>3 DEF MayBeUnwrapped
  <2>. QED
    BY <2>1
<1>2. stops \in SUBSET Nat
  <2>1. DOMAIN order = 1..Len(order) /\ Len(order) \in Nat
    OBVIOUS
  <2>2. \A i \in 1..Len(order) : i \in Nat
    BY <2>1
  <2>. QED
    BY <2>1, <2>2
<1>. HIDE DEF result
<1>3. stops # {} => first \in able
  <2>1. ASSUME stops # {} PROVE \E i \in stops : \A j \in stops : i <= j
    BY <2>1, <1>2, LeastOf
  <2>. QED
    BY <2>1
<1>4. DecryptLayerKeyOptsData(order, dc, as, reply) = IF stops = {} THEN Err ELSE result[first]
  BY DEF DecryptLayerKeyOptsData, result
<1>. HIDE DEF first, able
<1>. QED
  BY <1>1, <1>3, <1>4 DEF MayBeUnwrapped

\* What was published, when it is as it was published.
LEMMA BlobAsPublished ==
    ASSUME AgreeInv, g.pc # "wait", Clean(g)
    PROVE  blob # None /\ GuestOK(g) /\ PublishedAsIs(blob) /\ sc \in Scenarios
  BY DEF AgreeInv, AgreeOK, Clean, PublisherOK, LayerInv

LEMMA ConfigAgrees ==
    ASSUME AgreeInv, GetDecryptConfig, Clean(g)
    PROVE  GuestOK(g')
<1>1. PICK h : h = g
  OBVIOUS
<1>2. PICK k : k = g'
  OBVIOUS
<1>3. h.pc = "config" /\ h = [f \in Fields |-> h[f]] /\ GuestOK(h)
  BY <1>1, BlobAsPublished DEF GetDecryptConfig, AgreeInv, LayerInv, HandlerOK
<1>4. k = [h EXCEPT !.pc = "cleanup"] \/ \E d : k = [h EXCEPT !.pc = "unwrap", !.dc = d]
  BY <1>1, <1>2 DEF GetDecryptConfig, Fail, To
<1>5. k.pc \in {"cleanup", "unwrap"} /\ k.key = h.key /\ k.media = h.media
  BY <1>3, <1>4 DEF Fields
<1>6. Encrypted /\ h.key = None
  BY <1>3 DEF GuestOK
<1>7. GuestOK(k)
  BY <1>3, <1>5, <1>6 DEF GuestOK, Ended, Before
<1>. QED
  BY <1>2, <1>7

LEMMA KeyAgrees ==
    ASSUME AgreeInv, NEW reached \in BOOLEAN, GetDecryptKey(reached), Clean(g)
    PROVE  g'.excused = TRUE \/ GuestOK(g')
<1>1. PICK h : h = g
  OBVIOUS
<1>2. PICK k : k = g'
  OBVIOUS
<1>3. h.pc = "unwrap" /\ h = [f \in Fields |-> h[f]] /\ GuestOK(h) /\ PublishedAsIs(blob) /\ sc \in Scenarios
  BY <1>1, BlobAsPublished DEF GetDecryptKey, AgreeInv, LayerInv, HandlerOK
<1>4. Encrypted /\ h.key = None
  BY <1>3 DEF GuestOK
<1>5. PICK as : as = blob.annotations
  OBVIOUS
<1>6. GoodAnnotations(as)
  BY <1>3, <1>4, <1>5 DEF PublishedAsIs
<1>7. PICK reply : reply = [p \in ProviderPackets(as) |-> IF reached THEN UnwrapPacket(p, Kek(p.kid)) ELSE Err]
  OBVIOUS
<1>8. PICK opts : opts = DecryptLayerKeyOptsData(sc.guestOrder, g.dc, as, reply)
  OBVIOUS
<1>9. IF opts = Err THEN IF reached THEN Fail ELSE FailExcused
      ELSE g' = [g EXCEPT !.pc = "cipher", !.key = opts.key, !.nonce = opts.nonce]
  BY <1>5, <1>7, <1>8 DEF GetDecryptKey
<1>10. Answers(as, reply)
  <2>1. \A p, kek : UnwrapPacket(p, kek) \in {p.opts, Err}
    BY DEF UnwrapPacket, UnwrapV1
  <2>. QED
    BY <1>7, <2>1 DEF Answers
<1>11. MayBeUnwrapped(opts)
  <2>1. PICK order, dc : order = sc.guestOrder /\ dc = g.dc
    OBVIOUS
  <2>2. PICK S : S = {order[i] : i \in DOMAIN order}
    OBVIOUS
  <2>3. order \in Seq(S) /\ \A i \in DOMAIN order : order[i].scheme \in {"jwe", "provider"}
    BY <1>3, <2>1, <2>2, PublisherAssumption
  <2>4. MayBeUnwrapped(DecryptLayerKeyOptsData(order, dc, as, reply))
    BY <2>3, <1>6, <1>10, OptionsUnwrapped
  <2>. QED
    BY <2>1, <2>4, <1>8
<1>12. CASE opts = Err
  <2>1. k = [h EXCEPT !.pc = "cleanup"] \/ k = [h EXCEPT !.pc = "cleanup", !.excused = TRUE]
    BY <1>1, <1>2, <1>9, <1>12 DEF Fail, FailExcused, To
  <2>2. k.pc = "cleanup" /\ k.key = None
    BY <1>3, <1>4, <2>1 DEF Fields
  <2>3. GuestOK(k)
    BY <2>2, <1>4 DEF GuestOK, Ended, Before
  <2>. QED
    BY <2>3, <1>2
<1>13. CASE opts # Err
  <2>1. opts.key = Lek /\ opts.nonce = "n1"
    BY <1>11, <1>13 DEF MayBeUnwrapped, PrivateOptions
  <2>2. k = [h EXCEPT !.pc = "cipher", !.key = Lek, !.nonce = "n1"]
    BY <1>1, <1>2, <1>9, <1>13, <2>1
  <2>3. k.pc = "cipher" /\ k.key = Lek /\ k.nonce = "n1" /\ k.media = h.media
    BY <1>3, <2>2 DEF Fields
  <2>4. GuestOK(k)
    BY <1>3, <2>3, <1>4 DEF GuestOK, Ended, Before
  <2>. QED
    BY <2>4, <1>2
<1>. QED
  BY <1>12, <1>13

LEMMA CipherAgrees ==
    ASSUME AgreeInv, InitCipher, Clean(g)
    PROVE  GuestOK(g')
<1>1. PICK h : h = g
  OBVIOUS
<1>2. PICK k : k = g'
  OBVIOUS
<1>3. h.pc = "cipher" /\ h = [f \in Fields |-> h[f]] /\ GuestOK(h) /\ PublishedAsIs(blob) /\ sc \in Scenarios
  BY <1>1, BlobAsPublished DEF InitCipher, AgreeInv, LayerInv, HandlerOK
<1>4. Encrypted /\ h.key = Lek /\ h.nonce = "n1"
  BY <1>3 DEF GuestOK
<1>5. GetLayerPubOpts(blob.annotations) = Public
  BY <1>3, <1>4 DEF PublishedAsIs, GoodAnnotations, GetLayerPubOpts
<1>6. PICK hmac : hmac = Hmac(Lek, Ciphertext)
  OBVIOUS
<1>7. hmac # None /\ PublicOptions(hmac) # Empty
  BY <1>3, <1>6, PublisherAssumption DEF Ciphertext
<1>8. PICK o : o = PublicOptions(hmac)
  OBVIOUS
<1>9. o.cipher = "AES_256_CTR_HMAC_SHA256" /\ o.hmac = hmac /\ o.nonce = None
  BY <1>8 DEF PublicOptions
<1>10. GetLayerPubOpts(blob.annotations) = o
  BY <1>5, <1>6, <1>8 DEF Public
<1>11. k = [h EXCEPT !.pc = "begin", !.hmac = hmac, !.nonce = "n1"]
  BY ZenonT(40), <1>1, <1>2, <1>4, <1>7, <1>8, <1>9, <1>10 DEF InitCipher
<1>12. k.pc = "begin" /\ k.hmac = hmac /\ k.key = Lek /\ k.nonce = "n1" /\ k.media = h.media
  BY <1>3, <1>4, <1>11 DEF Fields
<1>13. GuestOK(k)
  BY <1>3, <1>4, <1>6, <1>12 DEF GuestOK, Ended, Before
<1>. QED
  BY <1>2, <1>13

LEMMA BeginAgrees ==
    ASSUME AgreeInv, BeginUnpack, Clean(g)
    PROVE  GuestOK(g')
<1>1. PICK h : h = g
  OBVIOUS
<1>2. PICK k : k = g'
  OBVIOUS
<1>3. h.pc = "begin" /\ h = [f \in Fields |-> h[f]] /\ GuestOK(h) /\ sc \in Scenarios /\ ~Refusable
  BY <1>1, BlobAsPublished DEF BeginUnpack, AgreeInv, LayerInv, HandlerOK, Clean
<1>4. h.pos = 0 /\ Len(sc.tar) \in Nat
  BY <1>1, <1>3, ScenarioType DEF AgreeInv, LayerInv, HandlerOK, Before
<1>5. Compression(h.media) # Err
  <2>1. CASE Encrypted
    <3>1. h.media \in {"tar", "tar+gzip"}
      BY <1>3, <2>1 DEF GuestOK, PlainMedia, Before
    <3>. QED
      BY <3>1, PublisherAssumption DEF Compression
  <2>2. CASE ~Encrypted
    BY <1>3, <2>2, ScenarioType DEF GuestOK, Refusable, Encrypted, Before
  <2>. QED
    BY <2>1, <2>2
<1>6. sc.digest \in {"sha256", "sha512"}
  BY <1>3 DEF Refusable
<1>7. k = [h EXCEPT !.pc = "stream", !.tree = <<>>]
  BY <1>1, <1>2, <1>5, <1>6 DEF BeginUnpack
<1>8. /\ k.pc = "stream" /\ k.hmac = h.hmac /\ k.key = h.key /\ k.nonce = h.nonce /\ k.media = h.media
      /\ k.pos = 0
  BY <1>3, <1>4, <1>7 DEF Fields
<1>9. OnTrack(k)
  BY <1>4, <1>8 DEF OnTrack
<1>10. GuestOK(k)
  BY <1>3, <1>8, <1>9 DEF GuestOK, Ended, Before
<1>. QED
  BY <1>2, <1>10

\* The stream is as long as the archive, and its next block opens to the next
\* entry.
LEMMA StreamAgrees ==
    ASSUME AgreeInv, g.pc = "stream", Clean(g)
    PROVE  /\ Len(blob.blocks) = Len(sc.tar) /\ StreamEnd = Len(sc.tar) /\ Frame \in Nat
           /\ sc.media = "tar+zstd" => Frame = Len(sc.tar)
           /\ Compression(g.media) = "zstd" => sc.media = "tar+zstd"
           /\ g.pos \in Nat /\ (g.pos < Len(sc.tar) => Opened(blob.blocks[g.pos + 1]) = {sc.tar[g.pos + 1]})
<1>1. PICK h : h = g
  OBVIOUS
<1>2. /\ h.pc = "stream" /\ GuestOK(h) /\ PublishedAsIs(blob) /\ sc \in Scenarios /\ ~Refusable
      /\ h.pos \in Nat
  BY <1>1, BlobAsPublished DEF AgreeInv, LayerInv, HandlerOK, Clean
<1>3. PICK n : n = Len(sc.tar)
  OBVIOUS
<1>4. n \in Nat /\ sc.frame \in Nat /\ \A i \in 1..n : sc.tar[i] # Damaged
  BY <1>2, <1>3, ScenarioType
<1>5. PICK bs : bs = blob.blocks
  OBVIOUS
<1>6. Frame \in Nat /\ Frame <= n
  BY <1>3, <1>4 DEF Frame
<1>7. sc.media = "tar+zstd" => Frame = n
  BY <1>2, <1>3, <1>4, <1>6 DEF Refusable
<1>8. Compression(h.media) = "zstd" => sc.media = "tar+zstd"
  <2>1. CASE Encrypted
    <3>1. h.media \in {"tar", "tar+gzip"}
      BY <1>2, <2>1 DEF GuestOK, PlainMedia
    <3>2. Compression(h.media) \in {"uncompressed", "gzip"}
      BY <3>1 DEF Compression
    <3>. QED
      BY <3>2
  <2>2. CASE ~Encrypted
    <3>1. h.media = sc.media
      BY <1>2, <2>2 DEF GuestOK
    <3>2. ASSUME h.media # "tar+zstd" PROVE Compression(h.media) # "zstd"
      BY <3>2, PublisherAssumption DEF Compression
    <3>. QED
      BY <3>1, <3>2
  <2>. QED
    BY <2>1, <2>2
<1>9. CASE Encrypted
  <2>1. bs = [i \in 1..n |-> Block(i, sc.tar[i])]
    BY <1>2, <1>3, <1>5, <1>9 DEF PublishedAsIs, Ciphertext
  <2>2. Len(bs) = n
    BY <2>1, <1>4
  <2>3. ASSUME h.pos < n PROVE Opened(bs[h.pos + 1]) = {sc.tar[h.pos + 1]}
    <3>1. h.pos + 1 \in 1..n
      BY <2>3, <1>2, <1>4
    <3>2. bs[h.pos + 1] = Block(h.pos + 1, sc.tar[h.pos + 1])
      BY <2>1, <3>1
    <3>3. PICK b : b = bs[h.pos + 1]
      OBVIOUS
    <3>4. b.of = sc.tar[h.pos + 1] /\ b.at = h.pos + 1 /\ b.key = Lek /\ b.nonce = "n1"
      BY <3>2, <3>3 DEF Block
    <3>5. b.of # Damaged
      BY <3>1, <3>4, <1>4
    <3>6. h.key = Lek /\ h.nonce = "n1"
      BY <1>2, <1>9 DEF GuestOK
    <3>. QED
      BY <1>1, <1>9, <3>3, <3>4, <3>5, <3>6 DEF Opened
  <2>. QED
    BY <1>1, <1>2, <1>3, <1>5, <1>6, <1>7, <1>8, <2>2, <2>3 DEF StreamEnd
<1>10. CASE ~Encrypted
  <2>1. bs = sc.tar
    BY <1>2, <1>5, <1>10 DEF PublishedAsIs
  <2>2. ASSUME h.pos < n PROVE Opened(bs[h.pos + 1]) = {sc.tar[h.pos + 1]}
    <3>1. h.pos + 1 \in 1..n
      BY <2>2, <1>2, <1>4
    <3>. QED
      BY <1>4, <1>10, <2>1, <3>1 DEF Opened
  <2>. QED
    BY <1>1, <1>2, <1>3, <1>5, <1>6, <1>7, <1>8, <2>1, <2>2 DEF StreamEnd
<1>. QED
  BY <1>9, <1>10

LEMMA EntryAgrees ==
    ASSUME AgreeInv, ReadEntry, Clean(g)
    PROVE  GuestOK(g')
<1>1. PICK h : h = g
  OBVIOUS
<1>2. PICK k : k = g'
  OBVIOUS
<1>3. /\ h.pc = "stream" /\ h = [f \in Fields |-> h[f]] /\ GuestOK(h) /\ sc \in Scenarios /\ ~Refusable
      /\ h.pos \in Nat /\ Len(h.hashed) = h.pos
  BY <1>1, BlobAsPublished DEF ReadEntry, AgreeInv, LayerInv, HandlerOK, Clean
<1>4. PICK S : h.hashed \in Seq(S)
  BY <1>1 DEF AgreeInv, LayerInv, HandlerOK
<1>5. PICK n : n = Len(sc.tar)
  OBVIOUS
<1>6. n \in Nat /\ h.pos < n /\ h.pos + 1 \in 1..n
  <2>1. n \in Nat
    BY <1>3, <1>5, ScenarioType
  <2>2. h.pos < n
    BY <1>1, <1>3, <1>5, StreamAgrees DEF ReadEntry
  <2>. QED
    BY <2>1, <2>2, <1>3
<1>7. PICK e : e = sc.tar[h.pos + 1]
  OBVIOUS
<1>8. e # Damaged /\ Opened(blob.blocks[h.pos + 1]) = {e}
  BY <1>1, <1>3, <1>5, <1>6, <1>7, StreamAgrees, ScenarioType
<1>9. OnTrack(h) /\ StreamOK(h)
  BY <1>1, <1>3 DEF GuestOK, AgreeInv, LayerInv, HandlerOK, Streaming
<1>10. PICK t : t = UnpackEntry(h.tree, e, sc.xattrs)
  OBVIOUS
<1>11. TreeAfter(sc.tar, sc.xattrs)[n] # Failed /\ (OpenBlocks(e) => IsConverted(e, sc.xattrs))
  BY <1>3, <1>5, <1>6, <1>7, ScenarioType DEF Refusable, Unpacks
<1>12. t # Failed
  <2>1. PICK f : f = TreeAfter(sc.tar, sc.xattrs)
    OBVIOUS
  <2>2. \A i \in 1..n : f[i] = IF f[i - 1] = Failed THEN Failed ELSE UnpackEntry(f[i - 1], sc.tar[i], sc.xattrs)
    BY <2>1, <1>5, <1>6, TreeAfterDef DEF IsTreeAfter
  <2>3. h.pos + 1 - 1 = h.pos
    BY <1>3
  <2>4. f[h.pos] = h.tree /\ h.tree # Failed
    BY <2>1, <1>9 DEF StreamOK
  <2>5. f[h.pos + 1] = t
    <3>1. PICK i : i = h.pos + 1
      OBVIOUS
    <3>2. i \in 1..n /\ sc.tar[i] = e
      BY <3>1, <1>6, <1>7
    <3>4. i - 1 = h.pos
      BY <3>1, <1>3
    <3>3. f[i] = UnpackEntry(h.tree, e, sc.xattrs)
      BY <2>2, <2>4, <3>2, <3>4
    <3>. QED
      BY <3>1, <3>3, <1>10
  <2>6. h.pos + 1 \in 0..n
    BY <1>6
  <2>7. PICK tar, xattrs : tar = sc.tar /\ xattrs = sc.xattrs
    OBVIOUS
  <2>8. TreeAfter(tar, xattrs)[Len(tar)] # Failed /\ Len(tar) \in Nat
    BY <1>5, <1>6, <1>11, <2>7
  <2>9. TreeAfter(tar, xattrs)[h.pos + 1] # Failed
    BY <2>6, <2>7, <2>8, <1>5, FailureStays
  <2>. QED
    BY <2>1, <2>5, <2>7, <2>9
<1>13. PICK ds : ds = IF e.kind = "dir" /\ ~IsConverted(e, sc.xattrs) THEN h.dirs \cup {e.path} ELSE h.dirs
  OBVIOUS
<1>14. k = [h EXCEPT !.pos = h.pos + 1, !.hashed = Append(h.hashed, e), !.tree = t, !.pc = h.pc, !.dirs = ds]
  <2>1. PICK x \in Opened(blob.blocks[g.pos + 1]) :
           IF x = Damaged THEN Fail
           ELSE LET u == UnpackEntry(g.tree, x, sc.xattrs)
                    converted == IsConverted(x, sc.xattrs)
                IN IF u = Failed THEN Fail
                   ELSE g' = [g EXCEPT !.pos = @ + 1, !.hashed = Append(@, x), !.tree = u,
                                       !.pc = IF OpenBlocks(x) /\ ~converted THEN "blocked" ELSE @,
                                       !.dirs = IF x.kind = "dir" /\ ~converted THEN @ \cup {x.path} ELSE @]
    BY DEF ReadEntry
  <2>2. x = e
    BY <2>1, <1>1, <1>8
  <2>3. g' = [g EXCEPT !.pos = @ + 1, !.hashed = Append(@, e), !.tree = t,
                       !.pc = IF OpenBlocks(e) /\ ~IsConverted(e, sc.xattrs) THEN "blocked" ELSE @,
                       !.dirs = IF e.kind = "dir" /\ ~IsConverted(e, sc.xattrs) THEN @ \cup {e.path} ELSE @]
    BY <2>1, <2>2, <1>1, <1>8, <1>10, <1>12
  <2>. QED
    BY <2>3, <1>1, <1>2, <1>11, <1>13
<1>15. /\ k.pc = "stream" /\ k.hmac = h.hmac /\ k.key = h.key /\ k.nonce = h.nonce /\ k.media = h.media
       /\ k.pos = h.pos + 1 /\ k.hashed = Append(h.hashed, e)
  BY <1>3, <1>14 DEF Fields
<1>16. OnTrack(k)
  <2>1. PICK s : s = h.hashed
    OBVIOUS
  <2>2. s \in Seq(S \cup {e}) /\ Len(s) = h.pos
    BY <1>3, <1>4, <2>1
  <2>3. Append(s, e)[Len(s) + 1] = e
    BY <2>2
  <2>4. \A i \in 1..Len(s) : Append(s, e)[i] = s[i]
    BY <2>2
  <2>5. \A i \in 1..h.pos : k.hashed[i] = sc.tar[i]
    BY <1>9, <1>15, <2>1, <2>2, <2>4 DEF OnTrack
  <2>6. k.hashed[h.pos + 1] = sc.tar[h.pos + 1]
    BY <1>7, <1>15, <2>1, <2>2, <2>3
  <2>7. \A i \in 1..(h.pos + 1) : i \in 1..h.pos \/ i = h.pos + 1
    BY <1>3
  <2>8. h.pos + 1 <= Len(sc.tar)
    BY <1>5, <1>6
  <2>. QED
    BY <1>15, <2>5, <2>6, <2>7, <2>8 DEF OnTrack
<1>17. GuestOK(k)
  BY <1>3, <1>15, <1>16 DEF GuestOK, Ended, Before
<1>. QED
  BY <1>2, <1>17

\* A sequence with the archive's length and entries is the archive.
LEMMA HashedIsTar ==
    ASSUME LayerInv, OnTrack(g), g.pos = Len(sc.tar)
    PROVE  g.hashed = sc.tar
<1>1. PICK s, t : s = g.hashed /\ t = sc.tar
  OBVIOUS
<1>2. PICK S : s \in Seq(S)
  BY <1>1 DEF LayerInv, HandlerOK
<1>3. PICK T : t \in Seq(T)
  BY <1>1, ScenarioType DEF LayerInv
<1>4. Len(s) = Len(t) /\ \A i \in 1..Len(t) : s[i] = t[i]
  BY <1>1 DEF LayerInv, HandlerOK, OnTrack
<1>5. s \in Seq(S \cup T) /\ t \in Seq(S \cup T)
  BY <1>2, <1>3
<1>6. s = t
  BY <1>4, <1>5, SeqEqual
<1>. QED
  BY <1>1, <1>6

LEMMA EofAgrees ==
    ASSUME AgreeInv, ReadEof, Clean(g)
    PROVE  GuestOK(g')
<1>1. PICK h : h = g
  OBVIOUS
<1>2. PICK k : k = g'
  OBVIOUS
<1>3. /\ h.pc = "stream" /\ h = [f \in Fields |-> h[f]] /\ GuestOK(h) /\ sc \in Scenarios
      /\ PublishedAsIs(blob) /\ LayerInv
  BY <1>1, BlobAsPublished DEF ReadEof, AgreeInv, LayerInv, HandlerOK
<1>4. h.pos = Len(sc.tar) /\ OnTrack(h)
  BY <1>1, <1>3, StreamAgrees DEF ReadEof, GuestOK
<1>5. g.hashed = sc.tar
  BY <1>1, <1>3, <1>4, HashedIsTar
<1>6. HmacOk
  <2>1. ASSUME Encrypted PROVE g.hmac = Hmac(g.key, blob.blocks)
    BY <1>1, <1>3, <2>1 DEF GuestOK, PublishedAsIs
  <2>. QED
    BY <2>1 DEF HmacOk
<1>7. ChecksumOk
  <2>1. ASSUME Compression(g.media) = "zstd" PROVE SubSeq(sc.tar, 1, Frame) = sc.tar
    <3>1. Frame = Len(sc.tar)
      BY <1>1, <1>3, <2>1, StreamAgrees
    <3>2. PICK t : t = sc.tar
      OBVIOUS
    <3>3. PICK T : t \in Seq(T)
      BY <3>2, <1>3, ScenarioType
    <3>4. SubSeq(t, 1, Len(t)) = t
      BY <3>3
    <3>. QED
      BY <3>1, <3>2, <3>4
  <2>2. PICK c : c = Compression(g.media)
    OBVIOUS
  <2>3. c = "zstd" => SubSeq(sc.tar, 1, Frame) = sc.tar
    BY <2>1, <2>2
  <2>. QED
    BY <1>5, <2>2, <2>3 DEF ChecksumOk
<1>8. k = [h EXCEPT !.pc = "verify", !.tree = SetDirTimes(h.tree, h.dirs)]
  BY <1>1, <1>2, <1>6, <1>7 DEF ReadEof
<1>9. k.pc = "verify" /\ k.pos = h.pos /\ k.hashed = h.hashed
  BY <1>3, <1>8 DEF Fields
<1>10. OnTrack(k)
  BY <1>4, <1>9 DEF OnTrack
<1>11. GuestOK(k)
  BY <1>4, <1>9, <1>10 DEF GuestOK, Ended, Before
<1>. QED
  BY <1>2, <1>11

LEMMA VerifyAgrees ==
    ASSUME AgreeInv, Verify, Clean(g)
    PROVE  GuestOK(g')
<1>1. PICK h : h = g
  OBVIOUS
<1>2. PICK k : k = g'
  OBVIOUS
<1>3. /\ h.pc = "verify" /\ h = [f \in Fields |-> h[f]] /\ GuestOK(h) /\ sc \in Scenarios
      /\ PublishedAsIs(blob) /\ LayerInv
  BY <1>1, BlobAsPublished DEF Verify, AgreeInv, LayerInv, HandlerOK
<1>4. h.pos = Len(sc.tar) /\ OnTrack(h) /\ Len(sc.tar) \in Nat
  BY <1>3, ScenarioType DEF GuestOK
<1>5. g.hashed = sc.tar
  BY <1>1, <1>3, <1>4, HashedIsTar
<1>6. sc.media \notin EncryptedMedia => blob.blocks = sc.tar /\ blob.size = Len(sc.tar)
  BY <1>3, ScenarioType DEF PublishedAsIs, Encrypted
<1>7. PICK ahead \in 0..(Len(blob.blocks) - g.pos) :
         IF \/ sc.media \notin EncryptedMedia /\ blob.size > 0 /\ g.pos + ahead # blob.size
            \/ g.hashed # sc.tar
         THEN Fail ELSE To("stored")
  BY DEF Verify
<1>8. sc.media \notin EncryptedMedia => g.pos + ahead = blob.size
  <2>1. ASSUME sc.media \notin EncryptedMedia PROVE g.pos + ahead = blob.size
    <3>1. PICK n : n = Len(sc.tar)
      OBVIOUS
    <3>2. g.pos = n /\ Len(blob.blocks) = n /\ blob.size = n /\ n \in Nat
      BY <1>1, <1>4, <1>6, <2>1, <3>1
    <3>3. ahead \in 0..(n - n)
      BY <1>7, <3>2
    <3>4. ahead = 0
      BY <3>2, <3>3
    <3>. QED
      BY <3>2, <3>4
  <2>. QED
    BY <2>1
<1>9. k = [h EXCEPT !.pc = "stored"]
  BY <1>1, <1>2, <1>5, <1>7, <1>8 DEF To
<1>10. k.pc = "stored"
  BY <1>3, <1>9 DEF Fields
<1>11. GuestOK(k)
  BY <1>10 DEF GuestOK, Ended, Before
<1>. QED
  BY <1>2, <1>11

\* The handler's step, put together: what cannot change under it, and what it
\* may do to itself.
LEMMA GuestSteps ==
    ASSUME AgreeInv, UNCHANGED <<sc, pub, blob>>, g.pc # "wait", g'.pc # "wait",
           g.excused = TRUE => g'.excused = TRUE,
           Clean(g) => g'.excused = TRUE \/ GuestOK(g')
    PROVE  AgreeOK(g)'
<1>1. PICK h : h = g
  OBVIOUS
<1>2. PICK k : k = g'
  OBVIOUS
<1>3. Refusable' <=> Refusable
  BY DEF Refusable, Frame, Unpacks
<1>4. Clean(k)' => Clean(h) /\ k.excused # TRUE
  BY <1>1, <1>2, <1>3 DEF Clean
<1>5. GuestOK(k) => GuestOK(k)'
  BY DEF GuestOK, Encrypted, OnTrack, Ciphertext
<1>6. blob' # None
  BY DEF AgreeInv, AgreeOK
<1>7. AgreeOK(k)'
  BY <1>1, <1>2, <1>4, <1>5, <1>6 DEF AgreeOK
<1>. QED
  BY <1>2, <1>7

LEMMA OpenAgrees ==
    ASSUME AgreeInv, Open
    PROVE  AgreeOK(g)'
<1>1. PICK h : h = g
  OBVIOUS
<1>2. PICK k : k = g'
  OBVIOUS
<1>3. /\ h.pc = "wait" /\ h = [f \in Fields |-> h[f]] /\ h.key = None /\ sc \in Scenarios /\ blob # None
      /\ UNCHANGED <<sc, pub, blob>>
  BY <1>1 DEF Open, AgreeInv, AgreeOK, LayerInv, HandlerOK
<1>4. CASE Encrypted
  <2>1. k = [h EXCEPT !.pc = "config", !.media = PlainMedia(sc.media)]
    BY <1>1, <1>2, <1>3, <1>4, ScenarioType DEF Open, Encrypted
  <2>2. k.pc = "config" /\ k.media = PlainMedia(sc.media) /\ k.key = None
    BY <1>3, <2>1 DEF Fields
  <2>3. GuestOK(k)'
    BY <1>3, <1>4, <2>2 DEF GuestOK, Ended, Before, Encrypted
  <2>4. AgreeOK(k)'
    BY <1>3, <2>2, <2>3 DEF AgreeOK
  <2>. QED
    BY <2>4, <1>2
<1>5. CASE ~Encrypted
  <2>1. k = [h EXCEPT !.pc = "begin", !.media = sc.media]
    BY <1>1, <1>2, <1>3, <1>5, ScenarioType DEF Open, Encrypted
  <2>2. k.pc = "begin" /\ k.media = sc.media
    BY <1>3, <2>1 DEF Fields
  <2>3. GuestOK(k)'
    BY <1>3, <1>5, <2>2 DEF GuestOK, Ended, Before, Encrypted
  <2>4. AgreeOK(k)'
    BY <1>3, <2>2, <2>3 DEF AgreeOK
  <2>. QED
    BY <2>4, <1>2
<1>. QED
  BY <1>4, <1>5

\* The excuse stays, and no step but Open leaves "wait" or comes back to it.
LEMMA HandlerMoves ==
    ASSUME AgreeInv,
           \/ GetDecryptConfig \/ InitCipher \/ BeginUnpack \/ ReadEntry \/ ReadEof \/ Verify \/ Cleanup
           \/ StreamBreaks \/ UnpackTimeout \/ \E r \in BOOLEAN : GetDecryptKey(r)
    PROVE  /\ UNCHANGED <<sc, pub, blob>> /\ g.pc # "wait" /\ g'.pc # "wait"
           /\ g.excused = TRUE => g'.excused = TRUE
<1>1. PICK h : h = g
  OBVIOUS
<1>2. PICK k : k = g'
  OBVIOUS
<1>3. h = [f \in Fields |-> h[f]]
  BY <1>1 DEF AgreeInv, LayerInv, HandlerOK
<1>4. UNCHANGED <<sc, pub, blob>> /\ h.pc # "wait"
  BY <1>1 DEF GetDecryptConfig, GetDecryptKey, InitCipher, BeginUnpack, ReadEntry, ReadEof, Verify, Cleanup,
              StreamBreaks, UnpackTimeout
<1>. DEFINE moved == k.pc # "wait" /\ (h.excused = TRUE => k.excused = TRUE)
<1>5. ASSUME Fail \/ FailExcused PROVE moved
  <2>1. k = [h EXCEPT !.pc = "cleanup"] \/ k = [h EXCEPT !.pc = "cleanup", !.excused = TRUE]
    BY <1>1, <1>2, <1>5 DEF Fail, FailExcused, To
  <2>. QED
    BY <2>1, <1>3 DEF Fields
<1>6. CASE GetDecryptConfig
  <2>1. Fail \/ \E d : k = [h EXCEPT !.pc = "unwrap", !.dc = d]
    BY <1>1, <1>2, <1>6 DEF GetDecryptConfig
  <2>2. moved
    BY <2>1, <1>3, <1>5 DEF Fields
  <2>. QED
    BY <1>1, <1>2, <1>4, <2>2
<1>7. CASE \E r \in BOOLEAN : GetDecryptKey(r)
  <2>1. Fail \/ FailExcused \/ \E o : k = [h EXCEPT !.pc = "cipher", !.key = o.key, !.nonce = o.nonce]
    BY <1>1, <1>2, <1>7 DEF GetDecryptKey
  <2>2. moved
    BY <2>1, <1>3, <1>5 DEF Fields
  <2>. QED
    BY <1>1, <1>2, <1>4, <2>2
<1>8. CASE InitCipher
  <2>1. Fail \/ \E o, n : k = [h EXCEPT !.pc = "begin", !.hmac = o, !.nonce = n]
    BY <1>1, <1>2, <1>8 DEF InitCipher
  <2>2. moved
    BY <2>1, <1>3, <1>5 DEF Fields
  <2>. QED
    BY <1>1, <1>2, <1>4, <2>2
<1>9. CASE BeginUnpack
  <2>1. Fail \/ k = [h EXCEPT !.pc = "stream", !.tree = <<>>]
    BY <1>1, <1>2, <1>9 DEF BeginUnpack
  <2>2. moved
    BY <2>1, <1>3, <1>5 DEF Fields
  <2>. QED
    BY <1>1, <1>2, <1>4, <2>2
<1>10. CASE ReadEntry
  <2>1. h.pc = "stream"
    BY <1>1, <1>10 DEF ReadEntry
  <2>2. ASSUME Fail PROVE moved
    BY <2>2, <1>5
  <2>3. ASSUME ~Fail PROVE moved
    <3>1. PICK e :
             LET t == UnpackEntry(g.tree, e, sc.xattrs)
                 converted == IsConverted(e, sc.xattrs)
             IN g' = [g EXCEPT !.pos = @ + 1, !.hashed = Append(@, e), !.tree = t,
                               !.pc = IF OpenBlocks(e) /\ ~converted THEN "blocked" ELSE @,
                               !.dirs = IF e.kind = "dir" /\ ~converted THEN @ \cup {e.path} ELSE @]
      BY <1>10, <2>3 DEF ReadEntry
    <3>2. k.pc \in {"blocked", "stream"} /\ k.excused = h.excused
      BY <3>1, <2>1, <1>1, <1>2, <1>3 DEF Fields
    <3>. QED
      BY <3>2
  <2>4. moved
    BY <2>2, <2>3
  <2>. QED
    BY <1>1, <1>2, <1>4, <2>4
<1>11. CASE ReadEof
  <2>1. Fail \/ \E t : k = [h EXCEPT !.pc = "verify", !.tree = t]
    BY <1>1, <1>2, <1>11 DEF ReadEof
  <2>2. moved
    BY <2>1, <1>3, <1>5 DEF Fields
  <2>. QED
    BY <1>1, <1>2, <1>4, <2>2
<1>12. CASE Verify
  <2>1. Fail \/ k = [h EXCEPT !.pc = "stored"]
    BY <1>1, <1>2, <1>12 DEF Verify, To
  <2>2. moved
    BY <2>1, <1>3, <1>5 DEF Fields
  <2>. QED
    BY <1>1, <1>2, <1>4, <2>2
<1>13. CASE Cleanup
  <2>1. k = [h EXCEPT !.pc = "failed", !.tree = None]
    BY <1>1, <1>2, <1>13 DEF Cleanup
  <2>2. moved
    BY <2>1, <1>3 DEF Fields
  <2>. QED
    BY <1>1, <1>2, <1>4, <2>2
<1>14. CASE StreamBreaks \/ UnpackTimeout
  <2>1. moved
    BY <1>5, <1>14 DEF StreamBreaks, UnpackTimeout
  <2>. QED
    BY <1>1, <1>2, <1>4, <2>1
<1>. QED
  BY <1>6, <1>7, <1>8, <1>9, <1>10, <1>11, <1>12, <1>13, <1>14

LEMMA EndAgrees ==
    ASSUME AgreeInv, Cleanup \/ StreamBreaks \/ UnpackTimeout, Clean(g)
    PROVE  g'.excused = TRUE \/ GuestOK(g')
<1>1. PICK h : h = g
  OBVIOUS
<1>2. PICK k : k = g'
  OBVIOUS
<1>3. h = [f \in Fields |-> h[f]]
  BY <1>1 DEF AgreeInv, LayerInv, HandlerOK
<1>4. CASE Cleanup
  <2>1. h.pc = "cleanup" /\ k = [h EXCEPT !.pc = "failed", !.tree = None]
    BY <1>1, <1>2, <1>4 DEF Cleanup
  <2>2. k.pc = "failed" /\ k.key = h.key
    BY <1>3, <2>1 DEF Fields
  <2>3. GuestOK(h)
    BY <1>1, <2>1, BlobAsPublished
  <2>4. GuestOK(k)
    BY <2>1, <2>2, <2>3 DEF GuestOK, Ended, Before
  <2>. QED
    BY <2>4, <1>2
<1>5. CASE StreamBreaks \/ UnpackTimeout
  <2>1. k = [h EXCEPT !.pc = "cleanup", !.excused = TRUE]
    BY <1>1, <1>2, <1>5 DEF StreamBreaks, UnpackTimeout, FailExcused
  <2>2. k.excused = TRUE
    BY <1>3, <2>1 DEF Fields
  <2>. QED
    BY <2>2, <1>2
<1>. QED
  BY <1>4, <1>5

\* While the guest handles the layer, nobody publishes or damages it.
LEMMA OthersAgree ==
    ASSUME AgreeInv, Publisher \/ Damage
    PROVE  AgreeOK(g)'
<1>1. g' = g
  BY DEF Publisher, Damage, EncryptLayer, CipherRead, Rewrap, Finalize, FinalizeElsewhere
<1>2. g.pc = "wait"
  <2>. SUFFICES ASSUME g.pc # "wait" PROVE FALSE
    OBVIOUS
  <2>1. blob # None
    BY DEF AgreeInv, AgreeOK
  <2>2. Encrypted => pub.pc \in {"published", "failed"}
    BY <2>1 DEF AgreeInv, PublisherOK
  <2>3. ~Encrypted => pub.pc = "idle"
    BY DEF AgreeInv, PublisherOK
  <2>. QED
    BY <2>2, <2>3 DEF Publisher, Damage, EncryptLayer, CipherRead, Rewrap, Finalize, FinalizeElsewhere
<1>3. g.key = None
  BY <1>2 DEF AgreeInv, AgreeOK
<1>. QED
  BY <1>1, <1>2, <1>3 DEF AgreeOK

LEMMA AgreeStep == AgreeInv /\ [Next]_vars => AgreeInv'
<1>. SUFFICES ASSUME AgreeInv, [Next]_vars PROVE AgreeInv'
  OBVIOUS
<1>1. LayerInv' /\ PublisherOK'
  BY LayerInvStep, PublisherStep DEF AgreeInv
<1>2. AgreeOK(g)'
  <2>1. CASE UNCHANGED vars
    <3>1. PICK h : h = g
      OBVIOUS
    <3>2. AgreeOK(h)'
      BY <2>1, <3>1 DEF AgreeInv, AgreeOK, Clean, GuestOK, vars, Refusable, Frame, Unpacks, Encrypted, OnTrack, Ciphertext
    <3>. QED
      BY <2>1, <3>1, <3>2 DEF vars
  <2>2. CASE Publisher \/ Damage
    BY <2>2, OthersAgree
  <2>3. CASE Open
    BY <2>3, OpenAgrees
  <2>4. CASE GetDecryptConfig
    BY <2>4, ConfigAgrees, HandlerMoves, GuestSteps
  <2>5. CASE \E r \in BOOLEAN : GetDecryptKey(r)
    <3>1. PICK r \in BOOLEAN : GetDecryptKey(r)
      BY <2>5
    <3>2. Clean(g) => g'.excused = TRUE \/ GuestOK(g')
      BY <3>1, KeyAgrees
    <3>. QED
      BY <2>5, <3>2, HandlerMoves, GuestSteps
  <2>6. CASE InitCipher
    BY <2>6, CipherAgrees, HandlerMoves, GuestSteps
  <2>7. CASE BeginUnpack
    BY <2>7, BeginAgrees, HandlerMoves, GuestSteps
  <2>8. CASE ReadEntry
    BY <2>8, EntryAgrees, HandlerMoves, GuestSteps
  <2>9. CASE ReadEof
    BY <2>9, EofAgrees, HandlerMoves, GuestSteps
  <2>10. CASE Verify
    BY <2>10, VerifyAgrees, HandlerMoves, GuestSteps
  <2>11. CASE Cleanup \/ StreamBreaks \/ UnpackTimeout
    BY <2>11, EndAgrees, HandlerMoves, GuestSteps
  <2>. QED
    BY <2>1, <2>2, <2>3, <2>4, <2>5, <2>6, <2>7, <2>8, <2>9, <2>10, <2>11 DEF Next, Handler
<1>. QED
  BY <1>1, <1>2 DEF AgreeInv

LEMMA AgreeInit == Init => AgreeInv
<1>. SUFFICES ASSUME Init PROVE AgreeInv
  OBVIOUS
<1>1. g = NoHandler
  BY DEF Init
<1>2. g.pc = "wait" /\ g.key = None
  BY <1>1 DEF NoHandler
<1>. QED
  BY <1>2, HandlerInit, PublisherInit DEF AgreeInv, AgreeOK

LEMMA AgreeInvHolds == Spec => []AgreeInv
  BY AgreeInit, AgreeStep, PTL DEF Spec

LEMMA AgreeGives == AgreeInv => OpenedLayerIsStored
<1>. SUFFICES ASSUME AgreeInv, g.pc = "failed", Intact, ~Refusable PROVE Encrypted /\ g.key = None
  BY DEF OpenedLayerIsStored
<1>1. Clean(g)
  BY DEF Clean, Intact
<1>2. GuestOK(g)
  BY <1>1, BlobAsPublished
<1>. QED
  BY <1>2 DEF GuestOK, Ended

\* Publisher and guest agree: what has not been damaged or lost is refused only
\* for what it is, or because the guest could not unwrap the key.  No key it
\* unwraps is a wrong one.
THEOREM OpenedLayerHolds == Spec => []OpenedLayerIsStored
  BY AgreeInvHolds, AgreeGives, PTL

\* In particular a layer that is not encrypted: the sizes, the checksums, the
\* digest and unpack never refuse an intact one.
THEOREM PlainLayerIsStored == Spec => [](~Encrypted => IntactLayerIsStored)
<1>1. OpenedLayerIsStored => (~Encrypted => IntactLayerIsStored)
  BY DEF OpenedLayerIsStored, IntactLayerIsStored
<1>. QED
  BY <1>1, OpenedLayerHolds, PTL
=============================================================================

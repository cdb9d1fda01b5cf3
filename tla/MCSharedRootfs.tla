--------------------------- MODULE MCSharedRootfs ---------------------------
(* SharedRootfs for TLC.                                                    *)
EXTENDS SharedRootfs, TLC

CONSTANTS r1, r2, i1, i2, erofs, ext4

TwoRefsOneId == r1 :> i1 @@ r2 :> i1
TwoIds == r1 :> i1 @@ r2 :> i2
OwnName == [x \in Refs \cup Ids |-> x]
OneName == [x \in Refs \cup Ids |-> IF x = r2 THEN r1 ELSE x]
World(ids, names, hashing, asked, requests, failures) ==
    [ids |-> ids, names |-> names, hashing |-> hashing, asked |-> asked,
     requests |-> requests, fails |-> failures]

RaceWorlds ==
    {World(TwoRefsOneId, OwnName, FALSE, Refs, 3, 0), World(TwoRefsOneId, OwnName, FALSE, {r1}, 3, 1),
     World(TwoRefsOneId, OwnName, FALSE, Refs, 2, 1), World(TwoRefsOneId, OwnName, TRUE, Refs, 2, 1),
     World(TwoIds, OneName, FALSE, Refs, 2, 1)}
CrashWorlds ==
    {World(TwoIds, OwnName, FALSE, Refs, 2, 0), World(TwoIds, OwnName, FALSE, {r1}, 2, 1)}
BothFormats == <<erofs, ext4>>
OnlyExt4 == <<ext4>>
Symmetry == Permutations(Requests)
=============================================================================

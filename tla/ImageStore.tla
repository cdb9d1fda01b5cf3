----------------------------- MODULE ImageStore -----------------------------
(***************************************************************************)
(* What pull_image promises its caller, without layers in flight, caches   *)
(* or crashes: a bundle that is handed out has a root file system made of  *)
(* the layers that the image's manifest lists, in its order, and the image *)
(* is one the signature policy accepts.  What was handed out is not taken  *)
(* back or changed.                                                        *)
(*                                                                         *)
(* The code keeps less than its comment, a root file system that is ready, *)
(* in two cases, which are exceptions here: a layer that the manifest      *)
(* repeats may stand where the manifest has it first, and the bundle of an *)
(* image that a daemon serves may be handed out empty.                     *)
(***************************************************************************)
EXTENDS Integers, Sequences

CONSTANTS
    Images,
    LayersOf,   \* the layers the manifest lists for the bundle, lowest first
    Served,     \* the images that a daemon serves
    Trusted

VARIABLE bundles   \* the bundles handed out, with their root file system

Init == bundles = {}

\* The manifest has x only below y.
Below(layers, x, y) ==
    \A i, j \in DOMAIN layers : layers[i] = x /\ layers[j] = y => i < j

\* A root file system, lowest layer first, is what the manifest lists: all the
\* layers, none of them twice, and none above one that the manifest has only
\* above it.  For a manifest that repeats no layer it is the manifest's list.
\* What stands between two places of a layer may be above or below it.
Shows(rootfs, layers) ==
    /\ {rootfs[i] : i \in DOMAIN rootfs} = {layers[i] : i \in DOMAIN layers}
    /\ \A i, j \in DOMAIN rootfs :
          i < j => rootfs[i] # rootfs[j] /\ ~Below(layers, rootfs[j], rootfs[i])

\* One more bundle.
HandOut(img) ==
    /\ img \in Trusted
    /\ \E b \in bundles' :
          /\ b.image = img
          /\ Shows(b.rootfs, LayersOf[img]) \/ (img \in Served /\ b.rootfs = <<>>)
          /\ bundles' = bundles \cup {b}

Next == \E img \in Images : HandOut(img)

Spec == Init /\ [][Next]_bundles
=============================================================================

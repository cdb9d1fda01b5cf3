---------------------------- MODULE MCImagePull -----------------------------
(* ImagePull for TLC: img1 has a repeated layer, img2 shares its layers,    *)
(* img3 is not trusted, img4 is a nydus image.                              *)
EXTENDS ImagePull, TLC

CONSTANTS img1, img2, img3, img4, a, b, c

Layers == img1 :> <<a, b, a>> @@ img2 :> <<c, b, a>> @@ img3 :> <<a>>
            @@ img4 :> <<a, c>>
=============================================================================

--------------------------- MODULE MCRuntimeShare ---------------------------
(* RuntimeShare for TLC.                                                    *)
EXTENDS RuntimeShare, TLC
=============================================================================

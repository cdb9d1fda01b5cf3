----------------------------- MODULE MCEventLog -----------------------------
(* EventLog for TLC.                                                        *)
EXTENDS EventLog, TLC

NoPieces == [line \in {} |-> <<>>]
=============================================================================

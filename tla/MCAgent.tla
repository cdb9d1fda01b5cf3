------------------------------ MODULE MCAgent -------------------------------
(* Agent for TLC: TDX with the event log, and each kind of platform without. *)
EXTENDS Agent, TLC

CONSTANTS q1, q2, a, b, s

\* The domain of s holds a newline; its pieces look like lines of their own.
MCPieces == s :> <<a, b>>

Env(present, tsm, logged, initdata, asks) ==
    [present |-> present, tsm |-> tsm, log |-> logged, grpc |-> FALSE, initdata |-> initdata,
     asks |-> asks]
Grpc(e) == [e EXCEPT !.grpc = TRUE]

Ask(k, n) == [kind |-> k, len |-> n]
NoAsk == [r \in {} |-> Ask("evidence", 0)]
One(k, n) == q1 :> Ask(k, n)
Two == q1 :> Ask("evidence", 48) @@ q2 :> Ask("evidence", 32)
Mixed == q1 :> Ask("evidence", 64) @@ q2 :> Ask("token", 0)
Long == q1 :> Ask("evidence", 65) @@ q2 :> Ask("evidence", 64)

MCEnvs ==
    {Env({"tdx"}, "none", TRUE, "none", One("evidence", 48)),  \* the log and its readers
     Env({"tdx"}, "tdx", TRUE, "match", NoAsk),                \* TSM reports: no extend
     Env({"snp"}, "none", TRUE, "longer", NoAsk),              \* no registers
     Env({"snp", "csv"}, "none", FALSE, "match", Mixed),
     Env({}, "tdx", FALSE, "none", Two), Env({}, "tdx", FALSE, "other", Two),
     Env({}, "cca", FALSE, "match", Mixed),
     Env({}, "sev", FALSE, "none", Two),
     Env({"tdx"}, "sev", FALSE, "longer", Long),
     Env({"sgx-occlum"}, "none", FALSE, "none", Mixed),
     Env({"sgx-gramine"}, "none", FALSE, "none", Two),
     Env({"se"}, "none", FALSE, "other", Mixed),
     Env({"aztdxvtpm", "snp"}, "none", FALSE, "match", Long),
     Env({"azsnpvtpm"}, "none", FALSE, "longer", Long),
     Grpc(Env({"azsnpvtpm"}, "none", FALSE, "match", NoAsk)),
     Env({"csv", "se"}, "none", FALSE, "match", Long),
     Env({"snp"}, "none", FALSE, "other", Long),
     Env({}, "none", FALSE, "match", Long)}

\* Two requests of one Gramine enclave.
RaceEnvs == {Env({"sgx-gramine"}, "none", FALSE, "none", Two)}
=============================================================================

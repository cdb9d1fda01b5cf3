---------------------------- MODULE MCRcarClient ----------------------------
(* RcarClient for TLC: the code's own limits, one client.  The agent's own  *)
(* client has a fresh EC key and the attester in its process; others have a *)
(* key given to them, ask the agent for evidence, or run on IBM SE.         *)
EXTENDS RcarClient, TLC

Pem(form, kind) == [form |-> form, kind |-> kind, n |-> 0]
MCBuilds ==
    {[pem |-> None, provider |-> "native", tee |-> "tdx"],
     [pem |-> Pem("pkcs1", "rsa"), provider |-> "aa", tee |-> "tdx"],
     [pem |-> Pem("pkcs8", "ec"), provider |-> "native", tee |-> "se"],
     [pem |-> Pem("pkcs8", "rsa"), provider |-> "native", tee |-> "tdx"]}
=============================================================================

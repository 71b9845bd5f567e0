----------------------------- MODULE MCSshSession ------------------------------
(* Two operations on one session: whatever the first leaves behind meets the  *)
(* second.  One key is listed for the host, one is both listed and revoked,   *)
(* and one is of a listed type but not listed.                                *)
EXTENDS SshSession

MCTypeOf == [good |-> "ed25519", stolen |-> "rsa", new |-> "ed25519"]

MCKnownHosts ==
    {[key |-> "good", type |-> "ed25519", match |-> TRUE, revoked |-> FALSE],
     [key |-> "stolen", type |-> "rsa", match |-> TRUE, revoked |-> FALSE],
     [key |-> "stolen", type |-> "rsa", match |-> TRUE, revoked |-> TRUE]}
================================================================================

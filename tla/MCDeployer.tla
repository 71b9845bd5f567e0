------------------------------ MODULE MCDeployer -------------------------------
(* Two jobs of any kind, two members, one change to the working tree and      *)
(* one poll before each deadline: a second job meets what the first one left. *)
EXTENDS Deployer
================================================================================

-------------------------- MODULE MCDeployTransaction --------------------------
(* Two files, so a mixture is possible; manifests of either or both; two    *)
(* promotions, so the second meets what a crash left of the first.          *)
EXTENDS DeployTransaction
================================================================================

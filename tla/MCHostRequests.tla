---------------------------- MODULE MCHostRequests -----------------------------
(* Two requests of either kind, so that one can be written while the one  *)
(* before it is still being answered, and one failure at any point.         *)
EXTENDS HostRequests
================================================================================

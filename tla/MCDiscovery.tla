------------------------------ MODULE MCDiscovery ------------------------------
(* Two sources on two interfaces and queues and sets small enough to fill.   *)
EXTENDS Discovery, TLC

Same == Permutations(Names) \cup Permutations(Endpoints)
================================================================================

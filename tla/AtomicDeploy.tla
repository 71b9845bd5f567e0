------------------------------ MODULE AtomicDeploy ------------------------------
(***************************************************************************)
(* What a manifest-v3 deployment promises: the appliance's files change    *)
(* all at once or not at all.  `installed` is what the directory holds     *)
(* once any interrupted transaction has been recovered; `durable` is the   *)
(* same for what a power cut would leave.                                  *)
(***************************************************************************)
EXTENDS Naturals

CONSTANTS Files, Versions

VARIABLES
    offered,    \* the manifest and version of the latest promotion
    installed, durable

vars == <<offered, installed, durable>>

Offers == [names : SUBSET Files, version : Versions]

Init ==
    /\ offered \in Offers
    /\ installed = durable

\* A promotion is asked for; nothing is installed by that.
Offer ==
    /\ offered' \in Offers /\ offered'.version > offered.version
    /\ UNCHANGED <<installed, durable>>

\* The whole of the offered manifest is replaced in one step.
Install ==
    /\ installed' = [f \in Files |-> IF f \in offered.names THEN offered.version
                                     ELSE installed[f]]
    /\ UNCHANGED <<offered, durable>>

Persist == durable' = installed /\ UNCHANGED <<offered, installed>>

PowerLoss == installed' = durable /\ UNCHANGED <<offered, durable>>

Next == Offer \/ Install \/ Persist \/ PowerLoss

Spec == Init /\ [][Next]_vars
================================================================================

----------------------------- MODULE MCWebAccess -------------------------------
(* Two browsers against two session slots and a one-key limiter, so that     *)
(* every eviction and every refusal happens; two password changes, so that   *)
(* the operator can come back to an earlier password.                        *)
EXTENDS WebAccess, TLC

Same == Permutations(Browsers)
================================================================================

------------------------------- MODULE MCUwk -------------------------------
(* Model-checking instance of Uwk: two extra slots, three extras, callers *)
(* with a three-term predicate (wk_mkcmp_eq_pred) and a ten-term one      *)
(* (wk_mksleep_pred), the 16-term static buffer and the 3-term            *)
(* revocation component (wk_mkcmp_gt_pred).                               *)
EXTENDS Uwk, TLC

CONSTANTS x1, x2, x3, cEq, cSleep
MCExtras == {x1, x2, x3}
MCMaxLen == (x1 :> 1) @@ (x2 :> 2) @@ (x3 :> 2)
MCCallers == {cEq, cSleep}
MCSize == (cEq :> 3) @@ (cSleep :> 10)
====

--------------------------- MODULE MCContextPool ---------------------------
(***************************************************************************)
(* Two routes, canvases of two sizes, the larger of which covers the       *)
(* smaller, and budgets that two large contexts exceed.                    *)
(***************************************************************************)
EXTENDS ContextPool, TLC

TwoCapacities == {<<1, 1>>, <<2, 1>>}

=============================================================================

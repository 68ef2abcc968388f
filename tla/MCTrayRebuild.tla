--------------------------- MODULE MCTrayRebuild ---------------------------
(***************************************************************************)
(* Two threads request rebuilds; at most two rebuild threads exist at a    *)
(* time, one serving and one retiring.                                     *)
(***************************************************************************)
EXTENDS TrayRebuild, TLC

CONSTANTS p1, p2, c1, c2, w1, w2

MCPlatforms == {p1, p2}
MCCallers == {c1, c2}
MCWorkers == {w1, w2}
MCMaxVersion == (p1 :> 2) @@ (p2 :> 1)
============================================================================

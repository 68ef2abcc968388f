------------------------- MODULE MCDeferredRewrite -------------------------
(***************************************************************************)
(* Instances of DeferredRewrite with two accounts and two loaders: fewer   *)
(* queue slots than accounts, so the queue fills.                          *)
(***************************************************************************)
EXTENDS DeferredRewrite

CONSTANTS a1, a2, l1, l2

MCAccounts == {a1, a2}
MCLoaders == {l1, l2}
===========================================================================

---------------------------- MODULE MCAutoCheckin ----------------------------
(***************************************************************************)
(* Two accounts, one midnight, days of two minutes, a window in each.      *)
(***************************************************************************)
EXTENDS AutoCheckin

MCWindows == {<<0, 0>>, <<1, 1>>}
============================================================================

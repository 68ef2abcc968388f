---------------------------- MODULE MCTokenKeeper ----------------------------
(***************************************************************************)
(* Three accounts, the first of which always fails, one renewal per scan,  *)
(* and the program's times in minutes.                                     *)
(***************************************************************************)
EXTENDS TokenKeeper

CONSTANTS bad, a1, a2

MCOrder == <<bad, a1, a2>>
==============================================================================

--------------------------- MODULE MCAtomicFile ---------------------------
(***************************************************************************)
(* Instance of AtomicFile: two threads, two contents of this version, one  *)
(* of another version.                                                     *)
(***************************************************************************)
EXTENDS AtomicFile, TLC

CONSTANTS t1, t2, j1, j2, a1

MCThreads == {t1, t2}
MCJson == {j1, j2}
MCAlien == {a1}

Symmetry == Permutations(MCThreads) \union Permutations(MCJson)
===========================================================================

---------------------------- MODULE MCOutputFile ----------------------------
(* All files of one directory are titles, the other one is for outputs:    *)
(* with one base name and two containers any two jobs may be in conflict.  *)
EXTENDS OutputLifecycle, TLC

MCTitles == {p \in Paths : p.dir = "lib"}

Symmetry == Permutations(Jobs)
=============================================================================

--------------------------- MODULE MCEncodeQueue ---------------------------
(***************************************************************************)
(* EncodeQueue on small instances.  Jobs, workers and cancellers are       *)
(* interchangeable, so the runs that check no liveness property use their  *)
(* permutations as symmetry set.                                           *)
(***************************************************************************)
EXTENDS EncodeLifecycle, TLC

Symmetry == Permutations(Jobs) \cup Permutations(Workers)
              \cup Permutations(Cancellers)
=============================================================================

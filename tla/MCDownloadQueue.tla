-------------------------- MODULE MCDownloadQueue --------------------------
(* The instances of DownloadQueue that TLC checks. *)
EXTENDS DownloadLifecycle, TLC

Symmetry == Permutations(Workers) \cup Permutations(Downloads)
=============================================================================

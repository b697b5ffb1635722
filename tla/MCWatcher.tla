----------------------------- MODULE MCWatcher -----------------------------
(***************************************************************************)
(* Watcher with all files under one root, which is a watch folder at       *)
(* first.  At most two requests or faults happen.  The first of them may   *)
(* meet anything; the second begins while the event workers are idle and   *)
(* no timer runs, starts none, and when it is a request nobody writes or   *)
(* walks: it meets the first.                                              *)
(***************************************************************************)
EXTENDS Watcher

CONSTANTS Home

MCRootOf == [f \in Files |-> Home]

MCInit ==
    /\ Init
    /\ folder = [r \in Roots |-> IF r = Home THEN "on" ELSE "none"]
    /\ fs = [f \in Files |-> "absent"]

EventWorkersIdle == processChan = <<>> /\ (\A w \in EventWorkers : pc[w] = "idle")
NothingToFind == walk = "none" /\ (\A f \in Files : fs[f] = "whole")

MCNext ==
    /\ Next
    /\ requests' + faults' <= 2
    /\ requests + faults = 1 /\ requests' + faults' = 2 => EventWorkersIdle
    /\ requests = 1 /\ requests' = 2 => NothingToFind
    /\ requests' + faults' = 2 => \A f \in Files : Timers(f)' = 0

MCFairSpec == MCInit /\ [][MCNext]_vars /\ Fairness
=============================================================================

----------------------------- MODULE MCSchedule -----------------------------
(* Schedule with windows on one day, around midnight, and of equal ends.   *)
(* The process starts with none or with the one around midnight: a request *)
(* sets any of the others.                                                 *)
EXTENDS Schedule

MCWindows == {<<0, 1>>, <<2, 1>>, <<1, 1>>}

MCInit == Init /\ <<windowStart, windowEnd>> \in {<<Unset, Unset>>, <<2, 1>>}

MCFairSpec == MCInit /\ [][Next]_vars /\ Fairness
=============================================================================

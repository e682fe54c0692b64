---------------------------- MODULE BroadcastJob ----------------------------
(***************************************************************************)
(* What the panel may see of a mass send: it starts once, is paused and    *)
(* resumed, and ends once. Broadcast implements it, and BroadcastPage       *)
(* watches it.                                                             *)
(***************************************************************************)
VARIABLE job          \* AdminBroadcast.status

Ended == {"done", "stopped", "error"}
Live == {"running", "paused"}
JobStatus == {"none"} \cup Live \cup Ended

Init == job = "none"

\* The moves, by the status before and after.
Launch == {<<"none", "running">>}
Pause == {<<"running", "paused">>}
Resume == {<<"paused", "running">>}
Stop == Live \X {"stopped"}
Fail == Live \X {"error"}
Finish == {<<"running", "done">>}

Next == <<job, job'>> \in Launch \cup Pause \cup Resume \cup Stop \cup Fail \cup Finish

Spec == Init /\ [][Next]_job
=============================================================================

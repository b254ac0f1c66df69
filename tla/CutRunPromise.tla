---------------------------- MODULE CutRunPromise ----------------------------
(***************************************************************************)
(* What a run promises whoever started it (cut_run_context_start(), the    *)
(* listeners, the exit status of the cutter command): it ends with one     *)
(* verdict, or the process is lost; and the verdict is a failure exactly   *)
(* when something critical was reported.  An interrupted run may claim     *)
(* success all the same.                                                   *)
(***************************************************************************)
VARIABLES
  phase,        \* "ready", "running", "complete" or "lost"
  bad,          \* something that must fail the run was reported
  interrupted,  \* the run was canceled by the user
  verdict       \* "none" until the run is complete

vars == <<phase, bad, interrupted, verdict>>

Init == phase = "ready" /\ bad = FALSE /\ interrupted = FALSE /\ verdict = "none"

Start ==
  /\ phase = "ready" /\ phase' = "running"
  /\ UNCHANGED <<bad, interrupted, verdict>>

Report ==
  /\ phase = "running" /\ ~bad /\ bad' = TRUE
  /\ UNCHANGED <<phase, interrupted, verdict>>

Interrupt ==
  /\ phase = "running" /\ ~interrupted /\ interrupted' = TRUE
  /\ UNCHANGED <<phase, bad, verdict>>

Complete ==
  /\ phase = "running" /\ phase' = "complete"
  /\ \/ verdict' = IF bad THEN "failure" ELSE "success"
     \/ interrupted /\ verdict' = "success"
  /\ UNCHANGED <<bad, interrupted>>

Lose ==
  /\ phase = "running" /\ phase' = "lost"
  /\ bad' \in {bad, TRUE}
  /\ UNCHANGED <<interrupted, verdict>>

Next == Start \/ Report \/ Interrupt \/ Complete \/ Lose

Spec == Init /\ [][Next]_vars

FairSpec == Spec /\ WF_vars(Start) /\ WF_vars(Complete \/ Lose)
=============================================================================

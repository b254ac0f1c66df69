----------------------------- MODULE MCGCutProcess -----------------------------
(* What the documentation of gcut_process_wait() says of GCutProcess. *)
EXTENDS GCutProcess

\* A wait with a timeout returns, whatever the child does: "It accepts timeout
\* to avoid infinite waiting." (gcut-process.h:53)
WaitTimesOut == user = "waiting" ~> user # "waiting"
================================================================================

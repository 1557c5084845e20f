----------------------------- MODULE MCScheduler -----------------------------
(* Three tasks, at most three permits of which two to begin with, backoffs of *)
(* 1, 2 and 3 (capped), and a server that may ask for more than the cap.      *)
EXTENDS Scheduler

MCRetryAfters == {0, 4}
=============================================================================

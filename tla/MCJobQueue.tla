----------------------------- MODULE MCJobQueue -----------------------------
(* The job queue with a small set of jobs and worker processes. *)
EXTENDS JobQueue

=============================================================================

------------------------------- MODULE MCJobs -------------------------------
(* Jobs for TLC: one agent with a limit of one job, and one unowned job. *)
EXTENDS Jobs
=============================================================================

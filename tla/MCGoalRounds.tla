---------------------------- MODULE MCGoalRounds ----------------------------
(* GoalRounds for TLC, in the composition of the base bundle. *)
EXTENDS GoalFence

=============================================================================

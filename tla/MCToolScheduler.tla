--------------------------- MODULE MCToolScheduler ---------------------------
(* Model-checking instance of ToolScheduler: four calls, a pool of two, so  *)
(* that a parallel pool can be full, cut by a barrier and refilled.         *)
EXTENDS ToolScheduler

=============================================================================

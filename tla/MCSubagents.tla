---------------------------- MODULE MCSubagents ----------------------------
(* Subagents for TLC: a root, its child and that child's child. *)
EXTENDS Subagents, TLC

CONSTANTS c1, c2, r

ChainParent == c1 :> r @@ c2 :> c1
=============================================================================

------------------------------ MODULE MCConnection ------------------------------
(* Connection for TLC: the $events stream and one other stream. *)
EXTENDS Connection
=============================================================================

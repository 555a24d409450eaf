---------------------------- MODULE MCJsonlHandle ----------------------------
(* Model-checking instance of JsonlHandle. *)
EXTENDS JsonlHandle

=============================================================================

---------------------------- MODULE MCJournalStream ----------------------------
(* JournalStream for TLC: pages of two entries, one caller of prepend. *)
EXTENDS JournalStream
=============================================================================

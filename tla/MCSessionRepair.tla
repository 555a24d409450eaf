--------------------------- MODULE MCSessionRepair ---------------------------
(* SessionRepair for TLC.  Call ids are only compared, so they may be       *)
(* permuted.                                                                *)
EXTENDS SessionRepair, TLC

CallIdSymmetry == Permutations(CallId)
=============================================================================

----------------------------- MODULE MCHandoff ------------------------------
(* Small instances of the handoff for TLC.                                 *)
EXTENDS HandoffSafety, TLC

MCSymmetry == Permutations(Handoffs) \cup Permutations(Sources)
=============================================================================

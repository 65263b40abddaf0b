------------------------------ MODULE MCOAuth -------------------------------
(* Small instances of the OAuth store for TLC.                             *)
EXTENDS OAuthSafety, TLC

MCSymmetry == Permutations(Procs)
=============================================================================

--------------------------- MODULE MCAuthSession ---------------------------
(* AuthSession for two or three requests at a time. *)
EXTENDS AuthSession, TLC

Symmetry == Permutations(Workers)
=============================================================================

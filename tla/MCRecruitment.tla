--------------------------- MODULE MCRecruitment ---------------------------
(* Recruitment on small sets of model values. *)
EXTENDS Recruitment, TLC

Symmetry == Permutations(Users) \cup Permutations(Workers)
=============================================================================

------------------------------- MODULE MCSignUp -------------------------------
(* Two people, or two tabs, that sign up with one address. *)
EXTENDS SignUp, TLC

MCSymmetry == Permutations(Pages)
=============================================================================

---------------------------- MODULE MCOracleSync ----------------------------
(* OracleSync on a handful of rows. *)
EXTENDS OracleSync, TLC

Symmetry == Permutations(Names) \cup Permutations(Rows)
=============================================================================

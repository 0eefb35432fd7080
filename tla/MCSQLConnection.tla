-------------------------- MODULE MCSQLConnection --------------------------
(***************************************************************************)
(* A small instance of SQLConnection for TLC.                              *)
(***************************************************************************)
EXTENDS SQLConnection, TLC

Symmetry == Permutations(Connections) \cup Permutations(Handles) \cup Permutations(Files)
=============================================================================

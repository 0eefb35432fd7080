--------------------------- MODULE MCSimpleLogger ---------------------------
(***************************************************************************)
(* A small instance of SimpleLogger for TLC.                               *)
(***************************************************************************)
EXTENDS SimpleLogger
=============================================================================

--------------------------- MODULE MCTaskManager ---------------------------
(***************************************************************************)
(* Small instances of TaskManager for TLC.                                 *)
(***************************************************************************)
EXTENDS TaskManager

AllFaults == {"spurious", "throw"}
NoFaults == {}
=============================================================================

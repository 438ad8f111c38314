---------------------------- MODULE MCStateStore ----------------------------
(* Values of the constants of StateStore for TLC.                          *)
EXTENDS StateStore

AllFaults == {"directory", "open", "write", "rename", "remove"}
=============================================================================

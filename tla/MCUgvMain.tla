----------------------------- MODULE MCUgvMain -----------------------------
(* Values of the constants of UgvMain for TLC.                             *)
EXTENDS UgvMain

SomeWorkers == {"estop", "io"}
AllThreads  == {"main", "estop", "io"}
Quiet       == {"Debug", "Info"}
WithFatal   == {"Debug", "Info", "Fatal"}
AllRelock   == {"blocks", "throws"}
=============================================================================

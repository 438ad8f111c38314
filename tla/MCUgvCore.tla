----------------------------- MODULE MCUgvCore -----------------------------
(* Values of the constants of UgvCore for TLC; the .cfg files choose.      *)
EXTENDS UgvCoreInv

EveryThread  == {"control", "sensor", "io", "persist"}
CommandPath  == {"control", "io"}
StopKinds    == {"EmergencyStop", "Shutdown", "Stop"}
AllFailures  == {"bringup", "calibration", "enable", "save", "directory"}
BootKinds    == {"EmergencyStop", "Reboot"}
BootFailures == {"bringup", "calibration", "enable"}
AnyFile      == {{}} \cup {{s} : s \in States}
TwoFiles     == {{}, {[calibrated |-> TRUE, authority |-> "Issuer"]}}
AllRelock    == {"blocks", "throws"}
Blocks       == {"blocks"}
=============================================================================

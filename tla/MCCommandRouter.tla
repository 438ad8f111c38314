-------------------------- MODULE MCCommandRouter --------------------------
(* Values of the constants of CommandRouter for TLC.                       *)
EXTENDS CommandRouter

OneTtl      == {1}
EarlyStamps == {0, 1}
AnyStamp    == 0..MaxClock
Normal      == {1}
TwoPriorities == {1, 3}
OneStatus   == {"None"}
=============================================================================

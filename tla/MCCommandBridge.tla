-------------------------- MODULE MCCommandBridge --------------------------
(* CommandBridge for TLC.  The clients differ in nothing but their names,  *)
(* so the runs that check invariants only take one of each symmetric pair. *)
EXTENDS CommandBridge, TLC

ClientsAlike == Permutations(Clients)
=============================================================================

---------------------------- MODULE MCGatewayLock ----------------------------
(***************************************************************************)
(* Two gateways with one configuration, on one port or on two, bound to    *)
(* the loopback address or to another one, after a third that may have     *)
(* left its lock files behind.                                             *)
(***************************************************************************)
EXTENDS GatewayLock

MCConfigOf == [p \in Procs |-> "c1"]
=============================================================================

-------------------------- MODULE MCRiskCoordinator --------------------------
(* Two symbols that share the capital, and one that is added without any. *)
EXTENDS RiskCoordinator, TLC

CONSTANTS btc, eth, xrp

MCAllocation == (btc :> 6) @@ (eth :> 4) @@ (xrp :> 0)
=============================================================================

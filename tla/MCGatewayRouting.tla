--------------------------- MODULE MCGatewayRouting ---------------------------
(* Instances of GatewayRouting for TLC.                                    *)
EXTENDS GatewayRouting, TLC

RolloutSymmetry == Permutations(Rollouts)
===============================================================================

-------------------------- MODULE MCMarketDeployment --------------------------
(***************************************************************************)
(* The reserves of markets/electrolend: the stable coins share a strategy. *)
(***************************************************************************)
EXTENDS MarketDeployment

Symbols == <<"WETN", "TUSDC", "TUSDT">>
Strategies == [WETN |-> "rateStrategyWETN", TUSDC |-> "rateStrategyStable",
               TUSDT |-> "rateStrategyStable"]
=============================================================================

------------------------------ MODULE MCEngine -------------------------------
(***************************************************************************)
(* TLC instance of Engine: two venues, a route from one to the other and a *)
(* smaller one back, which compete for the same balances.                  *)
(***************************************************************************)
EXTENDS Engine

CONSTANTS v1, v2, BTC, USDT

MCLeg(v, side, price) ==
  [venue_id |-> v, side |-> side, base |-> BTC, quote |-> USDT,
   price |-> price, size |-> 1]

MCRoute(strategy, pct) ==
  [strategy |-> strategy, net_profit_pct |-> pct, max_size_usd |-> 2,
   legs |-> <<MCLeg(v1, "buy", 2), MCLeg(v2, "sell", 3)>>]

MCLaggedRoute == MCRoute("cross_exchange", 1)

MCBack ==
  [strategy |-> "cross_exchange", net_profit_pct |-> 1, max_size_usd |-> 1,
   legs |-> <<MCLeg(v2, "buy", 1), MCLeg(v1, "sell", 2)>>]

MCVenues == {v1, v2}
MCAssets == {BTC, USDT}
MCStrategies == {"cross_exchange"}
MCOpportunities == {MCLaggedRoute, MCBack}
MCAccounts == MCVenues \X MCAssets
MCOpenings == {[a \in MCAccounts |-> IF a[2] = BTC THEN 1 ELSE 2]}
MCFunded == {MCAccounts}
MCReported == {MCAssets}
MCStrategyCap == [s \in MCStrategies |-> 2]
MCVenueCap == [v \in MCVenues |-> 2]
MCProfits == {1}
MCTradeLimits == {1, 2}
MCLossLimits == {1}
MCMinOrderUsd == [v \in MCVenues |-> 1]
MCWithdrawBlocked == {}
MCDepositBlocked == {}
==============================================================================

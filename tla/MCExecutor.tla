----------------------------- MODULE MCExecutor ------------------------------
(***************************************************************************)
(* TLC instances of Executor: two venues, a cross-venue route, and a route *)
(* with both legs on one venue.                                            *)
(***************************************************************************)
EXTENDS Executor, TLC

CONSTANTS v1, v2, BTC, USDT, USDC

MCLeg(v, side, quote) ==
  [venue_id |-> v, side |-> side, base |-> BTC, quote |-> quote,
   price |-> 1, size |-> 1]

MCCrossVenue ==
  [strategy |-> "cross_exchange", net_profit_pct |-> 1, max_size_usd |-> 1,
   legs |-> <<MCLeg(v1, "buy", USDT), MCLeg(v2, "sell", USDT)>>]

MCOneVenue ==
  [strategy |-> "cross_quote", net_profit_pct |-> 1, max_size_usd |-> 2,
   legs |-> <<MCLeg(v1, "buy", USDC), MCLeg(v1, "sell", USDT)>>]

MCVenues == {v1, v2}
MCAssets == {BTC, USDT, USDC}
MCStrategies == {"cross_exchange", "cross_quote"}
MCOpportunities == {MCCrossVenue, MCOneVenue}
MCStrategyCap == [s \in MCStrategies |-> 2]
MCVenueCap == [v \in MCVenues |-> 2]
MCProfits == {1}
MCTradeLimits == {1, 2}
MCLossLimits == {0, 1}
==============================================================================

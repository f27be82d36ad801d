------------------------------ MODULE MCRouter -------------------------------
(***************************************************************************)
(* TLC instance of Router: a cross-venue route, its reverse, a bigger      *)
(* route competing for the same cash, a one-venue route that can only be   *)
(* funded by a fill of another, and a route whose legs carry no size.      *)
(***************************************************************************)
EXTENDS Router

CONSTANTS v1, v2, BTC, USDT, USDC

MCLeg(v, side, base, quote, price, size) ==
  [venue_id |-> v, side |-> side, base |-> base, quote |-> quote,
   price |-> price, size |-> size]

MCRoute(strategy, pct, legs) ==
  [strategy |-> strategy, net_profit_pct |-> pct, max_size_usd |-> 1, legs |-> legs]

MCThere == MCRoute("cross_exchange", 2,
  <<MCLeg(v1, "buy", BTC, USDT, 2, 1), MCLeg(v2, "sell", BTC, USDT, 3, 1)>>)

MCBack == MCRoute("cross_exchange", 1,
  <<MCLeg(v2, "buy", BTC, USDT, 2, 1), MCLeg(v1, "sell", BTC, USDT, 2, 1)>>)

MCCrossQuote == MCRoute("cross_quote", 2,
  <<MCLeg(v1, "buy", BTC, USDC, 1, 2), MCLeg(v1, "sell", BTC, USDT, 2, 2)>>)

MCUnsized == MCRoute("triangular", 3,
  <<MCLeg(v1, "buy", BTC, USDT, 2, 0), MCLeg(v1, "sell", BTC, USDC, 2, 0),
    MCLeg(v1, "buy", USDT, USDC, 1, 0)>>)

MCVenues == {v1, v2}
MCAssets == {BTC, USDT, USDC}
MCStrategies == {"cross_exchange", "cross_quote", "triangular"}
MCOpportunities == {MCThere, MCBack, MCCrossQuote, MCUnsized}
MCAccounts == MCVenues \X MCAssets

\* Cash on every account, the coin only where something can be sold.
MCOpenings ==
  {[a \in MCAccounts |-> IF a[2] = BTC THEN IF a[1] = v1 THEN btc ELSE 1 ELSE cash] :
     btc \in {0, 2}, cash \in {2}}
==============================================================================

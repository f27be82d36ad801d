--------------------------------- MODULE Sizing --------------------------------
(***************************************************************************)
(* What becomes of an opportunity that was detected on earlier books: how  *)
(* much of it is traded, whether it still pays (risk/manager.py), the      *)
(* orders sent for it (execution/executor.py), and what a decay check sees *)
(* of it (main.py).                                                        *)
(***************************************************************************)
EXTENDS Scans

CONSTANTS
  MaxNotional,   \* max_notional_per_trade_usd, in grains
  MaxSlippage    \* max_slippage_pct, in parts of Unit

ASSUME SizingConstantsAreTyped ==
  /\ MaxNotional \in Nat
  /\ MaxSlippage \in Nat

KeyOf(leg) == <<leg.venue_id, leg.base, leg.quote>>

ClearsVenueMinimums(o, usd) ==
  \A i \in LegIndices(o) : usd >= MinOrderUsd[o.legs[i].venue_id]

Slips(taken, price) ==
  (taken.cost - price * taken.filled) * Unit > MaxSlippage * price * taken.filled

\* A book that is not in the store is taken to fill it all, at the leg's price.
FillOrAssume(leg, size) ==
  IF Known(KeyOf(leg)) THEN Fill(KeyOf(leg), leg.side, size)
  ELSE [cost |-> leg.price * size, filled |-> size, remaining |-> 0]

\* Mutant: slippage is not looked at.
SizeWithoutSlippage(o) ==
  LET leg == BuyLeg(o)
      proposed == Smaller(o.max_size_usd, MaxNotional)
      taken == FillOrAssume(leg, proposed \div leg.price)
      sized == Smaller(proposed, taken.cost)
  IN IF taken.filled = 0 \/ ~ClearsVenueMinimums(o, sized) THEN 0 ELSE sized

\* size_with_depth_check.
SizeWithDepthCheck(o) ==
  LET leg == BuyLeg(o)
      proposed == Smaller(o.max_size_usd, MaxNotional)
      taken == FillOrAssume(leg, proposed \div leg.price)
      sized == Smaller(proposed, taken.cost)
  IN IF \/ taken.filled = 0
        \/ Slips(taken, leg.price)
        \/ ~ClearsVenueMinimums(o, sized)
     THEN 0 ELSE sized

\* The legs scaled together, and what they fill.
VerifiedSize(o, i, size_usd) ==
  (o.legs[i].size * size_usd) \div (BuyLeg(o).price * BuyLeg(o).size)

VerifiedFill(o, i, size_usd) ==
  FillOrAssume(o.legs[i], VerifiedSize(o, i, size_usd))

\* total_cost and total_proceeds, fees included, times Unit.
Money(o, side, size_usd) ==
  SumFunction([i \in {j \in LegIndices(o) : o.legs[j].side = side} |->
    VerifiedFill(o, i, size_usd).cost
      * (Unit + IF side = "buy" THEN o.legs[i].fee ELSE -o.legs[i].fee)])

ReverifyProfitability(o, size_usd) ==
  /\ size_usd > 0
  /\ BuyLeg(o).size > 0
  /\ \A i \in LegIndices(o) : VerifiedFill(o, i, size_usd).cost > 0
  /\ Money(o, "sell", size_usd) > Money(o, "buy", size_usd)

\* _handle_paper and _handle_live go on with these.
Accepted(o) == ReverifyProfitability(o, SizeWithDepthCheck(o))

\* _execute_leg: the units each order is for.
OrderSize(o, i, size_usd) == size_usd \div o.legs[i].price

\* _rescan_net_profit_pct: the units and the money a unit turns into around the
\* route, as a fraction; an empty side cannot be repriced.
Repriceable(o) ==
  \A i \in LegIndices(o) :
    LET k == KeyOf(o.legs[i])
    IN Known(k) /\ Side(k, o.legs[i].side) # <<>>

Convert(holding, leg) ==
  IF leg.side = "buy"
  THEN [num |-> holding.num * (Unit - leg.fee),
        den |-> holding.den * BestAsk(KeyOf(leg)).price * Unit]
  ELSE [num |-> holding.num * BestBid(KeyOf(leg)).price * (Unit - leg.fee),
        den |-> holding.den * Unit]

Holding(o) == FoldLeft(Convert, [num |-> 1, den |-> 1], o.legs)

\* Mutant: all of the edge has to be there.
SurvivedInFull(o) ==
  /\ Repriceable(o)
  /\ (Holding(o).num - Holding(o).den) * Unit >= o.net_profit_pct * Holding(o).den

\* _check_after_delay: at least half of the edge is still there.
Survived(o) ==
  /\ Repriceable(o)
  /\ 2 * (Holding(o).num - Holding(o).den) * Unit
       >= o.net_profit_pct * Holding(o).den

================================================================================

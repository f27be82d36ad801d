------------------------------- MODULE Trading -------------------------------
(***************************************************************************)
(* The vocabulary every component shares: venues, assets, legs and         *)
(* opportunities (strategies/base.py, core/types.py).                      *)
(*                                                                         *)
(* Prices and sizes are small naturals instead of floats.  A spot symbol   *)
(* "BASE/QUOTE" is the pair of its two assets.  The perpetual, futures and *)
(* transfer symbols, which have no "/", belong to strategies the default   *)
(* run does not build (main.py, build_strategies) and are left out.        *)
(***************************************************************************)
EXTENDS Integers, Sequences, FiniteSets

CONSTANTS
  Venues,         \* venue ids (config/venues.py)
  Assets,         \* assets a leg can spend or receive
  Strategies,     \* strategy names
  Opportunities,  \* the opportunities the strategies may detect
  None            \* Python's None

Sides == {"buy", "sell"}
Modes == {"monitor", "paper", "live"}

Leg ==
  [venue_id : Venues, side : Sides, base : Assets, quote : Assets,
   price : Nat, size : Nat]

OpportunityRecord ==
  [strategy : Strategies, legs : Seq(Leg),
   net_profit_pct : Int, max_size_usd : Nat]

ASSUME OpportunitiesAreTyped ==
  /\ Opportunities \subseteq OpportunityRecord
  /\ None \notin Opportunities

LegIndices(o) == DOMAIN o.legs

BuyIndices(o) == {i \in LegIndices(o) : o.legs[i].side = "buy"}
SellIndices(o) == {i \in LegIndices(o) : o.legs[i].side = "sell"}

\* The leg sizing is anchored on: the first buy, or the first leg of all.
BuyLeg(o) ==
  o.legs[IF BuyIndices(o) = {} THEN 1
         ELSE CHOOSE i \in BuyIndices(o) : \A j \in BuyIndices(o) : i <= j]
==============================================================================

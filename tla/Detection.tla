----------------------------- MODULE Detection ------------------------------
(***************************************************************************)
(* What main.py does to a tick's opportunities between the strategies'     *)
(* scans and the router: is_fillable, is_rebalanceable, dedupe_by_route.   *)
(***************************************************************************)
EXTENDS Trading, SequencesExt

CONSTANTS
  MinOrderUsd,     \* CexVenue.min_order_usd
  WithdrawBlocked, \* venue and asset pairs that cannot be withdrawn
  DepositBlocked   \* venue and asset pairs that cannot be deposited

ASSUME DetectionConstantsAreTyped ==
  /\ MinOrderUsd \in [Venues -> Nat]
  /\ WithdrawBlocked \subseteq Venues \X Assets
  /\ DepositBlocked \subseteq Venues \X Assets

IsFillable(o) ==
  /\ o.legs # <<>>
  /\ \A i \in LegIndices(o) : o.max_size_usd >= MinOrderUsd[o.legs[i].venue_id]

VenuesOf(o, indices) == {o.legs[i].venue_id : i \in indices}

\* A same-venue route needs no transfer; on any other, what is bought must be
\* able to leave and what is sold must be able to arrive.
IsRebalanceable(o) ==
  \/ BuyIndices(o) = {}
  \/ VenuesOf(o, BuyIndices(o)) = VenuesOf(o, SellIndices(o))
  \/ /\ \A i \in BuyIndices(o) :
          <<o.legs[i].venue_id, o.legs[i].base>> \notin WithdrawBlocked
     /\ \A i \in SellIndices(o) :
          <<o.legs[i].venue_id, o.legs[i].base>> \notin DepositBlocked

\* The identity of a leg, and of a route: which legs it has, and how many
\* of each, in whatever order.
LegKey(leg) == <<leg.venue_id, leg.base, leg.quote, leg.side>>

RouteKey(o) ==
  LET keys == {LegKey(o.legs[i]) : i \in LegIndices(o)}
  IN [k \in keys |-> Cardinality({i \in LegIndices(o) : LegKey(o.legs[i]) = k})]

\* Mutant: the last one found wins.
KeepLatest(best, o) ==
  LET rivals == {i \in DOMAIN best : RouteKey(best[i]) = RouteKey(o)}
  IN IF rivals = {} THEN Append(best, o)
     ELSE [i \in DOMAIN best |-> IF i \in rivals THEN o ELSE best[i]]

\* The dict keeps a route's place when a better opportunity takes it.
KeepBetter(best, o) ==
  LET rivals == {i \in DOMAIN best : RouteKey(best[i]) = RouteKey(o)}
  IN IF rivals = {} THEN Append(best, o)
     ELSE [i \in DOMAIN best |->
             IF i \in rivals /\ o.net_profit_pct > best[i].net_profit_pct
             THEN o ELSE best[i]]

Worth(o) == IsFillable(o) /\ IsRebalanceable(o)

\* What a filter drops does not reach the dict.
KeepWorthy(best, o) == IF Worth(o) THEN KeepBetter(best, o) ELSE best

\* What a tick goes on with.
Kept(found) == FoldLeft(KeepWorthy, <<>>, found)

-----------------------------------------------------------------------------
\* Properties.

\* Where the opportunities of a route are that are worth trading.
PlacesOf(found, route) ==
  {j \in DOMAIN found : Worth(found[j]) /\ RouteKey(found[j]) = route}

FirstPlace(found, route) ==
  CHOOSE j \in PlacesOf(found, route) : \A k \in PlacesOf(found, route) : j <= k

\* The better edge, or the earlier of two equals.
Preferred(found, i, j) ==
  \/ found[i].net_profit_pct > found[j].net_profit_pct
  \/ found[i].net_profit_pct = found[j].net_profit_pct /\ i <= j

BestPlaces(found) ==
  {i \in DOMAIN found :
     /\ Worth(found[i])
     /\ \A j \in PlacesOf(found, RouteKey(found[i])) : Preferred(found, i, j)}

\* What a tick records, trades and counts is one opportunity per physical
\* trade: of those worth trading, the best edge, the earliest among equals,
\* and the routes come in the order in which they were first found.
KeepsTheBest(found) ==
  LET kept == Kept(found)
      first(m) == FirstPlace(found, RouteKey(kept[m]))
  IN /\ ToSet(kept) = {found[i] : i \in BestPlaces(found)}
     /\ Len(kept) = Cardinality(BestPlaces(found))
     /\ \A m, n \in DOMAIN kept : m < n => first(m) < first(n)
=============================================================================

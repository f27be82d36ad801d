-------------------------------- MODULE MCScans --------------------------------
(***************************************************************************)
(* TLC instance of the detection: of a tick's filters on any findings, of  *)
(* the scans, sizing and verification on moving books, and of the search   *)
(* for cycles on a growing venue graph.  The three share no state, so a    *)
(* behaviour follows one of them.                                          *)
(***************************************************************************)
EXTENDS Filtering, Pricing, CurrencyGraph

CONSTANTS v1, v2, BTC, WBTC, SOL, USDT, USDC

VARIABLE markets   \* the markets of one venue

mcVars == <<found, books, opportunity, markets>>

Grain == 3600
MCVenues == {v1, v2}
MCAssets == {BTC, WBTC, SOL, USDT, USDC}
MCStablecoins == {USDT, USDC}
MCHubAssets == {BTC, USDT, USDC}
MCStrategies == {"cross_exchange", "latency_arb", "maker_rebate", "cross_quote", "wrapped_asset"}
MCMinOrderUsd == [v \in MCVenues |-> IF v = v1 THEN 4 * Grain ELSE 5 * Grain]
MCWithdrawBlocked == {<<v2, BTC>>}
MCDepositBlocked == {}
MCListed == {<<v1, BTC, USDT>>, <<v2, BTC, USDT>>, <<v1, BTC, USDC>>, <<v1, WBTC, USDT>>}
MCUnderlying == [w \in {WBTC} |-> BTC]
MCBand == [w \in {WBTC} |-> 12]
MCInfinity == 100 * Grain
\* What taking costs where: what v1 reported, and the fallback of v2.
MCCharged == [v \in MCVenues |-> IF v = v1 THEN 4 ELSE 6]
MCCexFees == [v \in {v1} |-> [taker |-> 5, maker |-> 1]]
MCLiveTakerFees == [k \in {<<v1, None>>} |-> 4]
MCLiveMakerFees == [k \in {<<v2, None>>} |-> -2]
MCMinProfit ==
  [s \in MCStrategies |-> CASE s = "maker_rebate" -> 30
                            [] s = "latency_arb" -> 12
                            [] OTHER -> 20]
MCMaxTradeUsd == 10 * Grain
MCMaxNotional == 9 * Grain
MCNaN == -1

-------------------------------------------------------------------------------
\* Findings of any strategies, in any order.

MCLeg(v, side, quote) ==
  [venue_id |-> v, side |-> side, base |-> BTC, quote |-> quote,
   price |-> 1, size |-> 1]

MCRoute(strategy, pct, usd, legs) ==
  [strategy |-> strategy, net_profit_pct |-> pct, max_size_usd |-> usd, legs |-> legs]

MCThereLegs == <<MCLeg(v1, "buy", USDT), MCLeg(v2, "sell", USDT)>>
MCBackLegs == <<MCLeg(v2, "buy", USDT), MCLeg(v1, "sell", USDT)>>
MCQuoteLegs == <<MCLeg(v1, "buy", USDC), MCLeg(v1, "sell", USDT)>>

MCOpportunities ==
  {MCRoute("cross_exchange", 1, 5 * Grain, MCThereLegs),
   MCRoute("latency_arb", 1, 5 * Grain, MCThereLegs),
   MCRoute("maker_rebate", 2, 5 * Grain, Reverse(MCThereLegs)),
   MCRoute("cross_exchange", 3, 4 * Grain, MCThereLegs),
   MCRoute("cross_exchange", 1, 5 * Grain, MCBackLegs),
   MCRoute("cross_quote", 1, 4 * Grain, MCQuoteLegs)}

-------------------------------------------------------------------------------
\* What polls and diffs say.

\* Trades at 3 or at 8 lose, whatever the size; a book of WBTC leaves the size to
\* that of BTC.
MCSizes(k, price) ==
  IF k[2] = WBTC THEN {1} ELSE IF price \in {3, 8} THEN {1} ELSE {1, 2}

MCLevels(k, prices) ==
  UNION {{[price |-> p, size |-> n * Grain] : n \in MCSizes(k, p)} : p \in prices}
MCSides(k, prices) ==
  {levels \in SUBSET MCLevels(k, prices) :
     \A a, b \in levels : a.price = b.price => a = b}

MCAskPrices(k) ==
  IF k = <<v1, BTC, USDT>> THEN {4, 5} ELSE IF k[2] = WBTC THEN {5, 8} ELSE {8}
MCBidPrices(k) ==
  IF k = <<v2, BTC, USDT>> THEN {5, 6}
  ELSE IF k[3] = USDC THEN {6} ELSE IF k[2] = WBTC THEN {3, 6} ELSE {3}

\* Any answer that is not a crossed book.
MCPolled ==
  [k \in MCListed |->
     {sides \in MCSides(k, MCBidPrices(k)) \X MCSides(k, MCAskPrices(k)) :
        \A b \in sides[1], a \in sides[2] : b.price < a.price}]

\* One level of a side, new, changed or removed.
MCUpdates(prices) == {{[price |-> p, size |-> n * Grain]} : p \in prices, n \in 0 .. 1}
MCPatches ==
  [k \in MCListed |-> (MCUpdates(MCBidPrices(k)) \X {{}}) \cup ({{}} \X MCUpdates(MCAskPrices(k)))]

ASSUME MCFeesAreCharged == \A v \in MCVenues : TakerFee(v) = MCCharged[v]

-------------------------------------------------------------------------------
\* The three, one at a time.

\* Only one of these has books in a behaviour, for what concerns one does not
\* concern the other.
MCRivalBooks == {<<v1, BTC, USDC>>, <<v1, WBTC, USDT>>}

\* A diff does not cross the book either.  After detection nothing reads ages, or
\* the books of other markets than the offer's.
MCFocus ==
  /\ Cardinality({k \in MCRivalBooks : books'[k] # None}) <= 1
  /\ \A k \in Listed : books'[k] # books[k] =>
       /\ opportunity # None => k \in LegKeys(opportunity) /\ books'[k].age = 0
       /\ books'[k].bids # <<>> /\ books'[k].asks # <<>>
            => Head(books'[k].bids).price < Head(books'[k].asks).price

MCView ==
  IF opportunity = None THEN <<found, markets, books>>
  ELSE <<opportunity, [k \in LegKeys(opportunity) \cap Listed |->
                         IF Known(k) THEN <<books[k].bids, books[k].asks>> ELSE None]>>

\* The graph of one venue, market by market.

MCSymbols == <<<<BTC, USDT>>, <<SOL, USDT>>, <<SOL, BTC>>, <<BTC, USDC>>, <<USDC, USDT>>>>

ListMarket ==
  /\ Len(markets) < Len(MCSymbols)
  /\ \E ask \in {2, 4}, usable \in BOOLEAN :
       markets' = LET symbol == MCSymbols[Len(markets) + 1]
                  IN Append(markets, Market(symbol[1], symbol[2], ask - 1, ask, usable))

MCInit == FilterInit /\ PricingInit /\ markets = <<>>

Unpriced == books = [k \in Listed |-> None]

MCNext ==
  \/ /\ Unpriced /\ markets = <<>>
     /\ FilterNext
     /\ UNCHANGED <<books, opportunity, markets>>
  \/ /\ found = <<>> /\ markets = <<>>
     /\ PricingNext /\ MCFocus
     /\ UNCHANGED <<found, markets>>
  \/ /\ found = <<>> /\ Unpriced
     /\ ListMarket
     /\ UNCHANGED <<found, books, opportunity>>

MCSpec == MCInit /\ [][MCNext]_mcVars

-------------------------------------------------------------------------------

IsSimpleCycle(edges) ==
  LET srcs(es) == {e.src : e \in es}
      dsts(es) == {e.dst : e \in es}
  IN /\ Cardinality(srcs(edges)) = Cardinality(edges)
     /\ srcs(edges) = dsts(edges)
     /\ \A part \in SUBSET edges \ {{}, edges} : srcs(part) # dsts(part)

GainfulCycles(graph) ==
  LET edges == ToSet(graph)
  IN {c \in UNION {kSubset(n, edges) : n \in 3 .. MaxLength} :
        IsSimpleCycle(c) /\ -MapThenSumSet(LAMBDA e : e.weight, c) >= MinGain}

\* A venue's scan reports simple cycles of three to MaxLength conversions that
\* gain enough, each once although every hub on it is a start; and all of them,
\* those with most of their assets off the hubs too, unless a search gave up.
EachCycleOnce ==
  LET graph == BuildVenueGraph(markets)
      scan == TriangularScan(markets)
      reported == {ToSet(scan[i]) : i \in DOMAIN scan}
      gaveUp == \E hub \in HubAssets : FindCycles(graph, hub).truncated
  IN /\ Cardinality(reported) = Len(scan)
     /\ reported \subseteq GainfulCycles(graph)
     /\ gaveUp \/ GainfulCycles(graph) \subseteq reported
================================================================================

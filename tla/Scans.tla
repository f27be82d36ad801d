--------------------------------- MODULE Scans ---------------------------------
(***************************************************************************)
(* The scans of five strategies over one state of the books: those that    *)
(* compare the venues of a symbol (cross_exchange, latency_arb,            *)
(* maker_rebate) and those that compare the symbols of a venue             *)
(* (cross_quote, wrapped_asset); and what main.py keeps of their findings. *)
(*                                                                         *)
(* A percentage counts in parts of Unit, of which every price is a         *)
(* divisor, and sizes and dollars in grains that every price divides, so   *)
(* that nothing is rounded.                                                *)
(***************************************************************************)
EXTENDS Books, Detection

CONSTANTS
  Unit,            \* parts that make 100%
  CexFees,         \* CEX_VENUES: taker and maker fees, in parts of Unit
  LiveTakerFees,   \* _LIVE_TAKER_FEES, by venue and symbol, None for all symbols
  LiveMakerFees,   \* _LIVE_MAKER_FEES; a rebate is negative
  FeeFallback,     \* the fee of a venue that nothing is known of
  MinProfit,       \* min_profit_pct of each strategy, in parts of Unit
  MaxTradeUsd,     \* max_trade_usd, in grains
  MinLag,          \* min_lag_sec of latency_arb, in steps of Age
  Stablecoins,     \* STABLECOINS, of those that symbols are quoted in
  Underlying,      \* WRAPPED_UNDERLYING, of those that can be redeemed
  Band,            \* fair_deviation_band_pct of each, in parts of Unit
  Infinity,        \* the price of an ask that is not there
  NaN              \* a float that is no number, below every threshold

\* The strategies that buy at the best ask of a book and sell at the best bid of
\* another.
PairStrategies == {"cross_exchange", "latency_arb", "maker_rebate", "cross_quote"}

ASSUME ScansConstantsAreTyped ==
  /\ PairStrategies \cup {"wrapped_asset"} \subseteq Strategies
  /\ Unit \in Nat \ {0}
  /\ CexFees \in [DOMAIN CexFees -> [taker : Int, maker : Int]]
  /\ LiveTakerFees \in [DOMAIN LiveTakerFees -> Int]
  /\ LiveMakerFees \in [DOMAIN LiveMakerFees -> Int]
  /\ FeeFallback \in Int
  /\ MinProfit \in [Strategies -> Int]
  /\ MaxTradeUsd \in Nat
  /\ MinLag \in Nat
  /\ Stablecoins \subseteq Assets
  /\ Underlying \in [DOMAIN Band -> Assets \ DOMAIN Band]
  /\ Band \in [DOMAIN Band -> Nat]
  /\ Infinity \in Nat \ {0}
  /\ NaN \in Int /\ NaN < 0

\* config/venues.py: what the connected venue reported comes before the table.
LiveFee(fees, v, symbol) ==
  IF <<v, symbol>> \in DOMAIN fees THEN fees[<<v, symbol>>]
  ELSE IF <<v, None>> \in DOMAIN fees THEN fees[<<v, None>>]
  ELSE None

TakerFeeFor(v, symbol) ==
  LET live == LiveFee(LiveTakerFees, v, symbol)
  IN CASE live # None -> live
       [] live = None /\ v \in DOMAIN CexFees -> CexFees[v].taker
       [] OTHER -> FeeFallback

MakerFeeFor(v, symbol) ==
  LET live == LiveFee(LiveMakerFees, v, symbol)
  IN CASE live # None -> live
       [] live = None /\ v \in DOMAIN CexFees -> CexFees[v].maker
       [] OTHER -> TakerFeeFor(v, symbol)

\* No strategy asks for the fee of a symbol.
TakerFee(v) == TakerFeeFor(v, None)
MakerFee(v) == MakerFeeFor(v, None)

Smaller(a, b) == IF a <= b THEN a ELSE b

Abs(n) == IF n < 0 THEN -n ELSE n

Gross(bid, ask) == ((bid.price - ask.price) * Unit) \div ask.price

\* What both best levels offer, within the strategy's own limit.
Usd(bid, ask) == Smaller(Smaller(ask.size, bid.size) * ask.price, MaxTradeUsd)

LegOn(k, side, price, size, fee) ==
  [venue_id |-> k[1], base |-> k[2], quote |-> k[3],
   side |-> side, price |-> price, size |-> size, fee |-> fee]

\* Buy at the best ask of one book, sell as much at the best bid of another.
RoundTrip(strategy, i, j, buy_fee, sell_fee) ==
  LET ask == BestAsk(i)
      bid == BestBid(j)
      usd == Usd(bid, ask)
      size == usd \div ask.price
  IN [strategy |-> strategy,
      legs |-> <<LegOn(i, "buy", ask.price, size, buy_fee),
                 LegOn(j, "sell", bid.price, size, sell_fee)>>,
      net_profit_pct |-> Gross(bid, ask) - buy_fee - sell_fee,
      max_size_usd |-> usd]

\* Mutant: a book is never too old.
RowsOfAnyAge(i, j) ==
  /\ i[2] = j[2] /\ i[3] = j[3] /\ i[1] # j[1]
  /\ Known(i) /\ TwoSided(i)
  /\ Known(j) /\ TwoSided(j)

\* Two rows of a symbol's matrix; a venue is never matched against itself.
Rows(i, j) ==
  /\ i[2] = j[2] /\ i[3] = j[3] /\ i[1] # j[1]
  /\ Fresh(i) /\ TwoSided(i)
  /\ Fresh(j) /\ TwoSided(j)

Takers(strategy, i, j) ==
  RoundTrip(strategy, i, j, TakerFee(i[1]), TakerFee(j[1]))

Pairs == {p \in Listed \X Listed : Rows(p[1], p[2])}

CrossExchange ==
  {o \in {Takers("cross_exchange", p[1], p[2]) : p \in Pairs} :
     o.net_profit_pct >= MinProfit["cross_exchange"] /\ o.max_size_usd > 0}

\* The side bought on has not been updated for a while.
LatencyArb ==
  {o \in {Takers("latency_arb", p[1], p[2]) :
            p \in {q \in Pairs : books[q[1]].age - books[q[2]].age >= MinLag}} :
     o.net_profit_pct >= MinProfit["latency_arb"] /\ o.max_size_usd > 0}

\* The ways to rest one leg or both, in the order that ties are decided in.
MakerPaths(i, j) ==
  <<RoundTrip("maker_rebate", i, j, MakerFee(i[1]), TakerFee(j[1])),
    RoundTrip("maker_rebate", i, j, TakerFee(i[1]), MakerFee(j[1])),
    RoundTrip("maker_rebate", i, j, MakerFee(i[1]), MakerFee(j[1]))>>

BestPath(i, j) ==
  LET paths == MakerPaths(i, j)
      best == {m \in DOMAIN paths :
                 \A n \in DOMAIN paths : paths[m].net_profit_pct >= paths[n].net_profit_pct}
  IN paths[CHOOSE m \in best : \A n \in best : m <= n]

\* Only what takers alone would not do.
MakerRebate ==
  {o \in {BestPath(p[1], p[2]) :
            p \in {q \in Pairs : Takers("maker_rebate", q[1], q[2]).net_profit_pct
                                   < MinProfit["maker_rebate"]}} :
     o.net_profit_pct >= MinProfit["maker_rebate"] /\ o.max_size_usd > 0}

\* Two symbols of one venue and base, quoted in different stablecoins.  There
\* need not be an ask: its price is then infinite, and the edge no number,
\* which is not below the threshold.
Quotes(i, j) ==
  /\ i[1] = j[1] /\ i[2] = j[2] /\ i[3] # j[3]
  /\ {i[3], j[3]} \subseteq Stablecoins
  /\ Fresh(i) /\ Fresh(j)
  /\ books[j].bids # <<>>

NoAsk(i, j) ==
  [strategy |-> "cross_quote",
   legs |-> <<LegOn(i, "buy", NaN, NaN, TakerFee(i[1])),
              LegOn(j, "sell", BestBid(j).price, NaN, TakerFee(j[1]))>>,
   net_profit_pct |-> NaN, max_size_usd |-> NaN]

CrossQuote ==
  LET pairs == {p \in Listed \X Listed : Quotes(p[1], p[2])}
      priced == {p \in pairs : books[p[1]].asks # <<>>}
  IN {o \in {Takers("cross_quote", p[1], p[2]) : p \in priced} :
        o.net_profit_pct >= MinProfit["cross_quote"] /\ o.max_size_usd > 0}
     \cup {NoAsk(p[1], p[2]) : p \in pairs \ priced}

\* The underlying's book on the same venue, or else one from anywhere (the first
\* that was ever written).
UnderlyingBook(k) ==
  LET here == <<k[1], Underlying[k[2]], k[3]>>
      known == {j \in Listed : Known(j) /\ j[2] = here[2] /\ j[3] = here[3]}
  IN IF Known(here) THEN here ELSE IF known = {} THEN None ELSE CHOOSE j \in known : TRUE

\* What it would bring to sell the wrapped asset for the underlying; if that is
\* a loss, then as much is taken for the gain of the opposite trade.  Wherever
\* the underlying's price is from, its leg is for the wrapped asset's venue.
WrappedTrade(k, j) ==
  LET bid == BestBid(k)
      ask == BestAsk(j)
      deviation == Gross(bid, ask)
      fee == TakerFee(k[1])
      usd == Usd(bid, ask)
      leg(l, side, price) == LegOn(l, side, price, usd \div ask.price, fee)
      here == <<k[1], j[2], j[3]>>
      wrapped_ask == IF books[k].asks = <<>> THEN Infinity ELSE BestAsk(k).price
      underlying_bid == IF books[j].bids = <<>> THEN 0 ELSE BestBid(j).price
  IN [strategy |-> "wrapped_asset",
      legs |-> IF deviation > 0
               THEN <<leg(k, "sell", bid.price), leg(here, "buy", ask.price)>>
               ELSE <<leg(k, "buy", wrapped_ask), leg(here, "sell", underlying_bid)>>,
      net_profit_pct |-> Abs(deviation) - Band[k[2]] - 2 * fee,
      max_size_usd |-> usd]

\* (Without an ask of the underlying the edge is no number, and neither is the
\* size, for which is_fillable drops it.)
WrappedAsset ==
  LET wrapped == {k \in Listed : /\ k[2] \in DOMAIN Underlying /\ k[3] \in Stablecoins
                                 /\ Fresh(k) /\ books[k].bids # <<>>}
      found == {k \in wrapped : LET j == UnderlyingBook(k)
                                IN j # None /\ Fresh(j) /\ books[j].asks # <<>>}
  IN {o \in {WrappedTrade(k, UnderlyingBook(k)) : k \in found} :
        o.net_profit_pct >= 0 /\ o.max_size_usd > 0}

\* A scan's findings, best first, equals in the order they were found in, which is
\* left open (next to a NaN Python's sort promises no order; nothing depends on it,
\* for each route is found once in a scan).
BestFirst(findings) ==
  LET listed == SetToSeq(findings)
      order == SortedBy(DOMAIN listed,
                        [i \in DOMAIN listed |-> <<-listed[i].net_profit_pct, i>>])
  IN [n \in DOMAIN listed |-> listed[order[n]]]

\* A tick's findings, strategy by strategy, and what becomes of them.
Found ==
  BestFirst(CrossExchange) \o BestFirst(CrossQuote) \o BestFirst(WrappedAsset)
    \o BestFirst(MakerRebate) \o BestFirst(LatencyArb)

Offers == Kept(Found)
================================================================================

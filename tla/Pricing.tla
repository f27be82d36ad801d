------------------------------- MODULE Pricing ---------------------------------
(***************************************************************************)
(* An opportunity from its detection to its turn, on books that move: they *)
(* are polled, patched and grow old, a tick picks one of its offers, and   *)
(* the books move on until the offer is sized, verified, ordered, and      *)
(* measured again (core/book.py, main.py, risk/manager.py).                *)
(***************************************************************************)
EXTENDS Sizing

CONSTANTS
  Polled,    \* what a poll of a book may answer: its bids and its asks
  Patches    \* what a diff of a book may change: bids and asks

Change == [price : Nat \ {0}, size : Nat]

\* No exchange reports a price twice on a side.
IsSide(levels) ==
  IsFiniteSet(levels) /\ \A a, b \in levels : a.price = b.price => a = b

ASSUME PricingConstantsAreTyped ==
  /\ IsFiniteSet(Listed)
  /\ Polled \in [Listed -> SUBSET ((SUBSET Level) \X (SUBSET Level))]
  /\ Patches \in [Listed -> SUBSET ((SUBSET Change) \X (SUBSET Change))]
  /\ \A k \in Listed : \A sides \in Polled[k] \cup Patches[k] :
       IsSide(sides[1]) /\ IsSide(sides[2])

\* Every price asked divides the limit of a strategy's trades, which may be as
\* small as a venue takes, so that a trade of the limit is a number of units.
ASSUME TradesAreExact ==
  /\ MaxTradeUsd > 0
  /\ \A v \in Venues : MinOrderUsd[v] <= MaxTradeUsd
  /\ \A k \in Listed : \A sides \in Polled[k] \cup Patches[k] :
       \A l \in sides[2] : MaxTradeUsd % l.price = 0

Fees ==
  {FeeFallback} \cup {LiveTakerFees[k] : k \in DOMAIN LiveTakerFees}
    \cup {LiveMakerFees[k] : k \in DOMAIN LiveMakerFees}
    \cup {CexFees[v].taker : v \in DOMAIN CexFees} \cup {CexFees[v].maker : v \in DOMAIN CexFees}

\* What strategies ask of an edge after its fees.
Thresholds == {MinProfit[s] : s \in PairStrategies} \cup {Band[w] : w \in DOMAIN Band}

\* A fee is small, and its square small beside the edge that any strategy asks
\* for: the table's largest fee, 0.6%, and the lowest threshold, 0.05%, satisfy
\* this. A venue that reports 0.65% and is traded at that threshold does not.
ASSUME FeesAreSmall ==
  \A fee \in Fees :
    /\ 16 * Abs(fee) <= Unit
    /\ \A least \in Thresholds : 12 * fee * fee <= least * Unit

VARIABLE opportunity   \* the offer whose turn comes later in the tick

pricingVars == <<books, opportunity>>

PricingInit == BooksInit /\ opportunity = None

Poll(k) ==
  /\ \E sides \in Polled[k] : Replace(k, sides[1], sides[2])
  /\ UNCHANGED opportunity

Patch(k) ==
  /\ \E sides \in Patches[k] : ApplyDiff(k, sides[1], sides[2])
  /\ UNCHANGED opportunity

Wait == Age /\ UNCHANGED opportunity

\* A tick finds, and what it goes on with takes its turn.
Pick ==
  /\ opportunity = None
  /\ opportunity' \in ToSet(Offers)
  /\ UNCHANGED books

PricingNext ==
  \/ \E k \in Listed : Poll(k) \/ Patch(k)
  \/ Wait
  \/ Pick

PricingSpec == PricingInit /\ [][PricingNext]_pricingVars

LegKeys(o) == {KeyOf(o.legs[i]) : i \in LegIndices(o)}

SellLeg(o) == o.legs[CHOOSE i \in SellIndices(o) : TRUE]

-------------------------------------------------------------------------------
\* Properties.

\* The edge of buying at the best ask of one book and selling at another's best
\* bid covers this much and both taker fees.
EdgeCovers(i, j, pct) ==
  (BestBid(j).price - BestAsk(i).price) * Unit
    >= (pct + TakerFee(i[1]) + TakerFee(j[1])) * BestAsk(i).price

Smallest(i, j) == Smaller(BestAsk(i).size, BestBid(j).size)

\* wrapped_asset looks at the prices of selling the wrapped asset on a venue for
\* an underlying that may be quoted elsewhere, and offers the opposite trade too.
\* What is left are offers made of the prices that they would trade at.
AsMeasured(o) ==
  o.strategy = "wrapped_asset" =>
    o.legs[1].side = "sell" /\ Known(KeyOf(BuyLeg(o)))

\* The edge an offer must leave after its fees.
Bar(o) ==
  IF o.strategy = "wrapped_asset" THEN Band[SellLeg(o).base] ELSE MinProfit[o.strategy]

\* What a tick goes on with is on the books: fresh ones, at their best levels
\* and within their sizes, above every minimum order, and above the threshold
\* of its strategy after its fees, however one-sided or stale the other books
\* are.  And no taker trade between two venues that is all of this is missed.
OffersAreReal ==
  opportunity = None =>
    LET offers == ToSet(Offers)
    IN /\ \A o \in {p \in offers : AsMeasured(p)} :
            LET buy == BuyLeg(o)
                sell == SellLeg(o)
                i == KeyOf(buy)
                j == KeyOf(sell)
            IN /\ i # j /\ Fresh(i) /\ Fresh(j)
               /\ books[i].asks # <<>> /\ books[j].bids # <<>>
               /\ \A l \in ToSet(books[i].asks) : buy.price <= l.price
               /\ \A l \in ToSet(books[j].bids) : sell.price >= l.price
               /\ buy.size = sell.size /\ buy.size <= Smallest(i, j)
               /\ buy.size * buy.price >= MinOrderUsd[i[1]]
               /\ buy.size * buy.price >= MinOrderUsd[j[1]]
               /\ (sell.price - buy.price) * Unit
                    >= (Bar(o) + buy.fee + sell.fee) * buy.price
       /\ \A i, j \in Listed :
            /\ i[1] # j[1] /\ i[2] = j[2] /\ i[3] = j[3]
            /\ Fresh(i) /\ Fresh(j) /\ TwoSided(i) /\ TwoSided(j)
            /\ <<i[1], i[2]>> \notin WithdrawBlocked /\ <<j[1], j[2]>> \notin DepositBlocked
            /\ EdgeCovers(i, j, MinProfit["cross_exchange"])
            /\ \A v \in {i[1], j[1]} : Smallest(i, j) * BestAsk(i).price >= MinOrderUsd[v]
            => \E o \in offers : LegKeys(o) = {i, j} /\ BuyLeg(o).venue_id = i[1]

\* The money that moves when so many units are traded at the best prices there
\* are, level by level from the best, whatever order the book keeps them in.
Better(a, b, side) == IF side = "buy" THEN a.price < b.price ELSE a.price > b.price

Depth(levels) == SumFunction([l \in levels |-> l.size])

Traded(levels, side, l, size) ==
  LET left == size - Depth({b \in levels : Better(b, l, side)})
  IN IF left <= 0 THEN 0 ELSE Smaller(left, l.size)

BestCost(levels, side, size) ==
  SumFunction([l \in levels |-> Traded(levels, side, l, size) * l.price])

BestMoney(k, side, size) == BestCost(ToSet(Side(k, side)), side, size)

\* A trade that passes the check before it is executed pays on the books as they
\* are at that moment, however far they moved since detection: the units bought
\* cost less, with the fee, than what selling as many brings.  (Unless a book is
\* missing, or the asks run out under the order, in which case the code counts
\* on selling more.)
VerifiedTradesProfit ==
  opportunity # None =>
    LET o == opportunity
        buy == CHOOSE i \in BuyIndices(o) : TRUE
        size == VerifiedSize(o, buy, SizeWithDepthCheck(o))
        i == KeyOf(BuyLeg(o))
        j == KeyOf(SellLeg(o))
    IN /\ Known(i) /\ Known(j)
       /\ Accepted(o) /\ size <= Depth(ToSet(books[i].asks))
       => BestMoney(j, "sell", size) * (Unit - SellLeg(o).fee)
            > BestMoney(i, "buy", size) * (Unit + BuyLeg(o).fee)

\* The buy order that is sent buys, at the moment it is sent, at no more than
\* the slippage allowed over the price that was detected, within the limits on
\* one trade, and never less than a venue accepts.
SlippageIsBounded ==
  opportunity # None =>
    LET o == opportunity
        buy == CHOOSE i \in BuyIndices(o) : TRUE
        sized == SizeWithDepthCheck(o)
        k == KeyOf(BuyLeg(o))
        size == Smaller(OrderSize(o, buy, sized), Depth(ToSet(books[k].asks)))
    IN sized > 0 =>
         /\ sized <= MaxNotional /\ sized <= MaxTradeUsd
         /\ \A i \in LegIndices(o) : sized >= MinOrderUsd[o.legs[i].venue_id]
         /\ Known(k) => BestMoney(k, "buy", size) * Unit
                          <= size * BuyLeg(o).price * (Unit + MaxSlippage)

\* A decay check measures what detection measured: a spread that has not moved
\* survives, whichever strategy found it.
UnmovedSpreadsSurvive ==
  opportunity # None =>
    LET o == opportunity
        i == KeyOf(BuyLeg(o))
        j == KeyOf(SellLeg(o))
    IN /\ AsMeasured(o) /\ Known(j)
       /\ books[i].asks # <<>> /\ BestAsk(i).price = BuyLeg(o).price
       /\ books[j].bids # <<>> /\ BestBid(j).price = SellLeg(o).price
       => Survived(o)

\* risk/manager.py, reverify_profitability: "Every leg's size scales together
\* with the buy leg's", and so would the orders of a trade it accepts.
OrdersMatchVerified ==
  opportunity # None =>
    LET o == opportunity
        sized == SizeWithDepthCheck(o)
    IN Accepted(o) =>
         \A i \in LegIndices(o) : OrderSize(o, i, sized) = VerifiedSize(o, i, sized)
================================================================================

------------------------------- MODULE Universe --------------------------------
(***************************************************************************)
(* config/universe.py: which of the symbols that venues list are polled,   *)
(* and how often; and main.py's plan of the capital of one paper venue.    *)
(* A symbol is the pair of its base and its quote.                         *)
(***************************************************************************)
EXTENDS Integers, FiniteSets, SequencesExt, Sorting

CONSTANTS
  Tiers,         \* TIER_1 and the other tuples by tier, most liquid first
  QuoteAssets,   \* QUOTE_ASSETS
  Alphabet,      \* every symbol, in alphabetical order
  PollInterval,  \* TIER_CONFIG, poll_interval_sec per tier
  MaxSymbols,    \* MAX_POLLED_SYMBOLS, 0 for no limit
  MinVenues      \* MIN_VENUES_PER_SYMBOL

TierPriority == <<"tier1", "stable", "wrapped", "tier2", "tier3">>
TierNames == Range(TierPriority)

ASSUME UniverseConstantsAreTyped ==
  /\ DOMAIN Tiers = TierNames
  /\ \A t, u \in TierNames : t # u => Range(Tiers[t]) \cap Range(Tiers[u]) = {}
  /\ PollInterval \in [TierNames -> Nat \ {0}]
  /\ {MaxSymbols, MinVenues} \subseteq Nat
  /\ \A t \in TierNames : Tiers[t] \in Seq(Range(Tiers[t]))
  /\ QuoteAssets \in Seq(Range(QuoteAssets))
  /\ Alphabet \in Seq(Range(Alphabet))
  /\ \A s \in Range(Alphabet) : s \in Range(s) \X Range(s)

Ranked == UNION {Range(Tiers[t]) : t \in TierNames}
BaseAssets == UNION {Range(Tiers[t]) : t \in TierNames \ {"stable"}}
Stablecoins == Range(Tiers["stable"])

\* Unranked assets are of the last tier.
TierOf(base) ==
  IF base \in Ranked
  THEN CHOOSE t \in TierNames : base \in Range(Tiers[t])
  ELSE "tier3"

Interval(symbol) == PollInterval[TierOf(symbol[1])]

Pairs(bases, quotes) == {s \in bases \X quotes : s[1] # s[2]}

\* _prune_markets keeps what some strategy might poll, or else everything.
UniverseSymbols ==
  Pairs(BaseAssets \cup Stablecoins, Range(QuoteAssets) \cup Stablecoins)

Pruned(markets) ==
  IF markets \cap UniverseSymbols = {} THEN markets ELSE markets \cap UniverseSymbols

TradeableSymbols(markets) == markets \cap Pairs(BaseAssets, Range(QuoteAssets))

-------------------------------------------------------------------------------
\* select_pollable_symbols.

\* list.index, or one past the end.
Place(list, x) ==
  IF Contains(list, x) THEN CHOOSE i \in DOMAIN list : list[i] = x ELSE Len(list) + 1

BaseRank(base) ==
  IF base \in Ranked THEN Place(Tiers[TierOf(base)], base) ELSE Cardinality(Ranked) + 1

SymbolRank(symbol, venue_count) ==
  <<Place(TierPriority, TierOf(symbol[1])), BaseRank(symbol[1]),
    Place(QuoteAssets, symbol[2]), -venue_count, Place(Alphabet, symbol)>>

SelectPollable(listed) ==
  LET count == [s \in UNION Range(listed) |->
                  Cardinality({v \in DOMAIN listed : s \in listed[v]})]
      eligible == {s \in DOMAIN count : count[s] >= MinVenues}
      ranked == SortedBy(eligible, [s \in eligible |-> SymbolRank(s, count[s])])
  IN IF MaxSymbols = 0 \/ Len(ranked) <= MaxSymbols THEN ranked
     ELSE SubSeq(ranked, 1, MaxSymbols)

-------------------------------------------------------------------------------
\* _plan_paper_allocation: half a venue's dollars in quotes, by how many symbols
\* use each, half in bases, evenly.

QuoteShare(symbols, usd, asset) ==
  LET uses == {i \in DOMAIN symbols : symbols[i][2] = asset}
  IN (usd * Cardinality(uses)) \div (2 * Len(symbols))

BaseShare(symbols, usd, asset) ==
  LET bases == {symbols[i][1] : i \in DOMAIN symbols}
  IN IF asset \in bases THEN usd \div (2 * Cardinality(bases)) ELSE 0

\* Mutant: what a base gets replaces what it has as a quote.
PlanOverwrites(symbols, usd) ==
  [a \in UNION {Range(symbols[i]) : i \in DOMAIN symbols} |->
     IF BaseShare(symbols, usd, a) > 0
     THEN BaseShare(symbols, usd, a) ELSE QuoteShare(symbols, usd, a)]

PlanAllocation(symbols, usd) ==
  [a \in UNION {Range(symbols[i]) : i \in DOMAIN symbols} |->
     QuoteShare(symbols, usd, a) + BaseShare(symbols, usd, a)]
================================================================================

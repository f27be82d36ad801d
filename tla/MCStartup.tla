------------------------------- MODULE MCStartup -------------------------------
(***************************************************************************)
(* TLC instance of Startup: two venues with different markets, an asset    *)
(* that is a base and a quote, three tiers, a symbol outside the universe, *)
(* a venue that reports a balance and one that does not, and one that the  *)
(* settings name twice.                                                    *)
(***************************************************************************)
EXTENDS Startup

CONSTANTS v1, v2, BTC, ETH, DOT, USDT, FOO

MCVenues == {v1, v2}
MCVenueNames == <<v1, v2>>
MCTiers ==
  [t \in TierNames |-> CASE t = "tier1" -> <<BTC>>
                         [] t = "tier2" -> <<ETH, DOT>>
                         [] t = "stable" -> <<USDT>>
                         [] OTHER -> <<>>]
MCQuoteAssets == <<USDT, BTC>>
MCAlphabet ==
  <<<<BTC, USDT>>, <<DOT, BTC>>, <<ETH, BTC>>, <<ETH, USDT>>, <<FOO, USDT>>>>
MCPollInterval ==
  [t \in TierNames |-> IF t = "tier1" THEN 3 ELSE 5]
MCCatalogues ==
  [v \in MCVenues |->
     IF v = v1 THEN {{<<BTC, USDT>>}, {<<FOO, USDT>>}}
     ELSE {{<<DOT, BTC>>, <<ETH, BTC>>, <<ETH, USDT>>}, {<<BTC, USDT>>, <<FOO, USDT>>}, {<<FOO, USDT>>}}]
MCUsdProxies == {USDT}
MCUsdQuotes == {USDT}
MCMid == [a \in Assets |-> IF a = BTC THEN 3 ELSE 2]
MCSettings ==
  {[max_venues |-> 0, venues |-> <<>>],
   [max_venues |-> 1, venues |-> <<>>],
   [max_venues |-> 0, venues |-> <<v2, v2>>]}
MCReports == [v \in MCVenues |-> IF v = v1 THEN {[a \in {USDT} |-> 5]} ELSE {}]
================================================================================

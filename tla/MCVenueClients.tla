--------------------------- MODULE MCVenueClients ----------------------------
(* Two venues and two requests for TLC: enough for reconnects that overlap,  *)
(* follow each other or concern different venues.  One connect at a time and *)
(* one poll at a time make both semaphores bite.                             *)
EXTENDS VenueClients

MCVenues == {"binance", "kraken"}
MCSymbols == {"BTC/USDT"}
MCKeys == {"old", "new"}
MCRequests == {"r1", "r2"}
==============================================================================

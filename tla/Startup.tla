-------------------------------- MODULE Startup --------------------------------
(***************************************************************************)
(* How run() in main.py gets from the venues it could connect to a loop    *)
(* that may trade: the symbols it polls, RestManager.poll_loop, the wait   *)
(* for the first books, the paper capital laid out on what those say, and  *)
(* the balances fetched for live mode, at the start or when the dashboard  *)
(* switches.  Trades, which move balances too, are Trading's business.     *)
(*                                                                         *)
(* Timers count down in steps of half a second; a step of the event loop   *)
(* takes no time.  What becomes of clients is VenueClients' business: here *)
(* all connect at once, and a poll answers or fails.                       *)
(***************************************************************************)
EXTENDS Universe

CONSTANTS
  Venues,           \* venue ids
  VenueNames,       \* the same, in alphabetical order
  Catalogues,       \* the sets of markets each venue may list
  MinConnected,     \* MIN_CONNECTED_VENUES
  BooksTimeout,     \* timeout_sec of _await_first_books
  CheckEvery,       \* its sleep
  MaxAnswer,        \* the longest a poll takes, its wait for the semaphore too
  SeedUsdTotal,     \* PAPER_SEED_USD_TOTAL
  Settings,         \* the values PAPER_SEED_MAX_VENUES and PAPER_SEED_VENUES may have
  Reports,          \* the free balances each exchange may report, by asset
  UsdProxies,       \* _STABLE_USD_PROXIES
  UsdQuotes,        \* the quotes that an asset is priced in
  Mid               \* the price of an asset in any of them

Symbols == Range(Alphabet)
Assets == UNION {Range(s) : s \in Symbols}
Accounts == Venues \X Assets
Modes == {"monitor", "paper", "live"}

\* What the code may divide the total by: the venues, or a list that may name one
\* twice.
Divisors == (1 .. Cardinality(Venues)) \cup UNION {1 .. Len(s.venues) : s \in Settings}

ASSUME StartupConstantsAreTyped ==
  /\ Range(VenueNames) = Venues
  /\ Catalogues \in [Venues -> SUBSET SUBSET Symbols]
  /\ {MinConnected, CheckEvery} \subseteq Nat \ {0}
  /\ {BooksTimeout, MaxAnswer, SeedUsdTotal} \subseteq Nat
  /\ Settings \subseteq [max_venues : Nat, venues : Seq(Venues)]
  /\ \A v \in Venues : \A free \in Reports[v] : DOMAIN free \subseteq Assets /\ Range(free) \subseteq Nat
  /\ Mid \in [Assets -> Nat \ {0}]
  /\ VenueNames \in Seq(Venues)

\* Floats divide without a remainder; so does the total here, by whatever the code
\* divides it by.
ASSUME SharesAreExact ==
  \A venues \in Divisors, symbols \in 1 .. Cardinality(Symbols),
     price \in Range(Mid) \cup {1} :
    SeedUsdTotal % (2 * venues * symbols * price) = 0

VARIABLES
  environ,      \* the settings of this run; no limit on venues is 0
  phase,        \* where run() is
  mode,         \* control.mode
  clients,      \* rest_manager.clients: the markets of each connected venue
  symbol_list,
  books,       \* book_store: no book, one without a side, or one with a mid
  next_due,     \* poll_loop: the time until each symbol is due
  outstanding,  \* the polls of the current gather
  gathering, elapsed, sleeping,  \* is there one, and since when; or until when not
  patience, check_in, \* _await_first_books: the time to its deadline and next look
  inventory,    \* the balances, by account
  seeded_modes,
  unfetched,    \* the venues _seed_inventory_for_mode has still to ask
  asked,        \* history: the time since each symbol was last polled
  reported,     \* history: the accounts whose balance an exchange reported
  intact        \* history: paper capital was laid out, and none reported since

pollVars == <<next_due, outstanding, gathering, elapsed, sleeping, asked>>
waitVars == <<patience, check_in>>
setVars == <<environ, clients, symbol_list>>
fundVars == <<inventory, seeded_modes, unfetched, reported, intact>>
startVars == <<phase, mode, setVars, books, pollVars, waitVars, fundVars>>

Connected == DOMAIN clients
Polled == Range(symbol_list)

StartInit ==
  /\ environ \in Settings
  /\ phase = "connecting"
  /\ mode \in Modes
  /\ clients = <<>>
  /\ symbol_list = <<>>
  /\ books = [k \in Venues \X Symbols |-> "none"]
  /\ next_due = <<>> /\ asked = <<>>
  /\ outstanding = {} /\ gathering = FALSE
  /\ elapsed = 0 /\ sleeping = 0
  /\ patience = 0 /\ check_in = 0
  /\ inventory = [k \in Accounts |-> 0]
  /\ seeded_modes = {} /\ unfetched = {}
  /\ reported = {} /\ intact = FALSE

\* connect_all returned, and the feed is started unless there is nothing to trade.
Connect(markets) ==
  /\ phase = "connecting"
  /\ clients' = [v \in DOMAIN markets |-> Pruned(markets[v])]
  /\ symbol_list' = IF Cardinality(DOMAIN markets) < MinConnected THEN <<>>
                    ELSE SelectPollable([v \in DOMAIN markets |->
                                           TradeableSymbols(clients'[v])])
  /\ phase' = IF symbol_list' = <<>> THEN "aborted"
              ELSE IF mode = "monitor" THEN "trading" ELSE "waiting"
  /\ next_due' = [s \in Range(symbol_list') |-> 0]
  /\ asked' = [s \in Range(symbol_list') |-> 0]
  /\ patience' = BooksTimeout
  /\ UNCHANGED <<environ, mode, books, outstanding, gathering, elapsed, sleeping,
                 check_in, fundVars>>

-------------------------------------------------------------------------------
\* poll_loop.

Feeding == phase \in {"waiting", "fetching", "trading"}

WakeEvery == Min({Interval(s) : s \in Polled})

\* A symbol that a venue does not list is not asked for there.
StartCycle ==
  /\ Feeding /\ ~gathering /\ sleeping = 0
  /\ LET due == {s \in Polled : next_due[s] = 0}
     IN /\ next_due' = [s \in Polled |-> IF s \in due THEN Interval(s) ELSE next_due[s]]
        /\ asked' = [s \in Polled |-> IF s \in due THEN 0 ELSE asked[s]]
        /\ outstanding' = {k \in Connected \X due : k[2] \in clients[k[1]]}
  /\ gathering' = TRUE
  /\ elapsed' = 0
  /\ UNCHANGED <<phase, mode, setVars, books, sleeping, waitVars, fundVars>>

\* Once paper capital is laid out, nothing here reads a book.
Answer(k, book) ==
  /\ k \in outstanding
  /\ outstanding' = outstanding \ {k}
  /\ books' = IF "paper" \in seeded_modes THEN books ELSE [books EXCEPT ![k] = book]
  /\ UNCHANGED <<phase, mode, setVars, next_due, gathering, elapsed,
                 sleeping, asked, waitVars, fundVars>>

PollFails(k) == Answer(k, books[k])

\* Mutant: the loop sleeps its whole interval after the gather.
EndCycleSleepsOn ==
  /\ gathering /\ outstanding = {}
  /\ gathering' = FALSE
  /\ elapsed' = 0
  /\ sleeping' = WakeEvery
  /\ UNCHANGED <<phase, mode, setVars, books, next_due, outstanding,
                 asked, waitVars, fundVars>>

EndCycle ==
  /\ gathering /\ outstanding = {}
  /\ gathering' = FALSE
  /\ elapsed' = 0
  /\ sleeping' = Max({0, WakeEvery - elapsed})
  /\ UNCHANGED <<phase, mode, setVars, books, next_due, outstanding,
                 asked, waitVars, fundVars>>

-------------------------------------------------------------------------------
\* Paper capital.

\* _usd_price_of, 0 for None.
UsdPrice(asset) ==
  LET priced == {q \in UsdQuotes : \E v \in Venues :
                   <<asset, q>> \in Symbols /\ books[<<v, <<asset, q>>>>] = "priced"}
  IN IF asset \in UsdProxies THEN 1 ELSE IF priced # {} THEN Mid[asset] ELSE 0

Coverage(v) == Cardinality({s \in Polled : books[<<v, s>>] # "none"})

ByCoverage ==
  SortedBy(Connected, [v \in Connected |-> <<-Coverage(v), Place(VenueNames, v)>>])

\* The places of PAPER_SEED_VENUES that are connected.
ChosenPlaces == {i \in DOMAIN environ.venues : environ.venues[i] \in Connected}

\* Those that are named and connected; or as many as allowed, most books first.
VenuesToFund ==
  IF ChosenPlaces # {} THEN {environ.venues[i] : i \in ChosenPlaces}
  ELSE IF environ.venues # <<>> \/ environ.max_venues = 0 THEN Connected
  ELSE Range(SubSeq(ByCoverage, 1, Min({environ.max_venues, Len(ByCoverage)})))

\* What the total is divided by: a venue that is named twice counts twice.
Portions == IF ChosenPlaces # {} THEN Cardinality(ChosenPlaces) ELSE Cardinality(VenuesToFund)

\* What _seed_paper_inventory writes; an asset without a price is left out.
PaperCapital ==
  LET plan == PlanAllocation(symbol_list, SeedUsdTotal \div Portions)
      priced == {a \in DOMAIN plan : UsdPrice(a) > 0}
  IN [k \in VenuesToFund \X priced |-> plan[k[2]] \div UsdPrice(k[2])]

\* It sets those balances and leaves every other as it is.
SeedPaper ==
  LET capital == PaperCapital
  IN /\ inventory' = [k \in Accounts |-> IF k \in DOMAIN capital THEN capital[k] ELSE inventory[k]]
     /\ seeded_modes' = seeded_modes \cup {"paper"}
     /\ reported' = reported \ DOMAIN capital
     /\ intact' = TRUE
     /\ UNCHANGED unfetched

\* _seed_inventory_for_mode, up to its first await.
SeedForMode ==
  \/ mode = "paper" /\ SeedPaper
  \/ /\ mode = "live"
     /\ unfetched' = Connected
     /\ UNCHANGED <<inventory, seeded_modes, reported, intact>>

\* An exchange answers; a balance that it does not report stays.  The mode that is
\* marked at the end is whatever the dashboard has made of it.
Fetch(v, free) ==
  /\ v \in unfetched
  /\ unfetched' = unfetched \ {v}
  /\ inventory' = [k \in Accounts |->
                     IF k[1] = v /\ k[2] \in DOMAIN free THEN free[k[2]] ELSE inventory[k]]
  /\ reported' = reported \cup ({v} \X DOMAIN free)
  /\ intact' = (intact /\ DOMAIN free = {})
  /\ IF unfetched' = {}
     THEN seeded_modes' = seeded_modes \cup {mode} /\ phase' = "trading"
     ELSE UNCHANGED <<seeded_modes, phase>>
  /\ UNCHANGED <<mode, setVars, books, pollVars, waitVars>>

FetchFails(v) == Fetch(v, <<>>)

FetchEnds ==
  \E v \in unfetched : FetchFails(v) \/ \E free \in Reports[v] : Fetch(v, free)

\* _await_first_books: it looks, and looks again, until half the symbols have a
\* book on some venue, or time is up.
Populated == Cardinality({s \in Polled : \E v \in Venues : books[<<v, s>>] # "none"})

EnoughBooks == Populated >= Max({1, Len(symbol_list) \div 2})

KeepWaiting ==
  /\ phase = "waiting" /\ check_in = 0
  /\ patience > 0 /\ ~EnoughBooks
  /\ check_in' = CheckEvery
  /\ UNCHANGED <<phase, mode, setVars, books, pollVars, patience, fundVars>>

\* Mutant: there is no deadline.
StartTradingWithBooks ==
  /\ phase = "waiting" /\ check_in = 0
  /\ EnoughBooks
  /\ phase' = IF mode = "live" THEN "fetching" ELSE "trading"
  /\ SeedForMode
  /\ UNCHANGED <<mode, setVars, books, pollVars, waitVars>>

StartTrading ==
  /\ phase = "waiting" /\ check_in = 0
  /\ patience = 0 \/ EnoughBooks
  /\ phase' = IF mode = "live" THEN "fetching" ELSE "trading"
  /\ SeedForMode
  /\ UNCHANGED <<mode, setVars, books, pollVars, waitVars>>

\* The dashboard, which is up once the loop is.  Bound: it asks for modes that need
\* balances, until they are seeded, and while a fetch is under way.
SetMode(m) ==
  /\ phase = "trading" /\ mode # m
  /\ m \in {"paper", "live"}
  /\ m \notin seeded_modes \/ unfetched # {}
  /\ mode' = m
  /\ UNCHANGED <<phase, setVars, books, pollVars, waitVars, fundVars>>

\* The loop finds a mode that it has not seeded.
EnterMode ==
  /\ phase = "trading" /\ unfetched = {}
  /\ mode \notin seeded_modes
  /\ SeedForMode
  /\ UNCHANGED <<phase, mode, setVars, books, pollVars, waitVars>>

-------------------------------------------------------------------------------
\* Time passes when every task waits for something that is still to come.
Down(timer) == Max({0, timer - 1})

TimePasses ==
  /\ Feeding
  /\ IF gathering THEN outstanding # {} /\ elapsed < MaxAnswer ELSE sleeping > 0
  /\ phase = "waiting" => check_in > 0
  /\ elapsed' = IF gathering THEN elapsed + 1 ELSE elapsed
  /\ sleeping' = Down(sleeping)
  /\ next_due' = [s \in Polled |-> Down(next_due[s])]
  /\ asked' = [s \in Polled |-> asked[s] + 1]
  /\ patience' = Down(patience)
  /\ check_in' = Down(check_in)
  /\ UNCHANGED <<phase, mode, setVars, books, outstanding, gathering, fundVars>>

StartNext ==
  \/ /\ phase = "connecting"
     /\ \E up \in SUBSET Venues, listed \in [Venues -> UNION Range(Catalogues)] :
          /\ \A v \in up : listed[v] \in Catalogues[v]
          /\ Connect([v \in up |-> listed[v]])
  \/ StartCycle
  \/ \E k \in outstanding, book \in {"empty", "priced"} : Answer(k, book)
  \/ \E k \in outstanding : PollFails(k)
  \/ EndCycle
  \/ KeepWaiting
  \/ StartTrading
  \/ FetchEnds
  \/ \E m \in Modes : SetMode(m)
  \/ EnterMode
  \/ TimePasses

\* Until the loop trades, the event loop runs what is ready and time goes on, and a
\* client's timeout ends every poll and every fetch.
StartupStep == phase # "trading" /\ StartNext

StartSpec ==
  /\ StartInit /\ [][StartNext]_startVars
  /\ WF_startVars(StartupStep) /\ WF_startVars(FetchEnds)

-------------------------------------------------------------------------------
\* Properties.

\* Whatever venues answer, and however late, no symbol waits for its next poll
\* longer than its tier's interval and one cycle, which the slowest of all
\* venues may draw out.
LongestCycle == Max({WakeEvery, MaxAnswer})

PolledOnTime == \A s \in DOMAIN asked : asked[s] < Interval(s) + LongestCycle

\* What it rests on: a symbol that is not due is polled an interval after its last
\* poll, and one that is waits for the rest of this cycle.
UntilNextCycle == IF gathering THEN LongestCycle - elapsed ELSE sleeping

PollsAreDue ==
  /\ asked \in [Polled -> Nat] /\ next_due \in [Polled -> Nat]
  /\ elapsed \in 0 .. MaxAnswer
  /\ gathering => sleeping = 0
  /\ phase = "connecting" => Polled = {} /\ ~gathering /\ sleeping = 0
  /\ Polled # {} => sleeping \in 0 .. WakeEvery
  /\ \A s \in Polled :
       IF next_due[s] > 0 THEN asked[s] + next_due[s] = Interval(s)
       ELSE asked[s] + UntilNextCycle < Interval(s) + LongestCycle

Unit(a) == IF UsdPrice(a) > 0 THEN UsdPrice(a) ELSE 1

WorthOf(v, accounts) ==
  LET usd == [a \in Assets |->
                IF <<v, a>> \in accounts THEN inventory[<<v, a>>] * Unit(a) ELSE 0]
  IN SumFunction(usd)

NamedOnce == \A i, j \in ChosenPlaces : environ.venues[i] = environ.venues[j] => i = j

\* Whatever modes the dashboard goes through and whatever exchanges report
\* meanwhile: what no exchange has reported is never worth more than the capital
\* configured.  And when no exchange has reported anything since it was laid out,
\* it is all of it if every asset had a price and no venue is named twice; it is
\* the same on each venue that has any, and there it pays for both sides of every
\* symbol whose assets had a price, although an asset may be the base of one
\* symbol and the quote of another.
CapitalIsSplit ==
  LET paper == Accounts \ reported
      worth == [v \in Venues |-> WorthOf(v, paper)]
      total == SumFunction(worth)
      funded == {v \in Venues : worth[v] > 0}
      priced == {a \in Assets : UsdPrice(a) > 0}
  IN /\ total <= SeedUsdTotal
     /\ intact =>
          /\ NamedOnce /\ (\A s \in Polled : Range(s) \subseteq priced) => total = SeedUsdTotal
          /\ \A u, v \in funded : worth[u] = worth[v]
          /\ \A v \in funded, s \in Polled : \A a \in Range(s) \cap priced :
               <<v, a>> \in paper /\ inventory[<<v, a>>] > 0

\* Startup comes to an end, whichever venues fail or never answer.
StartupEnds == <>(phase \in {"trading", "aborted"})
================================================================================

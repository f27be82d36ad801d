# A TLA+ model of crypto-arb-engine

The engine polls order books of many exchanges, lets a set of strategies look
for price differences, and, in paper or live mode, trades the ones that are
still there. It is one asyncio process: one task runs the detection loop
(`main.py`, `run`), others poll and watch books, wait to re-check opportunities
and serve the dashboard. Nothing is preempted; everything interleaves at
`await`. This directory models the part that decides about money, checks it
with TLC on small instances, and proves what matters most with TLAPS.

## Inventory

| component | state | operations | interacts with |
|---|---|---|---|
| main loop (`main.py`) | `seeded_modes`, position in the loop, this tick's `to_execute` | seed, detect, filter, dedupe, select, execute, book, sleep | calls every other part; shares `ControlState` |
| control plane (`core/control.py`, `dashboard/server.py`) | `mode`, `running`, `emergency_stop`, `strategy_enabled` | set mode, run/pause, stop/clear, limits, strategy toggles, credentials | mutates what the loop reads, at the loop's awaits |
| executor (`execution/executor.py`) | `mode`, `trade_log` | `handle`: monitor, paper, live | risk manager, reconciler, REST clients |
| risk manager (`risk/`) | day, daily PnL and trade count, failure streak, deployed USD per strategy and venue, limits | `can_trade`, sizing, re-verification, `commit`, `release_uncommitted`, `record_result`, stop | called by the executor, limits changed by the dashboard |
| reconciler (`execution/reconciler.py`) | `open_incidents` | `check` | called after a live trade |
| router and inventory (`execution/router.py`, `execution/inventory.py`) | free and locked balance per venue and asset, reservations kept on the opportunity | `select`, `settle_fill`, `release_unfilled`, `set_balance` | main loop |
| venue clients (`core/rest_manager.py`) | client per connected venue | connect, reconnect, poll, fetch balance, order, close | executor, feeds, dashboard |
| feeds (`core/feed_manager.py`) | watch tasks, poll task, stop event, time of each symbol's last poll | start, watch, poll, stop | book store, venue clients |
| startup (`main.py`, `config/universe.py`, `config/venues.py`) | polled symbols, seeded inventory, registered fees | choose symbols, wait for first books, lay out paper capital, look fees up | venue clients, books, inventory, strategies |
| books (`core/book.py`, `core/market_state.py`) | sorted price levels per venue and symbol | replace, diff, snapshot, fill price | written by feeds, read by strategies, executor, decay checks |
| recorder (`analytics/recorder.py`) | rolling history, index by id, two buffers | record, attach, decay check, flush | main loop, decay tasks |
| strategies (`strategies/`), graph (`core/graph.py`) | none across ticks | scan, find cycles | books |
| dashboard clients (`dashboard/state.py`, `auth.py`, `credentials.py`) | websockets, tickets, `.env` | register, publish, issue, consume | main loop awaits `publish` |
| metrics, tools, deployment | counters | | read nothing back into a decision |

What is hard here, and what makes each part correct:

- **Awaits in the loop.** `run` suspends at three places: while it fetches live
  balances, at the gather of a live trade, and between ticks. A handler may
  change mode, limits or stop at any of them. Correct: a trade is booked once,
  on its own opportunity and under its own mode; a mode is traded in only after
  it was seeded; a stop starts nothing more.
- **A live trade is several requests at once.** Legs fill, fail, or fail after
  having executed, in any order. Correct: profit is booked only if every leg
  executed, an incident is opened for exactly the logged trades with some legs filled,
  and no order that executed is forgotten but those of a trade that is cancelled.
- **Counters with a calendar.** Midnight may fall between admission and result.
  Correct: counters agree with the log, capital comes back exactly once.
- **Balances promised before the decision.** Reservations outlive the router's
  call. Correct: every lock belongs to an undecided opportunity, nothing stays
  locked, balances add up.
- **Several descriptions of one trade.** Correct: one per route, the best.
- **Clients replaced while in use.** The dashboard may give a venue new
  credentials while polls, fetches and orders are out on its client, and while
  another request does the same. Correct: nobody is handed a client that is
  being closed, none is left open with nobody to close it, the credentials
  written last are in use, and a venue that fails or hangs holds up no other.
- **Flushes named by the second, bounded histories.** Opportunities are evicted
  from memory, measured later and written in batches while trades still refer to
  them. Correct: each record is in one file, with its own trade's result; each
  measurement is made and written once.
- **Decisions on books that move.** A trade is found on one state of the books
  and sized, verified and sent on later ones. Correct: offers are on fresh
  books, an accepted trade pays at that moment, its orders are what was verified.
- **Startup against slow and failing venues.** One gather polls everything that
  is due, each tier has its own interval, and the first books decide where paper
  capital goes, on top of whatever live balances were there. Correct: no symbol starves,
  startup ends, and what is laid out adds up and leaves no route with one side only.
- **Listeners that go, tickets shared with a thread.** `publish` awaits one client
  after the other while requests publish too, and tickets are issued in worker
  threads. Correct: a ticket admits once and in time, the broadcaster lists
  whoever is served, and every page comes to show the last state.

## Modules

| module | models | state and actions |
|---|---|---|
| `Trading` | `strategies/base.py`, `core/types.py` | legs, opportunities, modes; no state |
| `RiskManager` | `risk/manager.py`, `risk/limits.py` | operators from the manager's fields to its fields: `RollDayIfNeeded`, `CanTrade`, `Commit`, `Release`, `RecordResult` |
| `Executor` | `execution/executor.py`, `execution/reconciler.py`, with `RiskManager` | `risk`, `limits`, `mode`, `trade_log`, `open_incidents`, the trade in flight with its `legs`; one action per stretch between two suspensions |
| `TradingDesk` | what the three promise an operator together | `today`, `limits`, `working`, `trades`: admission decided from the log alone, a trade entered once or abandoned; implemented by `Executor` |
| `Router` | `execution/router.py`, `execution/inventory.py` | `inv` (free, locked), `reservations`, `to_execute`; no method awaits, so one action per method |
| `Detection` | the filters and the dedupe in `main.py` | operators on a tick's findings |
| `Filtering` | a tick whose strategies find anything, through `Detection` | `found`; one action per finding |
| `Books` | `core/book.py`, `core/market_state.py` | `books`: sorted levels and age per venue and symbol; replace, diff, age; fill price |
| `Scans` | `strategies/cross_exchange.py`, `latency_arb.py`, `maker_rebate.py`, `cross_quote.py`, `wrapped_asset.py` and the fee lookup of `config/venues.py` over `Books`, with `Detection` | operators from the books to a tick's offers |
| `Sorting` | Python's `sorted` by a key | an operator on sets, by the place of each element |
| `Sizing` | sizing and verification in `risk/manager.py`, the order size in `execution/executor.py`, the rescan of `main.py`, over `Scans` | operators on an opportunity and the books |
| `Pricing` | an offer from its detection to its turn, over `Sizing` | `books`, `opportunity`; poll, diff, a second passing, the choice of an offer |
| `CurrencyGraph` | `core/graph.py`, `strategies/triangular.py` | operators from a venue's markets to its cycles |
| `Recorder` | `analytics/recorder.py`, the decay checks and flushes of `main.py` | ids, rolling histories and index, two buffers, checks asleep, the files; one action per stretch between two suspensions |
| `Engine` | `main.py`'s loop and `dashboard/server.py`'s handlers over `Executor`, `Router` and `Detection` | `pc`, `control`, `seeded_modes`; loop steps conjoin actions of the two components, handlers act only where the loop is suspended |
| `VenueClients` | `core/rest_manager.py`, the poll feed and `stop` of `core/feed_manager.py`, `set_venue_credentials`, the start and end of `run` | `clients` (the table), `sessions` (every client ever made), `environ`, one `task` per connect or request, the polls; one action per stretch between two suspensions |
| `Universe` | `config/universe.py`, the plan of one venue's capital in `main.py` | operators: tiers, intervals, pruning, the choice of what to poll, shares |
| `Startup` | `main.py` from the connected venues to the loop, its paper seeding and its fetch of live balances; the cadence of `poll_loop` | markets per venue, time since each symbol's last poll, books there are, timers, the inventory, the modes seeded; one action per answer, timer and decision |
| `Dashboard` | `dashboard/auth.py` (tickets), `dashboard/state.py`, their routes in `server.py`, the page's reconnecting socket | `tickets` and the walks over them, pages, `sockets`, `clients`, publishes under way; one action per access to the dictionary from a thread, and per send on the loop |
| `FoldTheorems` | what the folds of the community modules compute | no state; lemmas, instantiated per folded operator |
| `ExecutorProofs`, `EngineProofs` (with the router's), `ScansProofs`, `VenueProofs`, `RecorderProofs`, `StartupProofs`, `DashboardProofs` | the theorems | |
| `MCExecutor`, `MCRouter`, `MCEngine`, `MCVenueClients`, `MCScans`, `MCRecorder`, `MCStartup`, `MCDashboard` | instances for TLC | |

`Engine` extends `Executor` and `Router`, and its actions are conjunctions of
theirs; `RefinesExecutor` and `RefinesRouter` say that nothing the loop does to
their variables is anything else, so what is shown of the two holds inside the
engine. `ImplementsDesk` maps the executor's variables to those of `TradingDesk`,
which has no counters, no deployed capital, no roll of the day and no orders: the
trade in flight becomes `working`, the log stays. A cancelled trade in flight is
abandoned. History variables (`executed`, the days and executed legs in
`trade_log`, `orders`, `deposited`, `fills`, `seeded`, `bookings`, `raced`, and in
`Startup` `asked`, `reported` and `intact`) are read by properties only.

`VenueClients` stands beside the engine, not under it: a leg and a balance fetch
look their venue up once, at their start, and hold the client until they end,
so all that matters of the table to them is whether the venue is in it (a leg
whose venue is not there fails, which `Executor` lets every leg do) and that
what is in it is open (`TableClientsAreOpen`).

`Recorder` stands beside the engine as well: it follows the loop only in when it
records, books, flushes, sleeps and stops, and leaves open which trades are
booked. `Scans` and `Sizing` are what `Engine` leaves open, namely which
opportunities a tick finds and which of them are still accepted when their turn
comes. `Startup` and `Dashboard` stand for themselves: they hand the engine a
seeded inventory (`Engine` leaves open which accounts it funds) and read a
version number of its state. In `Pricing` books move by
polls and diffs, an offer is picked, the books move on, and the offer is sized
and verified at every later state. `MCScans` holds `Filtering`, `Pricing` and a
venue that lists its markets to `CurrencyGraph` one by one; the three share no
state, so that a behaviour follows one of them.

Abstractions. Prices, sizes and dollars are small naturals where the code has
floats, so rounding is not modelled. In `Startup` the configured capital is
divisible by whatever the code divides it by (`SharesAreExact`). In `Scans` and
`Sizing` a percentage counts in parts of `Unit`, which every price divides, and
sizes in grains; every price asked divides the limit of a trade, which is at least
any venue's minimum order (`TradesAreExact`). So each quotient the code forms is
exact. A float that is no number
is `NaN`, below every threshold except where the code's comparison lets it through.
A book that is not there is `None`, and no book is that (`NoneIsNoBook`).
The weights of `CurrencyGraph` are logarithms to base 2 of prices that are powers of
2. `Recorder` has one clock, where the code names files by `time.time()` and sleeps
by the loop's monotonic one, and runs timers in the order they are due. In `Engine`,
what the books say when a trade is sized and re-verified is a free choice: it lets
any admitted opportunity be skipped, and any that the two checks could ever accept
(`CanVerify`) be traded. Strategies find any subset of `Opportunities` in any order.
Symbols are pairs of assets; perpetual, futures and transfer legs, which only
strategies outside the default run or without a live path produce, are left out.
Live fees are registered once, at connect, and are constants. An order's answer is a
fill, an error, or an error although the order executed. Which accounts paper
seeding covers depends on the venues chosen and prices known, and is a constant
(`Funded`); so are the assets an exchange may report (`Reported`). In `Engine`
startup is summed up in `EngineInit`; `Startup` has it in steps of half a second,
with the clients left to `VenueClients`, and what a book says reduced to whether it
has a mid. Trades, which move balances too, are left to `Engine` there: balances are
what the seeding of one mode leaves to the next. Its dashboard asks for paper and for
live mode, each until it is seeded, and for either while a fetch is under way; a
switch to monitor during a fetch is in `Engine`. In `Dashboard` a snapshot is a version number, and how often walks over
the tickets may collide is bounded. In `VenueClients`, requests for credentials are
numbered and bounded (`Requests`), which symbols are due and which a venue lists is
a free choice, and a poll's book is left out.

## Runs

| run | instance and bounds | what it shows |
|---|---|---|
| `executor` | 2 venues; a cross-venue route and one with both legs on one venue; caps that one trade fills; failure limit 2; 3 trades, 2 days, limits {1,2} trades and {0,1} loss | type; `CapitalMatchesInFlight`: the deployed tables hold what is in flight and nothing else; `DailyTradesBounded`; `FillsAreAccounted`: orders that executed against the log and the incidents; `ProfitNeedsEveryLeg`; `ImplementsDesk`: every step is one of the desk's, or none, which covers the trade count, the loss limit, the failure streak, the caps and the stop |
| `router` | a route, its reverse, a one-venue route fundable only by another's fill, a route without sizes; 2 fills | `LockedMatchesReservations`, `NothingStaysLocked`, `AccountsAddUp`, `GreedyByValue` |
| `engine` | two opportunities in opposite directions; 2 trades, 2 days, 2 dashboard requests | `TradesAreBookedOnce`, `PaperTradesAreExact`, `LiveTradesWereFetchedFor`, `StopHoldsInTheLoop`, the two refinements |
| `ticks` | the same with 1 request | `TicksEnd` under fairness |
| `phantom_fill`, `live_again` | as `engine` | violated, see Findings |
| `clients` | 2 venues, 2 requests of either for either of 2 credentials, one connect and one poll at a time | `TableClientsAreOpen`, `NoClientIsLost`, `SerialReconnectsAreFresh`, `ClosedAtExit`; `ConnectsEnd` and `PollingGoesOn` under fairness |
| `scans` | 5 findings of 6 opportunities on 3 routes, one of which cannot be rebalanced, one too small; one base in 3 books of 2 venues and 2 stablecoins, a wrapped base beside its underlying, staleness 1; 2 prices and 2 levels on the sides that trade with profit, 1 price on the others; the second stablecoin's book and the wrapped asset's not both at once; after the choice of an offer only the books of its legs move, and ages are forgotten (`MCFocus`, `MCView`); one venue with the table's fees and a live one, one with the fallback and a live rebate; 5 markets of one venue | `OneBestPerRoute`: dedupe keeps the best of each physical trade; `OffersAreReal`: an offer is fillable, at fresh best levels, and pays as it claims, and no taker trade between venues that pays is missed; `VerifiedTradesProfit`: an accepted trade pays on the books of that moment, against a fill price computed from the set of levels; `SlippageIsBounded`; `UnmovedSpreadsSurvive`; `EachCycleOnce`: the search for cycles against all simple cycles |
| `split_orders` | the same | violated: `OrdersMatchVerified` |
| `recorder` | 4 records, 3 a tick, memory for 2; half seconds up to 4 s, ticks 2 s apart, delays of 0.5 and 2 s | `HistoryMatchesIndex`, `EveryRecordIsWritten`, `ResultsAreWritten`, `EachCheckOnce` |
| `startup` | 2 venues with 2 and 3 possible catalogues; 4 bases and 2 quotes in 3 tiers, one asset both base and quote, one symbol outside the universe; 3 symbols polled at most, of 4 listed; answers within 2 s, intervals of 1.5 to 2.5 s, a 2 s deadline; three settings of the paper venues, one of which names a venue twice; one venue that may report a balance, one that reports none | `PolledOnTime`: no symbol waits longer than its interval and one cycle; `CapitalIsSplit`: what no exchange has reported is worth no more than the total; until one reports, it is the total if every asset has a price and no venue is named twice, the same on each funded venue, and both sides of each priced symbol can be paid for there; `StartupEnds` under fairness |
| `dashboard` | 2 pages, one of whose browsers sends no credentials; one request; tickets that expire within the clock; 1 lost connection or repeated handshake, 1 collision of walks | `TicketsAdmitOnce`, `ListenersAreServed`; `PagesCatchUp` under fairness |

Why the bounds are enough: every counter the code compares reaches its limit and
passes midnight (2 failures, 2 trades a day, 3 trades over 2 days); caps are met
exactly and exceeded; two opportunities compete for one balance, so rollback,
rejection and settlement follow each other in one tick; two requests are enough to
change something during a suspension and change it back; two reconnects overlap,
follow each other, or fall on either side of `close_all`, and with one slot in each
semaphore a second connect and a second poll wait. Records outgrow memory within a
tick and between ticks, and checks fall before, into and after flushes and the
shutdown. Polls answer at once, late or not at all, so first books come before the
deadline, after it, or never, and paper is entered with prices missing, with all of
them, before, after and during a fetch of live balances that are kept or overwritten. One expired
and one live ticket, a handshake that arrives twice and one walk that breaks are
each met with a page connected and one connecting; a page loses its socket before,
in and after a publish. On the books, each of the five strategies makes offers,
trades are accepted whole, cut to the depth, refused for slippage, size or profit,
and a search for cycles completes or hits `MaxExpansions`. Larger numbers repeat
these cases.

Deadlock is not checked for `executor` and `engine`, where the main task may be
cancelled, for `clients`, `recorder` and `startup`, where the process ends, nor
for `scans`, whose findings and markets end.

**Fairness.** `EngineFairSpec` assumes that the event loop runs a ready task and
that each request ends: ccxt clients are built with a timeout
(`core/rest_manager.py`, `_connect_one`), which turns silence into an error.
`VenueFairSpec` assumes the same of connects and polls (`load_markets` and
`fetch_currencies` are also under `asyncio.timeout`), and that closing a client
ends. `StartSpec` assumes that timers fire, that a poll returns within
`MaxAnswer`, and that a fetch of balances ends, by the same timeout. `DashFairness` assumes that threads and tasks
run, that pages' timers fire, and that no send waits for ever: uvicorn's keepalive
pings fail a peer that stops reading. Nothing is assumed of the requests of a
dashboard, of the clock, of connections, or of what exchanges answer.

## Findings

- `phantom_fill`: a live trade with failed legs is settled as if all filled.
- `live_again`: the comment at `main.py:385` and `execution/inventory.py:7` say
  that live balances are fetched once per mode entry; a mode is fetched for once
  per process. Live, paper, live again: the second entry trades on the balances
  that paper seeding wrote over the fetched ones.
- `split_orders`: `reverify_profitability` scales all legs with the buy leg;
  `_execute_leg` sizes each order by the dollars of the trade over its own
  leg's price. The sell order is for fewer units than were bought and verified.

Found while modelling and not a run:

Mode, admission and orders:

- `executor.mode` is copied before the fetch of live balances and `control.mode`
  read after it: a switch to monitor during the fetch gives a tick that reserves
  nothing and still sends real orders.
- The daily loss breaker cannot trip (`LossBreakerNeverTrips`, proved), because
  no path books a loss.
- A venue is checked against one `max_size_usd` per leg and charged for each leg
  on it, so two legs on one venue can exceed a cap they passed.
- An order whose answer was lost counts as not filled (`executor.py:188`): what
  it leaves open is in no incident.
- After the fetch of live balances `control.mode` is read again to mark what was
  seeded (`main.py:674`): a switch to paper meanwhile marks paper, whose
  inventory is then never seeded. A result is labelled with the mode the
  dashboard is in after the gather (`main.py:761`).

Clients and startup:

- Modes share one inventory, and seeding one clears nothing of the other.
  `_seed_paper_inventory` sets the planned assets that have a price on the venues it
  funds (`main.py:327-332`); after live mode, with `PAPER_SEED_MAX_VENUES=1` for
  one, the balances fetched for the other venues stay and are spent on paper, beyond
  the total of `main.py:77`. The other way round, a venue whose fetch fails, or an
  asset that an exchange does not report, keeps its paper balance in live mode.
  `CapitalIsSplit` tells the two apart by `reported`.
- `PAPER_SEED_VENUES` may name a venue twice: the total is divided by the length of the
  list, and as much of it as the repeats stand for is laid out nowhere.
- `_connect_one` reads the credentials before it waits for the markets and
  installs the client after it. Of two overlapping reconnects of one venue the
  older may install last: the venue trades on with old credentials, and the newer
  client, in no table, is never closed. `raced` marks these venues, which
  `NoClientIsLost` and `SerialReconnectsAreFresh` leave out.
- `close_all` closes what the table holds when it starts: a client that a request
  installs later, or that a cancelled connect was loading (`except Exception`
  does not catch the cancellation), stays open at exit. `ClosedAtExit` says that
  these are the only ones.
- `settings.py:52` asks for intervals no longer than `PRICE_STALENESS_SEC`. That is
  not enough: an interval is rounded up to the loop's tick (2.5 s becomes 3 s) and
  the slowest answer of a cycle comes on top.
- `_await_first_books` counts any book, one-sided ones and those that price
  nothing in dollars among them, and a later switch to paper does not wait at all:
  bases without a price get nothing, and are not seeded again.
- `universe.py:161-163` says that pruning removes no reachable profit. Strategies
  of one venue need a symbol on that venue only.
- Live fees and transfer flags are read at connect only; `clear_live_fees`, for
  use "on reconnect", has no caller outside the tests, and
  `register_transfer_status(None)` keeps an earlier block. Fees per symbol are
  captured, but no strategy asks for the fee of a symbol.
- A EUR quote counts as a dollar.

Strategies and verification:

- `maker_rebate` counts on maker fees, and its trades are verified with them, but
  the executor sends every leg as a market order.
- If the asks run out under an order and the slippage is within the limit,
  `reverify_profitability` sets the money of more units sold against that of
  fewer bought; `VerifiedTradesProfit` leaves that case out.
- `wrapped_asset` may take the underlying's price from another venue than the
  wrapped asset's, while both legs are for the latter. `reverify_profitability`
  takes a leg without a book as filled at the price detected, although its
  docstring (`manager.py:201`) says that it walks every leg's current book, so
  such a trade is accepted. Wrapped assets are compared one to one, those that accrue too, and for
  the opposite direction the edge is the absolute value of the gap between the
  wrapped bid and the underlying's ask: a wide book alone is one.
- Of the strategies that the docs list as live, `stablecoin_depeg` and `perp_perp`
  get no books (no stable base and no perpetual is polled) and `multi_leg` is not
  built. `statistical`, not built either, inverts the sides its comments state
  (lines 45 and 134) and gives its signals a size of 0, which the filter drops
  while its position counts as open.
- The comment at `main.py:686` calls tier 3's threshold looser; it is higher.
- The docstring of `size_with_depth_check` speaks of slippage as a share of the
  edge; the code takes it as a share of the price.
- `cross_quote` makes an opportunity without a number of a book without asks; the
  filter in `main.py` drops it.

Recorder:

- Files are named by the second. If the process is shut down within a second of a
  tick's flush, the last flush replaces that tick's decay file.
- Decay checks that wake between the last flush and the end of the process are
  never written; `apply_diff` and `bellman_ford` have no caller outside the
  tests.

## Proofs

`ExecutorProofs` proves, for all venues, opportunities, caps, limits and bounds
that satisfy the named assumptions of `Trading`, `RiskManager` and `Executor`,
that `ExecSpec` implies `[]ExecInv`, and from it the state properties of the run
`executor`, of which `DailyTradesBounded` follows from the refinement below.

The argument. `CapitalMatchesInFlight` is not inductive alone: `Release` clamps
at zero, so one has to know that the tables hold at least what is released,
which `CapitalMatchesInFlight` itself gives only if a midnight cannot clear the
tables under a trade in flight. It can, in `record_result`, and then the clamp
is what makes the result right; `CommitHolds`, `RollKeepsOrClears` and
`ReleaseClears` treat the two cases, and `ReleaseUndoesCommit` the paths that
bail out. `CountMatchesLog` needs `DaysInOrder`: a roll resets the count, and no
logged trade may carry the new day yet. `StreakLimitEndsTrading` needs
`InFlightUnderStreakLimit`: a trade admitted below the limit must not be
overtaken by another. `ProfitNeedsEveryLeg` needs
`FillsExecuted`. `FillsAreAccounted` relates three things that change apart: the legs
of the trade in flight, the orders that executed, and the incidents; it is inductive
with `FillsRecorded`, by which the legs that look filled are the orders answered with
a fill, for only then does `FinishLive` log what it should. `ExecInv` is the conjunction; each action has its step.

Its second part proves the refinement `ExecSpec => ImplementsDesk` and, through it,
`DailyTradesBounded`. The desk decides from the log what the executor decides from
counters, so `ExecInv` is needed to show that the two decide alike: the count is
that of today's entries (`RolledCount`), profit today is an entry with a profit
(`RolledProfit`), the streak at its limit is a log whose last entries failed. Each
executor action is then a desk step or a stutter. `DailyTradesBounded` is not
inductive: a trade in flight will still be entered, whatever the limit is by then.
`DayInv` counts every day's entries and keeps room for the trade in flight.
`EngineIsADesk` (in `EngineProofs`) composes this with `EngineRunsTheExecutor`: the
engine is a desk.

`FoldTheorems` is what the proofs about data rest on. The library's induction
theorems have a predicate as a parameter, which the provers cannot instantiate;
its least-element theorem for well-founded relations has not, and gives
induction over a set of numbers (`Induction`, `SubsetInduction`). With it, a fold
over a sequence has an accumulator for each of its prefixes (`Folding`; the
module is instantiated once per folded operator), and `SumFunction` the laws of
sums: one element more or less, one value changed, two functions added, elements
counted by class.

`EngineProofs` has three parts. The first is about the router alone: `RouterInv` of
`RouterSpec`, and with it
`LockedMatchesReservations`, `NothingStaysLocked` and `AccountsAddUp`, for any
finite set of opportunities (`DetectionsAreFinite`), any balances and any number
of legs. Each method folds over legs or reservations, so the effect of the fold is
stated per account first: what a reservation of all legs locks, what a failed one
leaves behind (nothing, although its first legs were locked), what release and
settlement give back or move. A sum over reservations then changes by one term a
step. The ledger is not inductive without `ReservationsCoverTrades` and
the type, since a decrement below zero would go unnoticed. `SelectionFollowsValue`
is about one call of `select`: the balances after each candidate are those the
accepted ones before it leave, and a rejected candidate is one that did not fit them.

The second part, with `ExecutorProofs`, is about the loop. `EngineRunsTheExecutor`
shows that every step of `Engine` is a step of `Executor` or leaves its variables
alone, so that `EngineSpec` implies `ExecSpec` and everything proved of the executor
holds in the loop. The one fact it needs of the state is that `control.mode` is a
mode, which the requests preserve. `EngineInvariant` proves `EngineInv`:
`LiveTradesWereFetchedFor` rests on `LiveIsSeeded`, since the set may wrongly claim
paper but never live; `TradesAreBookedOnce` on `BookingStep`, which says that log
and bookings grow together or not at all; `StopHoldsInTheLoop` on `StopFlagsAgree`.

The third composes it with the first. `EngineRunsTheRouter` does the same for the
router: what the loop hands it is a
tick's findings after filters and dedupe, best first, and it is asked to settle or
release only the trade the executor has decided. `EngineKeepsTheBooks` transfers the
router's invariants to the loop. `PaperIsExact` needs both components and one thing
that neither knows: while paper trades are decided, each of them has a reservation
(`PaperIsReserved`). The executor's mode is a copy of `control.mode`, and a tick that
copied paper does not suspend before it has selected and executed.

`VenueProofs` proves `VenueInv` of `VenueSpec`, and from it
`TableClientsAreOpen`, `NoClientIsLost`, `SerialReconnectsAreFresh` and
`ClosedAtExit`, for any venues, requests, credentials and limits. None of the four
is inductive: what a
connect will install must already be open, of its venue, held by nobody else and
made with the current credentials, which is `ClientsAreHeldOnce`; and that a
connect of startup meets no request, nor `close_all` a connect of startup, is
`PhasesInOrder`. `ClosedAtExit` rests on `ClosingLeavesFew`, which says which open
clients the process has accounted for while `close_all` goes down the list it
took. The actions come in a few kinds (`MakeStep`, `InstallStep`,
`QuietStep`, ...), each with its lemma; `MakeStep` serves connects, reconnects of
an absent venue and the second half of all others.

`RecorderProofs` proves `RecorderInv` of `RecSpec`, and from it the properties
of the run `recorder`, for any caps, delays and numbers
of records, provided a second never sees two ticks (`TicksAreASecondApart`;
`REST_POLL_INTERVAL_SEC` is 2.0). That memory holds the latest records is
inductive as it stands; that each record is in one file is not: one has to know
in which order ids leave the buffer (`WrittenInOrder`), that what a tick recorded
is still in it while the tick's trades are booked (`NewOnesWait`), and that a
flush with something to write falls into a second no file has (`FlushesApart`).
`ResultsAreWritten` rests on the last two, for a file's results must not change
after it was written, and on `BookedOnce`. `EachCheckOnce` rests on `SleepsUntilMeasured`
and `MeasuredOnce`, a check is asleep once or measured once and never both, and on
`DecaysApart`: a flush that writes decays finds no file of its second.

`StartupProofs` proves `PolledOnTime` for any universe, venues and intervals, and
any answers within `MaxAnswer`: `PollsAreDue` says that a symbol that is not due
will be at the next cycle in time, and one that is due waits for the rest of the
present one. It also proves `CapitalIsSplit`, for any settings, any list of paper
venues and any reports of balances. The invariant (`StartupInvariant`) says of an
account no exchange has reported that it holds nothing or what is planned for it on
the books that were there (`PaperIsPlanned`); a seeding takes an account out of
`reported`, a report puts one in. The rest is the arithmetic of the plan:
sorting by rank lists a set without losing any of it (`SortedByLists`), which makes
the list of symbols no longer than there are symbols and some venue funded; the
quote shares add up to half a venue's dollars, since each symbol has one quote
(`SumOfClasses`), the base shares to the other half (`PlanOfAVenue`); each asset's
share is a multiple of its price (`PlanOfAnAsset`), by `SharesAreExact`; and the
venues funded are at most the portions of the total, fewer if one is named twice
(`PortionsOfTheTotal`).

`DashboardProofs` proves `TicketsAdmitOnce` for finitely many pages. That a ticket
admits once is inductive with `AdmittedAreGone` and the fact that a new ticket is
in nobody's hands (`FreshIsFresh`, which counts). That it admits in time is not:
between the walk of `_expire` and the `pop` another thread may issue and delete, so
one has to know what a walk's list still has to cover (`ExpiredAreListed`).
`ListenersStayServed` proves `ListenersAreServed` with `ListsNameSockets`, in which a
publish under way has given up only sockets that are down, and a socket that is down
stays so. `list.remove` takes the first occurrence: that the list
has nobody twice is what makes a drop a drop (`DroppedAll`).

`ScansProofs` proves the properties of the run `scans` but the last, for any
venues, markets, fees, thresholds, polls and diffs that satisfy the named assumptions
of `Books`, `Scans`, `Sizing` and `Pricing`; crossed books, any depth and any order of
the moves are included.

- `FilterKeepsTheBest` and `BestOfEachRoute` (`OneBestPerRoute`): the dict of
  `dedupe_by_route` is followed entry by entry (`KeptOf`: of each route met so far the
  preferred finding, in the order the routes were met first), and the stable sort by
  places. The engine's proofs use it.
- `BooksInv`: a book that is known has one level per price, sorted, and its asks
  divide the limit of a trade. A poll replaces a side and a diff patches it
  (`PatchedSide`), and `SortedByPrice` says what `sorted` then returns.
- `WalkIsGreedy`: `estimate_fill_price` stops in the middle of the levels with the
  code's accumulator; along sorted levels it costs what the best levels cost
  (`BestCost`, which knows no order) and leaves what they cannot fill.
  `VerifiedTradesAlwaysProfit` follows: the two sums that `reverify_profitability`
  compares are those of the property, each with its own fee, for legs that have books.
- `SlippageStaysBounded` is not about the size that was checked for slippage, but
  about the smaller one that is sent. `AverageRises` says that the part of an
  order costs no more per unit than the whole, by an invariant of the walk of both.
- `SpreadsSurvive`: detection adds fees up and `_rescan_net_profit_pct` multiplies
  what they leave, so an edge that has not moved does not come back as the same
  number. `HalfIsLeft` says that at least half of it does. This needs fees that are
  small beside the edge (`FeesAreSmall`): 16 fees fit into the whole, and 12 squared
  ones into any threshold. Of the tables, 0.6% (`config/venues.py:98`) and 0.05%
  (`strategies/maker_rebate.py:30`) come closest, with 0.043%. A venue may
  report any fee at connect; one above 0.64% that is traded at that threshold is
  outside the theorem, as is one above 6.25% at any. No other theorem rests on the
  assumption.
- `OffersStayReal`: each finding is one of a strategy's (`FindingsAre`) and has its
  edge in money, not only in rounded parts of `Unit` (`EdgeInMoney`); conversely a
  trade that pays is a finding of `cross_exchange` (`WantedIsFound`), the filters
  let it pass, and what the dedupe keeps in its place has the same route, hence the
  same orders' books (`SameRoute`).

`PricingInv` joins `BooksInv` with what the picked offer is (`OfferInv`): two legs, one
each way, of one size, with fees that are charged, and an edge above its threshold.
Nothing of it is lost while the books move, since a book once known stays known.

Only model-checked:

- liveness (`TicksEnd`, `ConnectsEnd`, `PollingGoesOn`, `StartupEnds`,
  `PagesCatchUp`), which is out of the prover's reach;
- `EachCycleOnce`, which is about `CurrencyGraph`, whose search is a RECURSIVE
  operator.

## Not modelled

- Strategies that find nothing in the default run. `build_strategies` does not
  build `funding_rate`, `basis_carry`, `calendar_spread`, `multi_leg` and
  `statistical`; it does build `cex_dex`, `dex_dex`, `perp_perp` and
  `stablecoin_depeg`, but the loop feeds them no pool, no perpetual and no
  stablecoin pair.
- The watch loops of `core/feed_manager.py`, which need `ccxt.pro`; the project
  does not install it.
- Passwords, the format of `.env`, static files and read-only endpoints of the
  dashboard, which are HTTP and file I/O.
- Metrics, which no decision reads back; `tools/`, `benchmarks/` and `deploy/`,
  which are no part of the running engine's state. The tables of `config/`, whose
  limits, fees and caps are constants of the modules.
- `bellman_ford`, the imbalance report, the transfer estimate, the unwind plans and
  `resolve_incident`, which have no caller or whose result is discarded.
- Rounding of floats: see Abstractions.

## What is left

1. An account book without locks, implemented by `Router`, by the lemmas about its
   folds in `EngineProofs`; and the search of `CurrencyGraph` as a recursive function.
2. Sizes in the engine: `Sizing` composed with `Executor`, so that what a one-sided
   or partly filled trade leaves open is counted in units. The product of books,
   sizes and interleavings is too large for the present instances.
3. The watch loops and the strategies above, once the loop feeds them.

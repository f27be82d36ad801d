------------------------------- MODULE Engine --------------------------------
(***************************************************************************)
(* main.py's loop over the executor and the router, with the dashboard's   *)
(* request handlers on the same event loop.                                *)
(*                                                                         *)
(* The loop suspends in three places only: at an exchange's answer while   *)
(* the balances for live mode are fetched, at the gather of a live trade,  *)
(* and between two ticks.  A handler changes what it changes before its    *)
(* own first await, so it is one action, possible at those three places.   *)
(***************************************************************************)
EXTENDS Executor, Router, Detection

CONSTANTS
  Funded,    \* the accounts paper seeding may cover
  Reported,  \* the assets an exchange may report a balance of
  MaxRequests \* bound: dashboard requests in a behaviour

ASSUME EngineConstantsAreTyped ==
  /\ MaxTrades <= MaxFills
  /\ Funded \subseteq SUBSET Accounts
  /\ Reported \subseteq SUBSET Assets
  /\ MaxRequests \in Nat

VARIABLES
  pc,            \* where the loop of run() is
  control,       \* the ControlState the handlers and the loop share
  seeded_modes,  \* main's set of the modes whose inventory is in place
  to_fetch,      \* venues whose balance is still to be fetched
  seeded,        \* history: the modes whose seeding really ran
  bookings,      \* history: what main did about each logged trade
  requests       \* bound: the requests the dashboard has served

mainVars == <<pc, control, seeded_modes, to_fetch, seeded, bookings, requests>>
engineVars == <<mainVars, execVars, routerVars>>

ControlState ==
  [mode : Modes, running : BOOLEAN, emergency_stop : BOOLEAN,
   strategy_enabled : [Strategies -> BOOLEAN]]

Booking == [opportunity : Opportunities, label : Modes, settled : BOOLEAN]

NeedsInventory == {"paper", "live"}

\* The state in which the loop is first entered: startup seeds the inventory
\* for the configured mode before the dashboard is served.
EngineInit ==
  /\ ExecInit
  /\ RouterInit
  /\ pc = "loop"
  /\ control = [mode |-> mode, running |-> TRUE, emergency_stop |-> FALSE,
                strategy_enabled |-> [s \in Strategies |-> TRUE]]
  /\ mode = "monitor" => \A a \in Accounts : deposited[a] = 0
  /\ seeded_modes = {mode} \cap NeedsInventory
  /\ to_fetch = {}
  /\ seeded = seeded_modes
  /\ bookings = <<>>
  /\ requests = 0

-----------------------------------------------------------------------------
\* The top of the loop.

MustSeed == control.mode \in NeedsInventory \ seeded_modes

\* Mutant: a mode is not seeded when it is entered mid-run.
EnterTickUnseeded ==
  /\ pc = "loop"
  /\ SetMode(control.mode)
  /\ pc' = "tick"
  /\ UNCHANGED <<control, requests, seeded_modes, to_fetch, seeded, bookings, routerVars>>

\* Mutant: the executor keeps the mode it was built with.
EnterTickInOldMode ==
  /\ pc = "loop"
  /\ ~MustSeed
  /\ pc' = "tick"
  /\ UNCHANGED <<control, requests, seeded_modes, to_fetch, seeded, bookings,
                 execVars, routerVars>>

EnterTick ==
  /\ pc = "loop"
  /\ ~MustSeed
  /\ SetMode(control.mode)
  /\ pc' = "tick"
  /\ UNCHANGED <<control, requests, seeded_modes, to_fetch, seeded, bookings, routerVars>>

\* Paper balances are computed from the books without a suspension; which
\* accounts they cover depends on the venues chosen and the prices known.
SeedPaper(accounts, amounts) ==
  /\ pc = "loop"
  /\ MustSeed
  /\ control.mode = "paper"
  /\ SetMode("paper")
  /\ SetBalances(accounts, amounts)
  /\ seeded_modes' = seeded_modes \cup {"paper"}
  /\ seeded' = seeded \cup {"paper"}
  /\ pc' = "tick"
  /\ UNCHANGED <<control, requests, to_fetch, bookings>>

StartFetching ==
  /\ pc = "loop"
  /\ MustSeed
  /\ control.mode = "live"
  /\ SetMode("live")
  /\ to_fetch' = Venues
  /\ pc' = "fetch"
  /\ UNCHANGED <<control, requests, seeded_modes, seeded, bookings, routerVars>>

\* An exchange reports some assets, or the request fails and none is set.
\* After the last, the mode marked as seeded is read from control once more.
FetchBalance(v, assets, amounts) ==
  /\ pc = "fetch"
  /\ v \in to_fetch
  /\ SetBalances({v} \X assets, amounts)
  /\ to_fetch' = to_fetch \ {v}
  /\ IF to_fetch' # {}
     THEN UNCHANGED <<pc, seeded_modes, seeded>>
     ELSE /\ seeded_modes' = seeded_modes \cup {control.mode}
          /\ seeded' = seeded \cup {"live"}
          /\ pc' = "tick"
  /\ UNCHANGED <<control, requests, bookings, execVars>>

-----------------------------------------------------------------------------
\* The tick.

IsActive == control.running /\ ~control.emergency_stop

\* What enabled strategies may find, in any order; no strategy finds the same
\* opportunity twice.
Findings ==
  UNION {SetToSeqs(found) :
           found \in SUBSET {o \in Opportunities :
                               control.strategy_enabled[o.strategy]}}

Detect(found) ==
  /\ pc = "tick"
  /\ IsActive
  /\ IF control.mode = "monitor"
     THEN Bypass(Kept(found))
     ELSE \E order \in Rankings(ToSet(Kept(found))) : Select(order)
  /\ pc' = "execute"
  /\ UNCHANGED <<control, requests, seeded_modes, to_fetch, seeded, bookings, execVars>>

\* Paused or stopped: nothing is scanned, nothing is executed.
PassOver ==
  /\ pc = "tick"
  /\ ~IsActive
  /\ pc' = "sleep"
  /\ UNCHANGED <<control, requests, seeded_modes, to_fetch, seeded, bookings,
                 execVars, routerVars>>

\* Mutant: the trade log is only asked whether it is empty.
RejectByTruth(o) ==
  /\ pc = "execute"
  /\ Decline(o) \/ HandleMonitor(o) \/ Skip(o)
  /\ IF trade_log = <<>>
     THEN ReleaseUnfilled(o) /\ UNCHANGED bookings
     ELSE /\ SettleFill(o)
          /\ bookings' = Append(bookings,
               [opportunity |-> o, label |-> control.mode,
                settled |-> HasReservations(o)])
  /\ UNCHANGED <<pc, control, requests, seeded_modes, to_fetch, seeded>>

\* handle returned and logged nothing.
Reject(o) ==
  /\ pc = "execute"
  /\ Decline(o) \/ HandleMonitor(o) \/ Skip(o)
  /\ ReleaseUnfilled(o)
  /\ UNCHANGED mainVars

\* handle returned and logged a trade: main settles, and attaches the result
\* to the recorded opportunity under the mode control shows now.
Book(o) ==
  /\ SettleFill(o)
  /\ bookings' = Append(bookings,
       [opportunity |-> o, label |-> control.mode, settled |-> HasReservations(o)])
  /\ UNCHANGED <<control, requests, seeded_modes, to_fetch, seeded>>

TradeOnPaper(o, pnl) ==
  /\ pc = "execute"
  /\ PaperFill(o, pnl)
  /\ Book(o)
  /\ UNCHANGED pc

TradeLive(o, pnl) ==
  /\ pc = "execute"
  /\ to_execute # <<>> /\ o = Head(to_execute)
  /\ LiveFire(o, pnl)
  /\ pc' = "gather"
  /\ UNCHANGED <<control, requests, seeded_modes, to_fetch, seeded, bookings, routerVars>>

LegStep ==
  /\ pc = "gather"
  /\ \/ \E connected \in SUBSET Venues : StartLegs(connected)
     \/ \E i \in DOMAIN legs : LegFills(i)
     \/ \E i \in DOMAIN legs : LegFails(i)
  /\ UNCHANGED <<mainVars, routerVars>>

TradeLiveEnds ==
  /\ pc = "gather"
  /\ FinishLive
  /\ Book(inflight.opportunity)
  /\ pc' = "execute"

\* Mutant: a stop in mid-tick breaks out of the loop over to_execute.
AbandonTick ==
  /\ pc = "execute"
  /\ to_execute = <<>> \/ ~IsActive
  /\ pc' = "sleep"
  /\ to_execute' = <<>>
  /\ UNCHANGED <<control, requests, seeded_modes, to_fetch, seeded, bookings,
                 execVars, inv, reservations, deposited, fills>>

EndTick ==
  /\ pc = "execute"
  /\ to_execute = <<>>
  /\ pc' = "sleep"
  /\ UNCHANGED <<control, requests, seeded_modes, to_fetch, seeded, bookings,
                 execVars, routerVars>>

Wake ==
  /\ pc = "sleep"
  /\ pc' = "loop"
  /\ UNCHANGED <<control, requests, seeded_modes, to_fetch, seeded, bookings,
                 execVars, routerVars>>

MainStep ==
  \/ EnterTick
  \/ \E accounts \in Funded, amounts \in Openings :
       SeedPaper(accounts, amounts)
  \/ StartFetching
  \/ \E v \in Venues, assets \in Reported \cup {{}}, amounts \in Openings :
       FetchBalance(v, assets, amounts)
  \/ \E found \in Findings : Detect(found)
  \/ PassOver
  \/ \E o \in Opportunities : Reject(o)
  \/ \E o \in Opportunities, pnl \in Profits : TradeOnPaper(o, pnl)
  \/ \E o \in Opportunities, pnl \in Profits : TradeLive(o, pnl)
  \/ LegStep
  \/ TradeLiveEnds
  \/ EndTick
  \/ Wake

-----------------------------------------------------------------------------
\* The dashboard's handlers (dashboard/server.py), the clock, the user.

Suspended == pc \in {"fetch", "gather", "sleep"}

\* A request that changes nothing is a stutter, and not counted.
Serve ==
  /\ Suspended
  /\ requests < MaxRequests
  /\ requests' = requests + 1

\* Mutant: the handler changes the executor's mode on the spot.
SwitchExecutorToo(m) ==
  /\ Serve
  /\ m # control.mode
  /\ control' = [control EXCEPT !.mode = m]
  /\ mode' = m
  /\ UNCHANGED <<pc, seeded_modes, to_fetch, seeded, bookings, routerVars,
                 today, risk, limits, inflight, legs, executed, trade_log,
                 open_incidents, orders, alive>>

SetControlMode(m) ==
  /\ Serve
  /\ m # control.mode
  /\ control' = [control EXCEPT !.mode = m]
  /\ UNCHANGED <<pc, seeded_modes, to_fetch, seeded, bookings, execVars, routerVars>>

SetRunning(on) ==
  /\ Serve
  /\ on # control.running
  /\ control' = [control EXCEPT !.running = on]
  /\ UNCHANGED <<pc, seeded_modes, to_fetch, seeded, bookings, execVars, routerVars>>

ToggleStrategy(s, on) ==
  /\ Serve
  /\ on # control.strategy_enabled[s]
  /\ control' = [control EXCEPT !.strategy_enabled[s] = on]
  /\ UNCHANGED <<pc, seeded_modes, to_fetch, seeded, bookings, execVars, routerVars>>

\* Mutant: the engine's flag is cleared, the risk manager's is not.
ClearOnlyControl(on) ==
  /\ Serve
  /\ on # control.emergency_stop
  /\ control' = [control EXCEPT !.emergency_stop = on]
  /\ SetEmergencyStop(on \/ limits.emergency_stop)
  /\ UNCHANGED <<pc, seeded_modes, to_fetch, seeded, bookings, routerVars>>

EmergencyStop(on) ==
  /\ Serve
  /\ on # control.emergency_stop
  /\ control' = [control EXCEPT !.emergency_stop = on]
  /\ SetEmergencyStop(on)
  /\ UNCHANGED <<pc, seeded_modes, to_fetch, seeded, bookings, routerVars>>

SetRiskLimits(trades, loss) ==
  /\ Serve
  /\ UpdateRiskLimits(trades, loss)
  /\ limits' # limits
  /\ UNCHANGED <<pc, control, seeded_modes, to_fetch, seeded, bookings, routerVars>>

Midnight == NewDay /\ UNCHANGED <<mainVars, routerVars>>

\* asyncio.run cancels the main task at its suspension.
ShutDown ==
  /\ Suspended
  /\ Interrupt
  /\ pc' = "stopped"
  /\ UNCHANGED <<control, requests, seeded_modes, to_fetch, seeded, bookings, routerVars>>

Others ==
  \/ \E m \in Modes : SetControlMode(m)
  \/ \E on \in BOOLEAN : SetRunning(on)
  \/ \E s \in Strategies, on \in BOOLEAN : ToggleStrategy(s, on)
  \/ \E on \in BOOLEAN : EmergencyStop(on)
  \/ \E trades \in TradeLimits, loss \in LossLimits : SetRiskLimits(trades, loss)
  \/ Midnight
  \/ ShutDown

EngineNext == MainStep \/ Others

EngineSpec == EngineInit /\ [][EngineNext]_engineVars

\* The event loop runs the main task whenever it is ready, and every request
\* to an exchange answers or times out.
EngineFairSpec == EngineSpec /\ WF_engineVars(MainStep)

EngineTypeOK ==
  /\ pc \in {"loop", "fetch", "tick", "execute", "gather", "sleep", "stopped"}
  /\ control \in ControlState
  /\ seeded_modes \subseteq NeedsInventory \cup {"monitor"}
  /\ to_fetch \subseteq Venues
  /\ seeded \subseteq NeedsInventory
  /\ bookings \in Seq(Booking)
  /\ requests \in 0..MaxRequests

-----------------------------------------------------------------------------
\* Properties.

\* The loop and the executor agree on what is in flight, and on whose
\* reservations are still open: only a tick that has opportunities left, or
\* was cancelled at its gather, holds any.
InFlightIsTheHead ==
  /\ (pc = "gather") <=> (inflight # None)
  /\ pc = "gather" => to_execute # <<>> /\ inflight.opportunity = Head(to_execute)
  /\ pc \in {"loop", "fetch", "tick", "sleep"} => to_execute = <<>>

\* Every logged trade is booked exactly once, on the opportunity it was made
\* of, whatever else the tick handled before it (the comment on the length of
\* trade_log in run).
TradesAreBookedOnce ==
  /\ Len(bookings) = Len(trade_log)
  /\ \A n \in DOMAIN trade_log :
       bookings[n].opportunity = trade_log[n].opportunity

\* A paper trade is made of an opportunity whose inventory was reserved, its
\* balances are moved, and the record is labelled with the mode it ran in.
\* (None of the three holds of a live trade, for the loop suspends on its way.)
PaperTradesAreExact ==
  \A n \in DOMAIN trade_log :
    trade_log[n].mode = "paper" =>
      bookings[n].settled /\ bookings[n].label = "paper"

\* What PaperTradesAreExact rests on: the mode cannot change between the top
\* of the loop and a paper trade, and what a tick has left in paper mode came
\* from select.
PaperIsReserved ==
  /\ pc \in {"fetch", "gather"} => mode = "live"
  /\ pc \in {"tick", "execute"} /\ mode = "paper" => control.mode = "paper"
  /\ pc = "execute" /\ mode = "paper" =>
       \A o \in ToSet(to_execute) : reservations[o] # None

\* No order is sent before the balances of live mode have been fetched,
\* however the mode is switched during the fetch.
LiveTradesWereFetchedFor ==
  /\ inflight # None => "live" \in seeded
  /\ \A n \in DOMAIN trade_log : trade_log[n].mode = "live" => "live" \in seeded

\* What LiveTradesWereFetchedFor rests on: the set never claims live in vain,
\* and past the fetch the executor is in live mode only after one.
LiveIsSeeded ==
  /\ "live" \in seeded_modes => "live" \in seeded
  /\ mode = "live" /\ pc \notin {"fetch", "stopped"} => "live" \in seeded

\* The two emergency stops, the loop's and the risk manager's, agree.
StopFlagsAgree == control.emergency_stop = limits.emergency_stop

\* No new trade under the emergency stop, in the loop as in the executor:
\* not even the opportunities a tick has selected before the stop.
StopHoldsInTheLoop ==
  [][control.emergency_stop /\ inflight = None =>
       /\ trade_log' = trade_log
       /\ inflight' = None]_engineVars

\* A tick ends: whatever the dashboard does meanwhile, the loop gets back to
\* its sleep.
TicksEnd == pc = "tick" ~> pc \in {"sleep", "stopped"}

\* The conjunction of the loop's invariants, which every step preserves.
EngineInv ==
  /\ EngineTypeOK
  /\ InFlightIsTheHead
  /\ TradesAreBookedOnce
  /\ LiveIsSeeded
  /\ LiveTradesWereFetchedFor
  /\ StopFlagsAgree

\* What main's loop does to the executor and to the router are steps those
\* two modules allow, so their properties hold in the engine.
RefinesExecutor == ExecSpec
RefinesRouter == RouterSpec

\* What the docstring of _seed_inventory_for_mode says of live mode: real
\* balances are fetched "once per mode-entry".  (Violated: once per process, so
\* a second entry trades on what paper mode has put in their place.)
LiveEntriesFetch ==
  [][mode # "live" /\ mode' = "live" /\ "paper" \in seeded => pc' = "fetch"]_engineVars

\* Only balances that a fill moved are moved.  (Violated: a live trade whose
\* legs failed is settled like one that filled.)
SettledTradesFilled ==
  \A n \in DOMAIN bookings :
    bookings[n].settled /\ trade_log[n].mode = "live"
      => trade_log[n].executed = LegIndices(bookings[n].opportunity)

==============================================================================

------------------------------ MODULE Executor -------------------------------
(***************************************************************************)
(* execution/executor.py with the RiskManager and Reconciler it calls.     *)
(*                                                                         *)
(* Executor.handle runs on one event loop, called by one caller.  Its only *)
(* suspension point is the gather over the legs of a live trade, so an     *)
(* action here is what runs between two suspensions: a whole call that     *)
(* ends without trading, a whole paper trade, the part of a live trade up  *)
(* to the gather, the first step of all its leg tasks, one exchange's      *)
(* answer, and the part after the gather.  Dashboard requests and the      *)
(* clock may come between any two of them.                                 *)
(***************************************************************************)
EXTENDS RiskManager

CONSTANTS
  Profits,        \* the estimates size_usd * net_pct / 100 may give, > 0
  TradeLimits,    \* max_trades_per_day values an operator may set
  LossLimits,     \* daily_loss_limit_usd values an operator may set
  MaxTrades,      \* bound: trades started in a behaviour
  MaxDay          \* bound: the last day of a behaviour

ASSUME ExecutorConstantsAreTyped ==
  /\ Profits \subseteq Nat \ {0}
  /\ TradeLimits \subseteq Nat
  /\ LossLimits \subseteq Int
  /\ TradeLimits # {} /\ LossLimits # {}
  /\ MaxTrades \in Nat
  /\ MaxDay \in Nat
  /\ None \notin Nat
  /\ None \notin [opportunity : Opportunities, pnl : Nat]

VARIABLES
  today,          \* date.today()
  mode,           \* executor.mode
  risk,           \* risk_manager's counters and deployed tables
  limits,         \* risk_manager.limits
  inflight,       \* the live trade suspended at its gather, or None
  legs,           \* what each leg task of that trade has come to
  executed,       \* history: its legs that executed at their exchange
  trade_log,      \* executor.trade_log; day and executed are history
  open_incidents, \* reconciler.open_incidents
  orders,         \* history: every order an exchange executed, by trade and leg
  alive           \* the main task has not been cancelled

execVars == <<today, mode, risk, limits, inflight, legs, executed,
              trade_log, open_incidents, orders, alive>>

LegStates == {"scheduled", "sent", "ok", "error"}
PartialNote == "PARTIAL_FILL_RECONCILIATION_REQUIRED"

LiveTrade == [opportunity : Opportunities, pnl : Profits]

TradeLogEntry ==
  [opportunity : Opportunities, mode : {"paper", "live"},
   pnl_usd : Profits \cup {None}, note : {"", PartialNote},
   day : Nat, executed : SUBSET Nat]

Incident == [trade : Nat, filled : SUBSET Nat]

ExecTypeOK ==
  /\ today \in 0..MaxDay
  /\ mode \in Modes
  /\ risk \in RiskState
  /\ limits \in RiskLimits
  /\ inflight \in LiveTrade \cup {None}
  /\ inflight # None =>
       /\ legs \in [LegIndices(inflight.opportunity) -> LegStates]
       /\ executed \subseteq LegIndices(inflight.opportunity)
  /\ trade_log \in Seq(TradeLogEntry)
  /\ open_incidents \in Seq(Incident)
  /\ orders \subseteq Nat \X Nat \X {"filled", "lost"}
  /\ alive \in BOOLEAN

ExecInit ==
  /\ today = 0
  /\ mode \in Modes
  /\ risk = FreshRiskState(0)
  /\ limits \in [emergency_stop : {FALSE}, max_trades_per_day : TradeLimits,
                 daily_loss_limit_usd : LossLimits]
  /\ inflight = None
  /\ legs = <<>>
  /\ executed = {}
  /\ trade_log = <<>>
  /\ open_incidents = <<>>
  /\ orders = {}
  /\ alive = TRUE

-----------------------------------------------------------------------------
\* handle(opportunity), up to its return or its gather.

Idle == alive /\ inflight = None

Rolled == RollDayIfNeeded(risk, today)

Admitted(o) == CanTrade(Rolled, limits, o)

\* The risk manager says no.  Asking may still have rolled the day.
Decline(o) ==
  /\ Idle
  /\ ~Admitted(o)
  /\ risk' = Rolled
  /\ UNCHANGED <<today, mode, limits, inflight, legs, executed,
                 trade_log, open_incidents, orders, alive>>

HandleMonitor(o) ==
  /\ Idle
  /\ Admitted(o)
  /\ mode = "monitor"
  /\ risk' = Rolled
  /\ UNCHANGED <<today, mode, limits, inflight, legs, executed,
                 trade_log, open_incidents, orders, alive>>

\* Mutant: the bail-outs as they were before release_uncommitted.
SkipKeepingCapital(o) ==
  /\ Idle
  /\ Admitted(o)
  /\ mode \in {"paper", "live"}
  /\ risk' = Commit(Rolled, o)
  /\ UNCHANGED <<today, mode, limits, inflight, legs, executed,
                 trade_log, open_incidents, orders, alive>>

\* _handle_paper or _handle_live finds no size, or no edge left, and the
\* finally clause of handle takes the commitment back.
Skip(o) ==
  /\ Idle
  /\ Admitted(o)
  /\ mode \in {"paper", "live"}
  /\ risk' = Release(Commit(Rolled, o), o)
  /\ UNCHANGED <<today, mode, limits, inflight, legs, executed,
                 trade_log, open_incidents, orders, alive>>

PaperFill(o, pnl) ==
  /\ Idle
  /\ Admitted(o)
  /\ mode = "paper"
  /\ CanVerify(o)
  /\ Len(trade_log) < MaxTrades
  /\ risk' = RecordResult(Commit(Rolled, o), today, o, pnl, TRUE)
  /\ trade_log' = Append(trade_log,
       [opportunity |-> o, mode |-> "paper", pnl_usd |-> pnl, note |-> "",
        day |-> today, executed |-> {}])
  /\ UNCHANGED <<today, mode, limits, inflight, legs, executed,
                 open_incidents, orders, alive>>

\* gather wraps every leg in a task; none of them has run yet.
LiveFire(o, pnl) ==
  /\ Idle
  /\ Admitted(o)
  /\ mode = "live"
  /\ CanVerify(o)
  /\ Len(trade_log) < MaxTrades
  /\ risk' = Commit(Rolled, o)
  /\ inflight' = [opportunity |-> o, pnl |-> pnl]
  /\ legs' = [i \in LegIndices(o) |-> "scheduled"]
  /\ executed' = {}
  /\ UNCHANGED <<today, mode, limits, trade_log, open_incidents, orders, alive>>

-----------------------------------------------------------------------------
\* The leg tasks.

\* Mutant: a leg whose venue is gone waits for it to come back.
StartConnectedLegs(connected) ==
  /\ alive
  /\ inflight # None
  /\ \A i \in DOMAIN legs : legs[i] = "scheduled"
  /\ legs' = [i \in DOMAIN legs |->
                IF inflight.opportunity.legs[i].venue_id \in connected
                THEN "sent" ELSE "scheduled"]
  /\ UNCHANGED <<today, mode, risk, limits, inflight, executed,
                 trade_log, open_incidents, orders, alive>>

\* _execute_leg up to its first await.  The tasks are scheduled back to
\* back, so all of them get here before any other callback runs.  A venue
\* whose client reconnect has just taken away fails its leg at once.
StartLegs(connected) ==
  /\ alive
  /\ inflight # None
  /\ \A i \in DOMAIN legs : legs[i] = "scheduled"
  /\ legs' = [i \in DOMAIN legs |->
                IF inflight.opportunity.legs[i].venue_id \in connected
                THEN "sent" ELSE "error"]
  /\ UNCHANGED <<today, mode, risk, limits, inflight, executed,
                 trade_log, open_incidents, orders, alive>>

\* An order of the trade in flight, which will be the next in the log: the answer
\* said that it was filled, or was lost.
Order(i, answer) == <<Len(trade_log) + 1, i, answer>>

LegFills(i) ==
  /\ alive
  /\ inflight # None
  /\ i \in DOMAIN legs /\ legs[i] = "sent"
  /\ legs' = [legs EXCEPT ![i] = "ok"]
  /\ executed' = executed \cup {i}
  /\ orders' = orders \cup {Order(i, "filled")}
  /\ UNCHANGED <<today, mode, risk, limits, inflight,
                 trade_log, open_incidents, alive>>

\* The order raises.  A request that timed out, or whose connection broke,
\* may have executed all the same.
LegFails(i) ==
  /\ alive
  /\ inflight # None
  /\ i \in DOMAIN legs /\ legs[i] = "sent"
  /\ legs' = [legs EXCEPT ![i] = "error"]
  /\ \/ UNCHANGED <<executed, orders>>
     \/ /\ executed' = executed \cup {i}
        /\ orders' = orders \cup {Order(i, "lost")}
  /\ UNCHANGED <<today, mode, risk, limits, inflight,
                 trade_log, open_incidents, alive>>

-----------------------------------------------------------------------------
\* After the gather.

Successes(ls) == {i \in DOMAIN ls : ls[i] = "ok"}

\* Mutant: an incident only if it is the first leg that has filled.
FirstLegFilled(ls) == 1 \in Successes(ls) /\ Successes(ls) # DOMAIN ls

\* Reconciler.check opens an incident when some legs succeeded and some failed.
OneSided(ls) ==
  /\ Successes(ls) # {}
  /\ Successes(ls) # DOMAIN ls

\* Mutant: any success instead of all of them.
AnyOk(ls) == Successes(ls) # {}

AllOk(ls) == Successes(ls) = DOMAIN ls

AllAnswered == \A i \in DOMAIN legs : legs[i] \in {"ok", "error"}

FinishLive ==
  /\ alive
  /\ inflight # None
  /\ AllAnswered
  /\ LET o == inflight.opportunity
         pnl == IF AllOk(legs) THEN inflight.pnl ELSE 0
     IN /\ open_incidents' =
             IF OneSided(legs)
             THEN Append(open_incidents, [trade |-> Len(trade_log) + 1,
                                          filled |-> Successes(legs)])
             ELSE open_incidents
        /\ risk' = RecordResult(risk, today, o, pnl, AllOk(legs))
        /\ trade_log' = Append(trade_log,
             [opportunity |-> o, mode |-> "live",
              pnl_usd |-> IF AllOk(legs) THEN pnl ELSE None,
              note |-> IF AllOk(legs) THEN "" ELSE PartialNote,
              day |-> today, executed |-> executed])
  /\ inflight' = None
  /\ legs' = <<>>
  /\ executed' = {}
  /\ UNCHANGED <<today, mode, limits, orders, alive>>

\* The main task is cancelled at the gather (KeyboardInterrupt): the finally
\* clause of handle runs, nothing after it does, and no call ever follows.
Interrupt ==
  /\ alive
  /\ alive' = FALSE
  /\ risk' = IF inflight = None THEN risk ELSE Release(risk, inflight.opportunity)
  /\ inflight' = None
  /\ legs' = <<>>
  /\ executed' = {}
  /\ UNCHANGED <<today, mode, limits, trade_log, open_incidents, orders>>

-----------------------------------------------------------------------------
\* What others do between two of those steps.

SetMode(m) ==
  /\ Idle
  /\ mode' = m
  /\ UNCHANGED <<today, risk, limits, inflight, legs, executed,
                 trade_log, open_incidents, orders, alive>>

NewDay ==
  /\ alive
  /\ today < MaxDay
  /\ today' = today + 1
  /\ UNCHANGED <<mode, risk, limits, inflight, legs, executed,
                 trade_log, open_incidents, orders, alive>>

\* trigger_emergency_stop and clear_emergency_stop.
SetEmergencyStop(on) ==
  /\ alive
  /\ limits' = [limits EXCEPT !.emergency_stop = on]
  /\ UNCHANGED <<today, mode, risk, inflight, legs, executed,
                 trade_log, open_incidents, orders, alive>>

\* dashboard/server.py, update_risk_limits.
UpdateRiskLimits(trades, loss) ==
  /\ alive
  /\ limits' = [limits EXCEPT !.max_trades_per_day = trades,
                              !.daily_loss_limit_usd = loss]
  /\ UNCHANGED <<today, mode, risk, inflight, legs, executed,
                 trade_log, open_incidents, orders, alive>>

Handle(o) ==
  \/ Decline(o)
  \/ HandleMonitor(o)
  \/ Skip(o)
  \/ \E pnl \in Profits : PaperFill(o, pnl)
  \/ \E pnl \in Profits : LiveFire(o, pnl)

ExecNext ==
  \/ \E o \in Opportunities : Handle(o)
  \/ \E connected \in SUBSET Venues : StartLegs(connected)
  \/ \E i \in DOMAIN legs : LegFills(i)
  \/ \E i \in DOMAIN legs : LegFails(i)
  \/ FinishLive
  \/ Interrupt
  \/ \E m \in Modes : SetMode(m)
  \/ NewDay
  \/ \E on \in BOOLEAN : SetEmergencyStop(on)
  \/ \E trades \in TradeLimits, loss \in LossLimits : UpdateRiskLimits(trades, loss)

ExecSpec == ExecInit /\ [][ExecNext]_execVars

-----------------------------------------------------------------------------
\* The desk this is an implementation of: the log is the desk's log, and the
\* trade under way is the one at its gather.

Working == IF inflight = None THEN None ELSE inflight.opportunity

Desk == INSTANCE TradingDesk WITH working <- Working, trades <- trade_log, open <- alive

-----------------------------------------------------------------------------
\* Properties.

\* The deployed tables hold exactly what is in flight: the one live trade at
\* its gather, and nothing at all between trades.  No path through commit,
\* release_uncommitted, record_result, the midnight reset or a cancellation
\* leaves capital behind, which is what once stopped the engine for good
\* (the docstring of record_result).
CapitalMatchesInFlight ==
  /\ \A s \in Strategies :
       risk.strategy_deployed_usd[s] =
         IF inflight # None /\ inflight.opportunity.strategy = s
         THEN inflight.opportunity.max_size_usd ELSE 0
  /\ \A v \in Venues :
       risk.venue_deployed_usd[v] =
         IF inflight # None THEN VenueLoad(inflight.opportunity, v) ELSE 0

TradesOf(day) == {n \in DOMAIN trade_log : trade_log[n].day = day}

\* The breaker's trade counter is the number of trades logged on its day,
\* whenever the day rolls: while idle, between the gather of a trade and its
\* answer, or not yet although the clock has moved on.
CountMatchesLog ==
  risk.daily_trade_count = Cardinality(TradesOf(risk.current_day))

\* The days the log and the breaker carry never run ahead of the clock.
DaysInOrder ==
  /\ risk.current_day <= today
  /\ \A n \in DOMAIN trade_log : trade_log[n].day <= risk.current_day

\* consecutive_failures is the length of the run of failed trades that ends
\* the log, across midnights and limit changes.
StreakMatchesLog ==
  LET n == Len(trade_log)
      streak == risk.consecutive_failures
  IN /\ streak <= n
     /\ \A k \in (n - streak + 1)..n : trade_log[k].pnl_usd = None
     /\ streak < n => trade_log[n - streak].pnl_usd # None

\* Whatever changes while a trade is in flight, the streak it was admitted
\* under is still below its limit when the trade ends.
InFlightUnderStreakLimit ==
  inflight # None => risk.consecutive_failures < MaxConsecutiveFailures

\* No day logs more trades than the largest limit an operator may set, even
\* when the limit is lowered, or midnight passes, with a trade in flight.
DailyTradesBounded ==
  \A day \in 0..MaxDay : \E limit \in TradeLimits :
    Cardinality(TradesOf(day)) <= limit

\* The daily loss breaker cannot trip: no path books a loss (a paper trade
\* is only taken at a profit, a failed live trade books 0), so the PnL never
\* reaches a nonzero limit however small.
LossBreakerNeverTrips ==
  limits.daily_loss_limit_usd # 0 =>
    risk.daily_pnl_usd > -Abs(limits.daily_loss_limit_usd)

FillsOf(n) == {order[2] : order \in {x \in orders : x[1] = n /\ x[3] = "filled"}}

\* The engine loses track of nothing that it did at an exchange: every executed
\* order is of a trade that is logged or at its gather, but for the one trade that
\* a cancellation cuts off.  And there is an incident for exactly the logged trades
\* that some legs were answered with a fill and some were not: one each, which says
\* which legs those are, and the trade is not booked as a success.
FillsAreAccounted ==
  /\ \A order \in orders :
       \/ order[1] \in DOMAIN trade_log
       \/ order[1] = Len(trade_log) + 1 /\ (inflight # None \/ ~alive)
  /\ \A n \in DOMAIN trade_log :
       LET fills == FillsOf(n)
           incidents == {k \in DOMAIN open_incidents : open_incidents[k].trade = n}
       IN IF fills = {} \/ fills = LegIndices(trade_log[n].opportunity) THEN incidents = {}
          ELSE /\ \E k \in DOMAIN open_incidents :
                    incidents = {k} /\ open_incidents[k].filled = fills
               /\ trade_log[n].note = PartialNote
  /\ \A k \in DOMAIN open_incidents : open_incidents[k].trade \in DOMAIN trade_log

\* A live trade is booked as profit only if every leg of it executed.
ProfitNeedsEveryLeg ==
  \A n \in DOMAIN trade_log :
    trade_log[n].mode = "live" /\ trade_log[n].pnl_usd # None =>
      trade_log[n].executed = LegIndices(trade_log[n].opportunity)

\* Once the failure streak reaches its limit no trade is ever logged again:
\* a midnight does not clear it, and only a trade could.
StreakLimitEndsTrading ==
  [][risk.consecutive_failures >= MaxConsecutiveFailures
       => trade_log' = trade_log]_execVars

\* Counters, tables, lazy rolls, commitments and leg tasks decide exactly as
\* the log, the limits and the clock alone would: every trade the executor
\* begins, in whatever order limits, midnights and answers come, is one that
\* the desk may begin, and it ends in the log as the desk's does.
ImplementsDesk == Desk!DeskSpec

\* What the last properties rest on: no step books a loss, the day is in profit
\* once one of its trades was, a leg answered with a fill executed, and its order is
\* recorded.
NoLossBooked == risk.daily_pnl_usd >= 0

ProfitMatchesLog ==
  risk.daily_pnl_usd > 0 <=>
    \E n \in TradesOf(risk.current_day) : trade_log[n].pnl_usd # None

FillsExecuted == inflight # None => Successes(legs) \subseteq executed

FillsRecorded == inflight # None => FillsOf(Len(trade_log) + 1) = Successes(legs)

\* The conjunction that every step preserves; the parts it adds to the
\* properties above are what makes each of them inductive.
ExecInv ==
  /\ ExecTypeOK
  /\ CapitalMatchesInFlight
  /\ DaysInOrder
  /\ CountMatchesLog
  /\ StreakMatchesLog
  /\ InFlightUnderStreakLimit
  /\ NoLossBooked
  /\ ProfitMatchesLog
  /\ FillsExecuted
  /\ FillsRecorded
  /\ ProfitNeedsEveryLeg
  /\ FillsAreAccounted

\* Under the emergency stop no trade starts; one that is already at its
\* gather may still be logged.
StopStartsNothing ==
  [][limits.emergency_stop =>
       /\ inflight' \in {inflight, None}
       /\ trade_log' # trade_log => inflight # None]_execVars

==============================================================================

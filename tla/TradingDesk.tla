----------------------------- MODULE TradingDesk -----------------------------
(***************************************************************************)
(* What the executor, the risk manager and the reconciler promise an       *)
(* operator together, without a counter, a table of deployed capital, a    *)
(* lazy roll of the day or an order: one trade at a time, begun only if    *)
(* the trade log, the limits of this moment and the clock allow it, and    *)
(* entered in the log once, on the day it ends.                            *)
(*                                                                         *)
(* Executor.tla implements this (ImplementsDesk).                          *)
(***************************************************************************)
EXTENDS Trading

CONSTANTS
  StrategyCap, VenueCap, MaxConsecutiveFailures, Profits, TradeLimits, LossLimits

VARIABLES
  today, mode, limits,  \* the clock, and what the operator has set
  working,              \* the opportunity of the trade under way, or None
  trades,               \* the trade log
  open                  \* the desk has not been closed

deskVars == <<today, mode, limits, working, trades, open>>

DeskInit ==
  /\ today = 0
  /\ mode \in Modes
  /\ limits \in [emergency_stop : {FALSE}, max_trades_per_day : TradeLimits,
                 daily_loss_limit_usd : LossLimits]
  /\ working = None
  /\ trades = <<>>
  /\ open = TRUE

-----------------------------------------------------------------------------
Today == {n \in DOMAIN trades : trades[n].day = today}

\* The latest trades, of whichever days, have all failed.
OnALosingStreak ==
  /\ MaxConsecutiveFailures <= Len(trades)
  /\ \A n \in (Len(trades) - MaxConsecutiveFailures + 1)..Len(trades) :
       trades[n].pnl_usd = None

\* A limit of zero means that the day has to be in profit already.
DayIsGoodEnough ==
  \/ limits.daily_loss_limit_usd # 0
  \/ \E n \in Today : trades[n].pnl_usd # None

FitsTheCaps(o) ==
  /\ o.max_size_usd <= StrategyCap[o.strategy]
  /\ \A i \in LegIndices(o) : o.max_size_usd <= VenueCap[o.legs[i].venue_id]

MayBegin(o) ==
  /\ open
  /\ working = None
  /\ ~limits.emergency_stop
  /\ Cardinality(Today) < limits.max_trades_per_day
  /\ DayIsGoodEnough
  /\ ~OnALosingStreak
  /\ FitsTheCaps(o)

-----------------------------------------------------------------------------
Entry(o, how, pnl, executed) ==
  [opportunity |-> o, mode |-> how, pnl_usd |-> pnl,
   note |-> IF pnl = None THEN "PARTIAL_FILL_RECONCILIATION_REQUIRED" ELSE "",
   day |-> today, executed |-> executed]

TradeOnPaper(o) ==
  /\ MayBegin(o)
  /\ mode = "paper"
  /\ \E pnl \in Profits : trades' = Append(trades, Entry(o, "paper", pnl, {}))
  /\ UNCHANGED <<today, mode, limits, working, open>>

Begin(o) ==
  /\ MayBegin(o)
  /\ mode = "live"
  /\ working' = o
  /\ UNCHANGED <<today, mode, limits, trades, open>>

\* A profit is entered only if every leg executed.
End ==
  /\ open
  /\ working # None
  /\ \/ \E pnl \in Profits :
          trades' = Append(trades, Entry(working, "live", pnl, LegIndices(working)))
     \/ \E executed \in SUBSET LegIndices(working) :
          trades' = Append(trades, Entry(working, "live", None, executed))
  /\ working' = None
  /\ UNCHANGED <<today, mode, limits, open>>

\* Closing abandons the trade under way: it is never entered.
Close ==
  /\ open
  /\ open' = FALSE
  /\ working' = None
  /\ UNCHANGED <<today, mode, limits, trades>>

\* The operator and the clock; a trade under way keeps its mode.
ChangeMode ==
  /\ open
  /\ working = None
  /\ mode' \in Modes
  /\ UNCHANGED <<today, limits, working, trades, open>>

ChangeLimits ==
  /\ open
  /\ \/ \E on \in BOOLEAN : limits' = [limits EXCEPT !.emergency_stop = on]
     \/ \E most \in TradeLimits, loss \in LossLimits :
          limits' = [limits EXCEPT !.max_trades_per_day = most,
                                   !.daily_loss_limit_usd = loss]
  /\ UNCHANGED <<today, mode, working, trades, open>>

Midnight ==
  /\ open
  /\ today' = today + 1
  /\ UNCHANGED <<mode, limits, working, trades, open>>

DeskNext ==
  \/ \E o \in Opportunities : TradeOnPaper(o) \/ Begin(o)
  \/ End
  \/ Close
  \/ ChangeMode
  \/ ChangeLimits
  \/ Midnight

DeskSpec == DeskInit /\ [][DeskNext]_deskVars
==============================================================================

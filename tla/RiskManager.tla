----------------------------- MODULE RiskManager -----------------------------
(***************************************************************************)
(* risk/manager.py and risk/limits.py: what each method of RiskManager     *)
(* does to the manager's fields, as operators from the fields before the   *)
(* call to the fields after it.  Executor.tla owns the variable they are   *)
(* applied to, and decides when.                                           *)
(***************************************************************************)
EXTENDS Trading

CONSTANTS
  StrategyCap,             \* strategy_capital_limit: USD per strategy
  VenueCap,                \* venue_exposure_limit: USD per venue
  MaxConsecutiveFailures   \* max_consecutive_failures

ASSUME CapsAreTyped ==
  /\ StrategyCap \in [Strategies -> Nat]
  /\ VenueCap \in [Venues -> Nat]
  /\ MaxConsecutiveFailures \in Nat

\* The fields of RiskManager.  The two deployed tables are dicts read with
\* .get(key, 0.0): total functions that start at zero.
RiskState ==
  [current_day : Nat,
   daily_pnl_usd : Int,
   daily_trade_count : Nat,
   consecutive_failures : Nat,
   strategy_deployed_usd : [Strategies -> Nat],
   venue_deployed_usd : [Venues -> Nat]]

\* The fields of RiskLimits the dashboard can change while the engine runs.
RiskLimits ==
  [emergency_stop : BOOLEAN,
   max_trades_per_day : Nat,
   daily_loss_limit_usd : Int]

NothingDeployed(keys) == [k \in keys |-> 0]

FreshRiskState(today) ==
  [current_day |-> today,
   daily_pnl_usd |-> 0,
   daily_trade_count |-> 0,
   consecutive_failures |-> 0,
   strategy_deployed_usd |-> NothingDeployed(Strategies),
   venue_deployed_usd |-> NothingDeployed(Venues)]

-----------------------------------------------------------------------------
\* Mutant: a roll that clears the streak as well.
RollClearingStreak(rm, today) ==
  IF rm.current_day = today THEN rm ELSE FreshRiskState(today)

\* The failure streak is the one counter a new day does not clear.
RollDayIfNeeded(rm, today) ==
  IF rm.current_day = today
  THEN rm
  ELSE [FreshRiskState(today) EXCEPT
          !.consecutive_failures = rm.consecutive_failures]

Abs(x) == IF x < 0 THEN -x ELSE x

\* Mutants: an off-by-one in the trade limit, and a forgotten emergency stop.
OneTradeTooMany(rm, limits) ==
  /\ ~limits.emergency_stop
  /\ rm.daily_pnl_usd > -Abs(limits.daily_loss_limit_usd)
  /\ rm.daily_trade_count <= limits.max_trades_per_day
  /\ rm.consecutive_failures < MaxConsecutiveFailures

StopIgnored(rm, limits) ==
  /\ rm.daily_pnl_usd > -Abs(limits.daily_loss_limit_usd)
  /\ rm.daily_trade_count < limits.max_trades_per_day
  /\ rm.consecutive_failures < MaxConsecutiveFailures

BreakersAllow(rm, limits) ==
  /\ ~limits.emergency_stop
  /\ rm.daily_pnl_usd > -Abs(limits.daily_loss_limit_usd)
  /\ rm.daily_trade_count < limits.max_trades_per_day
  /\ rm.consecutive_failures < MaxConsecutiveFailures

StrategyCapAllows(rm, o) ==
  rm.strategy_deployed_usd[o.strategy] + o.max_size_usd <= StrategyCap[o.strategy]

\* Each leg is checked on its own, against one max_size_usd.
VenueCapsAllow(rm, o) ==
  \A i \in LegIndices(o) :
    LET v == o.legs[i].venue_id
    IN rm.venue_deployed_usd[v] + o.max_size_usd <= VenueCap[v]

\* can_trade, after its call of _roll_day_if_needed.
CanTrade(rm, limits, o) ==
  /\ BreakersAllow(rm, limits)
  /\ StrategyCapAllows(rm, o)
  /\ VenueCapsAllow(rm, o)

-----------------------------------------------------------------------------
\* commit charges a venue once for every leg on it.
VenueLoad(o, v) ==
  Cardinality({i \in LegIndices(o) : o.legs[i].venue_id = v}) * o.max_size_usd

Commit(rm, o) ==
  [rm EXCEPT
     !.strategy_deployed_usd[o.strategy] = @ + o.max_size_usd,
     !.venue_deployed_usd = [v \in Venues |-> @[v] + VenueLoad(o, v)]]

\* Mutant: a release that trusts the commitment to be still there.
Unclamped(x) == x

FloorAtZero(x) == IF x < 0 THEN 0 ELSE x

\* _release, and release_uncommitted, which only calls it.
Release(rm, o) ==
  [rm EXCEPT
     !.strategy_deployed_usd[o.strategy] = FloorAtZero(@ - o.max_size_usd),
     !.venue_deployed_usd = [v \in Venues |-> FloorAtZero(@[v] - VenueLoad(o, v))]]

\* Mutants: a result booked on the day the trade was admitted, and a failed
\* trade booked as the loss of its size.
RecordWithoutRoll(rm, today, o, pnl, success) ==
  Release([rm EXCEPT
             !.daily_pnl_usd = @ + pnl,
             !.daily_trade_count = @ + 1,
             !.consecutive_failures = IF success THEN 0 ELSE @ + 1], o)

RecordLoss(rm, today, o, pnl, success) ==
  LET rolled == RollDayIfNeeded(rm, today)
  IN Release([rolled EXCEPT
                !.daily_pnl_usd = IF success THEN @ + pnl ELSE @ - o.max_size_usd,
                !.daily_trade_count = @ + 1,
                !.consecutive_failures = IF success THEN 0 ELSE @ + 1], o)

RecordResult(rm, today, o, pnl, success) ==
  LET rolled == RollDayIfNeeded(rm, today)
  IN Release([rolled EXCEPT
                !.daily_pnl_usd = @ + pnl,
                !.daily_trade_count = @ + 1,
                !.consecutive_failures = IF success THEN 0 ELSE @ + 1], o)

\* size_with_depth_check followed by reverify_profitability.  What the books
\* answer at this moment is left open; these are the conditions under which
\* the two can accept at all: a priced buy leg to scale the route by, no leg
\* without a size, a cost to divide by, and proceeds to exceed it.
CanVerify(o) ==
  /\ o.max_size_usd > 0
  /\ BuyIndices(o) # {}
  /\ SellIndices(o) # {}
  /\ BuyLeg(o).price > 0
  /\ \A i \in LegIndices(o) : o.legs[i].size > 0
==============================================================================

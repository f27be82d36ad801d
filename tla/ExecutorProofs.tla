--------------------------- MODULE ExecutorProofs ----------------------------
(***************************************************************************)
(* Theorems about Executor, for every value of its constants: its safety   *)
(* invariants, that it implements the trading desk, and that no day logs   *)
(* more trades than an operator may allow.                                 *)
(***************************************************************************)
EXTENDS Executor, FiniteSetTheorems, TLAPS

-----------------------------------------------------------------------------
(***************************************************************************)
(* What the methods of the risk manager do to its fields.                  *)
(***************************************************************************)

\* The fields of an opportunity the methods read.
LEMMA OpportunityFields ==
  ASSUME NEW o \in Opportunities
  PROVE  /\ o.strategy \in Strategies
         /\ o.max_size_usd \in Nat
         /\ o.legs \in Seq(Leg)
         /\ \A i \in LegIndices(o) : o.legs[i].venue_id \in Venues
<1>1. o \in OpportunityRecord
  BY OpportunitiesAreTyped
<1>2. /\ o.strategy \in Strategies
      /\ o.max_size_usd \in Nat
      /\ o.legs \in Seq(Leg)
  BY <1>1 DEF OpportunityRecord
<1>3. \A i \in LegIndices(o) : o.legs[i] \in Leg
  BY <1>2 DEF LegIndices
<1>4. \A leg \in Leg : leg.venue_id \in Venues
  BY DEF Leg
<1> QED
  BY <1>2, <1>3, <1>4

\* What commit charges a venue is a natural number of dollars.
LEMMA VenueLoadType ==
  ASSUME NEW o \in Opportunities, NEW v \in Venues
  PROVE  VenueLoad(o, v) \in Nat
<1> DEFINE onVenue == {i \in LegIndices(o) : o.legs[i].venue_id = v}
<1>1. o.legs \in Seq(Leg) /\ o.max_size_usd \in Nat
  BY OpportunityFields
<1>2. LegIndices(o) = 1..Len(o.legs) /\ Len(o.legs) \in Nat
  BY <1>1 DEF LegIndices
<1>3. IsFiniteSet(LegIndices(o))
  BY <1>2, FS_Interval
<1>4. Cardinality(onVenue) \in Nat
  BY <1>3, FS_Subset, FS_CardinalityType
<1>5. \A m, n \in Nat : m * n \in Nat
  OBVIOUS
<1>6. VenueLoad(o, v) = Cardinality(onVenue) * o.max_size_usd
  BY DEF VenueLoad
<1> HIDE DEF onVenue
<1> QED
  BY <1>1, <1>4, <1>5, <1>6

LEMMA FreshRiskStateType ==
  ASSUME NEW day \in Nat
  PROVE  FreshRiskState(day) \in RiskState
BY DEF FreshRiskState, RiskState, NothingDeployed

LEMMA RollType ==
  ASSUME NEW rm \in RiskState, NEW day \in Nat
  PROVE  RollDayIfNeeded(rm, day) \in RiskState
BY FreshRiskStateType DEF RollDayIfNeeded, FreshRiskState, RiskState, NothingDeployed

LEMMA CommitType ==
  ASSUME NEW rm \in RiskState, NEW o \in Opportunities
  PROVE  Commit(rm, o) \in RiskState
<1> DEFINE strategies == [rm.strategy_deployed_usd EXCEPT
                            ![o.strategy] = @ + o.max_size_usd]
           venues == [v \in Venues |-> rm.venue_deployed_usd[v] + VenueLoad(o, v)]
<1>1. strategies \in [Strategies -> Nat]
  BY OpportunityFields DEF RiskState
<1>2. venues \in [Venues -> Nat]
  BY VenueLoadType DEF RiskState
<1>3. Commit(rm, o) = [rm EXCEPT !.strategy_deployed_usd = strategies,
                                 !.venue_deployed_usd = venues]
  BY DEF Commit, RiskState
<1> HIDE DEF strategies, venues
<1> QED
  BY <1>1, <1>2, <1>3 DEF RiskState

LEMMA ReleaseType ==
  ASSUME NEW rm \in RiskState, NEW o \in Opportunities
  PROVE  Release(rm, o) \in RiskState
<1> DEFINE strategies == [rm.strategy_deployed_usd EXCEPT
                            ![o.strategy] = FloorAtZero(@ - o.max_size_usd)]
           venues == [v \in Venues |->
                        FloorAtZero(rm.venue_deployed_usd[v] - VenueLoad(o, v))]
<1>1. strategies \in [Strategies -> Nat]
  BY OpportunityFields DEF RiskState, FloorAtZero
<1>2. venues \in [Venues -> Nat]
  BY VenueLoadType DEF RiskState, FloorAtZero
<1>3. Release(rm, o) = [rm EXCEPT !.strategy_deployed_usd = strategies,
                                  !.venue_deployed_usd = venues]
  BY DEF Release, RiskState
<1> HIDE DEF strategies, venues
<1> QED
  BY <1>1, <1>2, <1>3 DEF RiskState

LEMMA RecordResultType ==
  ASSUME NEW rm \in RiskState, NEW day \in Nat, NEW o \in Opportunities,
         NEW pnl \in Nat, NEW success \in BOOLEAN
  PROVE  RecordResult(rm, day, o, pnl, success) \in RiskState
<1> DEFINE rolled == RollDayIfNeeded(rm, day)
           booked == [rolled EXCEPT
                !.daily_pnl_usd = @ + pnl,
                !.daily_trade_count = @ + 1,
                !.consecutive_failures = IF success THEN 0 ELSE @ + 1]
<1>1. rolled \in RiskState
  BY RollType
<1>2. /\ rolled.daily_pnl_usd + pnl \in Int
      /\ rolled.daily_trade_count + 1 \in Nat
      /\ (IF success THEN 0 ELSE rolled.consecutive_failures + 1) \in Nat
  BY <1>1 DEF RiskState
<1>3. booked \in RiskState
  <2> HIDE DEF rolled
  <2> QED
    BY <1>1, <1>2 DEF RiskState
<1> QED
  BY <1>3, ReleaseType DEF RecordResult

\* Releasing what was just committed restores every field: the clamps at
\* zero never bite.
LEMMA ReleaseUndoesCommit ==
  ASSUME NEW rm \in RiskState, NEW o \in Opportunities
  PROVE  Release(Commit(rm, o), o) = rm
<1> DEFINE c == Commit(rm, o)
           r == Release(c, o)
<1>1. o.strategy \in Strategies /\ o.max_size_usd \in Nat
  BY OpportunityFields
<1>2. \A v \in Venues : VenueLoad(o, v) \in Nat
  BY VenueLoadType
<1>3. c \in RiskState /\ r \in RiskState
  BY CommitType, ReleaseType
<1>4. /\ c.strategy_deployed_usd = [rm.strategy_deployed_usd EXCEPT
                                     ![o.strategy] = @ + o.max_size_usd]
      /\ c.venue_deployed_usd =
           [v \in Venues |-> rm.venue_deployed_usd[v] + VenueLoad(o, v)]
      /\ c.current_day = rm.current_day
      /\ c.daily_pnl_usd = rm.daily_pnl_usd
      /\ c.daily_trade_count = rm.daily_trade_count
      /\ c.consecutive_failures = rm.consecutive_failures
  BY DEF Commit, RiskState
<1> HIDE DEF c
<1>5. /\ r.strategy_deployed_usd = [c.strategy_deployed_usd EXCEPT
                                     ![o.strategy] = FloorAtZero(@ - o.max_size_usd)]
      /\ r.venue_deployed_usd =
           [v \in Venues |-> FloorAtZero(c.venue_deployed_usd[v] - VenueLoad(o, v))]
      /\ r.current_day = c.current_day
      /\ r.daily_pnl_usd = c.daily_pnl_usd
      /\ r.daily_trade_count = c.daily_trade_count
      /\ r.consecutive_failures = c.consecutive_failures
  BY <1>3 DEF Release, RiskState
<1> HIDE DEF r
<1>6. r.strategy_deployed_usd = rm.strategy_deployed_usd
  BY <1>1, <1>3, <1>4, <1>5 DEF RiskState, FloorAtZero
<1>7. r.venue_deployed_usd = rm.venue_deployed_usd
  BY <1>2, <1>3, <1>4, <1>5 DEF RiskState, FloorAtZero
<1>8. r = rm
  BY <1>3, <1>4, <1>5, <1>6, <1>7 DEF RiskState
<1> QED
  BY <1>8 DEF r, c
-----------------------------------------------------------------------------
(***************************************************************************)
(* Type correctness.                                                       *)
(***************************************************************************)

\* None is not a trade, nor a profit.
LEMMA NoneIsNothingElse ==
  /\ None \notin LiveTrade
  /\ None \notin Profits
  /\ Profits \subseteq Nat
<1>1. Profits \subseteq Nat
  BY ExecutorConstantsAreTyped
<1>2. LiveTrade \subseteq [opportunity : Opportunities, pnl : Nat]
  BY <1>1 DEF LiveTrade
<1> QED
  BY <1>1, <1>2, ExecutorConstantsAreTyped

\* The day the manager is on after its lazy roll.
LEMMA RolledType ==
  ASSUME ExecTypeOK
  PROVE  Rolled \in RiskState
<1>1. risk \in RiskState /\ today \in Nat
  BY ExecutorConstantsAreTyped DEF ExecTypeOK
<1> QED
  BY <1>1, RollType DEF Rolled

LEMMA ExecInitType == ExecInit => ExecTypeOK
<1> SUFFICES ASSUME ExecInit PROVE ExecTypeOK
  OBVIOUS
<1>1. today \in 0..MaxDay /\ mode \in Modes /\ alive \in BOOLEAN /\ inflight = None
  BY ExecutorConstantsAreTyped DEF ExecInit
<1>2. risk \in RiskState
  BY FreshRiskStateType DEF ExecInit
<1>3. limits \in RiskLimits
  BY ExecutorConstantsAreTyped DEF ExecInit, RiskLimits
<1>4. trade_log \in Seq(TradeLogEntry) /\ open_incidents \in Seq(Incident)
  BY DEF ExecInit
<1>5. orders = {}
  BY DEF ExecInit
<1> QED
  BY <1>1, <1>2, <1>3, <1>4, <1>5 DEF ExecTypeOK

LEMMA ExecNextType == ExecTypeOK /\ [ExecNext]_execVars => ExecTypeOK'
<1> SUFFICES ASSUME ExecTypeOK, [ExecNext]_execVars PROVE ExecTypeOK'
  OBVIOUS
<1> USE DEF ExecTypeOK
<1>0. /\ today \in Nat
      /\ risk \in RiskState
      /\ Rolled \in RiskState
  BY RolledType, ExecutorConstantsAreTyped
<1>1. ASSUME NEW o \in Opportunities, Decline(o) \/ HandleMonitor(o)
      PROVE  ExecTypeOK'
  BY <1>0, <1>1 DEF Decline, HandleMonitor
<1>2. ASSUME NEW o \in Opportunities, Skip(o)
      PROVE  ExecTypeOK'
  <2>1. Release(Commit(Rolled, o), o) \in RiskState
    BY <1>0, CommitType, ReleaseType
  <2> QED
    BY <1>2, <2>1 DEF Skip
<1>3. ASSUME NEW o \in Opportunities, NEW pnl \in Profits, PaperFill(o, pnl)
      PROVE  ExecTypeOK'
  <2> DEFINE entry == [opportunity |-> o, mode |-> "paper", pnl_usd |-> pnl,
                       note |-> "", day |-> today, executed |-> {}]
  <2>1. pnl \in Nat
    BY ExecutorConstantsAreTyped
  <2>2. risk' \in RiskState
    BY <1>0, <1>3, <2>1, CommitType, RecordResultType DEF PaperFill
  <2>3. entry \in TradeLogEntry
    BY <1>0 DEF TradeLogEntry
  <2>4. trade_log' = Append(trade_log, entry)
    BY <1>3 DEF PaperFill
  <2> HIDE DEF entry
  <2>5. trade_log' \in Seq(TradeLogEntry)
    BY <2>3, <2>4
  <2> QED
    BY <1>3, <2>2, <2>5 DEF PaperFill
<1>4. ASSUME NEW o \in Opportunities, NEW pnl \in Profits, LiveFire(o, pnl)
      PROVE  ExecTypeOK'
  <2>1. inflight' \in LiveTrade /\ inflight'.opportunity = o
    BY <1>4, ExecutorConstantsAreTyped DEF LiveFire, LiveTrade
  <2>2. risk' \in RiskState
    BY <1>0, <1>4, CommitType DEF LiveFire
  <2>3. legs' \in [LegIndices(o) -> LegStates] /\ executed' = {}
    BY <1>4 DEF LiveFire, LegStates
  <2> QED
    BY <1>4, <2>1, <2>2, <2>3 DEF LiveFire
<1>5. ASSUME NEW connected \in SUBSET Venues, StartLegs(connected)
      PROVE  ExecTypeOK'
  BY <1>5 DEF StartLegs, LegStates
<1>6. ASSUME NEW i \in DOMAIN legs, LegFills(i) \/ LegFails(i)
      PROVE  ExecTypeOK'
  <2>1. Order(i, "filled") \in Nat \X Nat \X {"filled", "lost"}
        /\ Order(i, "lost") \in Nat \X Nat \X {"filled", "lost"}
    <3>1. inflight \in LiveTrade /\ legs \in [LegIndices(inflight.opportunity) -> LegStates]
      BY <1>6 DEF LegFills, LegFails
    <3>2. LegIndices(inflight.opportunity) \subseteq Nat
      BY <3>1, OpportunityFields DEF LiveTrade, LegIndices
    <3> QED
      BY <1>6, <3>1, <3>2 DEF Order
  <2>2. orders' \subseteq Nat \X Nat \X {"filled", "lost"}
    BY <1>6, <2>1 DEF LegFills, LegFails
  <2> QED
    BY <1>6, <2>2 DEF LegFills, LegFails, LegStates
<1>7. CASE FinishLive
  <2> DEFINE o == inflight.opportunity
             pnl == IF AllOk(legs) THEN inflight.pnl ELSE 0
             entry == [opportunity |-> o, mode |-> "live",
                       pnl_usd |-> IF AllOk(legs) THEN pnl ELSE None,
                       note |-> IF AllOk(legs) THEN "" ELSE PartialNote,
                       day |-> today, executed |-> executed]
             incident == [trade |-> Len(trade_log) + 1, filled |-> Successes(legs)]
  <2>1. inflight \in LiveTrade
    BY <1>7 DEF FinishLive
  <2>2. o \in Opportunities /\ pnl \in Nat /\ inflight.pnl \in Profits
    BY <2>1, ExecutorConstantsAreTyped DEF LiveTrade
  <2>3. LegIndices(o) \subseteq Nat
    BY <2>2, OpportunityFields DEF LegIndices
  <2>4. AllOk(legs) \in BOOLEAN
    BY DEF AllOk
  <2>5. risk' \in RiskState
    BY <1>0, <1>7, <2>2, <2>4, RecordResultType DEF FinishLive
  <2>6. /\ executed \in SUBSET Nat
        /\ Successes(legs) \in SUBSET Nat
    BY <1>7, <2>3 DEF Successes, FinishLive
  <2>7. entry \in TradeLogEntry
    BY <1>0, <2>2, <2>6 DEF TradeLogEntry
  <2>8. incident \in Incident
    BY <2>6 DEF Incident
  <2>9. /\ trade_log' = Append(trade_log, entry)
        /\ open_incidents' = IF OneSided(legs) THEN Append(open_incidents, incident)
                             ELSE open_incidents
    BY <1>7 DEF FinishLive
  <2> HIDE DEF entry, incident
  <2>10. /\ trade_log' \in Seq(TradeLogEntry)
         /\ open_incidents' \in Seq(Incident)
    BY <2>7, <2>8, <2>9
  <2> QED
    BY <1>7, <2>5, <2>10 DEF FinishLive
<1>8. CASE Interrupt
  <2>1. CASE inflight = None
    BY <1>8, <2>1 DEF Interrupt
  <2>2. CASE inflight # None
    <3>1. inflight.opportunity \in Opportunities
      BY <2>2 DEF LiveTrade
    <3>2. risk' \in RiskState
      BY <1>0, <1>8, <2>2, <3>1, ReleaseType DEF Interrupt
    <3> QED
      BY <1>8, <3>2 DEF Interrupt
  <2> QED
    BY <2>1, <2>2
<1>9. ASSUME NEW m \in Modes, SetMode(m)
      PROVE  ExecTypeOK'
  BY <1>9 DEF SetMode
<1>10. CASE NewDay
  BY <1>10, ExecutorConstantsAreTyped DEF NewDay
<1>11. ASSUME NEW on \in BOOLEAN, SetEmergencyStop(on)
       PROVE  ExecTypeOK'
  BY <1>11 DEF SetEmergencyStop, RiskLimits
<1>12. ASSUME NEW trades \in TradeLimits, NEW loss \in LossLimits,
              UpdateRiskLimits(trades, loss)
       PROVE  ExecTypeOK'
  BY <1>12, ExecutorConstantsAreTyped DEF UpdateRiskLimits, RiskLimits
<1>13. CASE UNCHANGED execVars
  BY <1>13 DEF execVars
<1> QED
  BY <1>1, <1>2, <1>3, <1>4, <1>5, <1>6, <1>7, <1>8, <1>9, <1>10, <1>11,
     <1>12, <1>13
  DEF ExecNext, Handle

\* Every variable keeps its type.
THEOREM ExecTypeCorrect == ExecSpec => []ExecTypeOK
<1> QED
  BY ExecInitType, ExecNextType, PTL DEF ExecSpec
-----------------------------------------------------------------------------
(***************************************************************************)
(* Capital.                                                                *)
(***************************************************************************)

\* The deployed tables hold nothing.
Clear(rm) ==
  /\ \A s \in Strategies : rm.strategy_deployed_usd[s] = 0
  /\ \A v \in Venues : rm.venue_deployed_usd[v] = 0

\* They hold the commitment of o, and nothing else.
Holds(rm, o) ==
  /\ \A s \in Strategies :
       rm.strategy_deployed_usd[s] = IF o.strategy = s THEN o.max_size_usd ELSE 0
  /\ \A v \in Venues : rm.venue_deployed_usd[v] = VenueLoad(o, v)

LEMMA FreshIsClear == \A day \in Nat : Clear(FreshRiskState(day))
BY DEF Clear, FreshRiskState, NothingDeployed

\* A roll leaves the tables alone or clears them.
LEMMA RollKeepsOrClears ==
  ASSUME NEW rm \in RiskState, NEW day \in Nat
  PROVE  \/ RollDayIfNeeded(rm, day) = rm
         \/ Clear(RollDayIfNeeded(rm, day))
BY DEF RollDayIfNeeded, FreshRiskState, NothingDeployed, Clear

LEMMA CommitHolds ==
  ASSUME NEW rm \in RiskState, NEW o \in Opportunities, Clear(rm)
  PROVE  Holds(Commit(rm, o), o)
<1>1. \A v \in Venues : VenueLoad(o, v) \in Nat
  BY VenueLoadType
<1>2. o.strategy \in Strategies /\ o.max_size_usd \in Nat
  BY OpportunityFields
<1>3. /\ Commit(rm, o).strategy_deployed_usd =
           [rm.strategy_deployed_usd EXCEPT ![o.strategy] = @ + o.max_size_usd]
      /\ Commit(rm, o).venue_deployed_usd =
           [v \in Venues |-> rm.venue_deployed_usd[v] + VenueLoad(o, v)]
  BY DEF Commit, RiskState
<1>4. rm.strategy_deployed_usd \in [Strategies -> Nat]
  BY DEF RiskState
<1> QED
  BY <1>1, <1>2, <1>3, <1>4 DEF Holds, Clear

\* Whether or not midnight has already cleared the commitment.
LEMMA ReleaseClears ==
  ASSUME NEW rm \in RiskState, NEW o \in Opportunities,
         Holds(rm, o) \/ Clear(rm)
  PROVE  Clear(Release(rm, o))
<1>1. \A v \in Venues : VenueLoad(o, v) \in Nat
  BY VenueLoadType
<1>2. o.strategy \in Strategies /\ o.max_size_usd \in Nat
  BY OpportunityFields
<1>3. /\ Release(rm, o).strategy_deployed_usd =
           [rm.strategy_deployed_usd EXCEPT ![o.strategy] =
              FloorAtZero(@ - o.max_size_usd)]
      /\ Release(rm, o).venue_deployed_usd =
           [v \in Venues |-> FloorAtZero(rm.venue_deployed_usd[v] - VenueLoad(o, v))]
  BY DEF Release, RiskState
<1>4. rm.strategy_deployed_usd \in [Strategies -> Nat]
  BY DEF RiskState
<1>5. \A v \in Venues : FloorAtZero(rm.venue_deployed_usd[v] - VenueLoad(o, v)) = 0
  BY <1>1 DEF Holds, Clear, FloorAtZero
<1>6. \A s \in Strategies :
        [rm.strategy_deployed_usd EXCEPT ![o.strategy] =
           FloorAtZero(@ - o.max_size_usd)][s] = 0
  BY <1>2, <1>4 DEF Holds, Clear, FloorAtZero
<1> QED
  BY <1>3, <1>5, <1>6 DEF Clear

\* record_result rolls, books, and releases.  What it leaves, field by field.
LEMMA RecordResultFields ==
  ASSUME NEW rm \in RiskState, NEW day \in Nat, NEW o \in Opportunities,
         NEW pnl \in Nat, NEW success \in BOOLEAN
  PROVE  LET rolled == RollDayIfNeeded(rm, day)
             result == RecordResult(rm, day, o, pnl, success)
         IN /\ result.current_day = rolled.current_day
            /\ result.daily_pnl_usd = rolled.daily_pnl_usd + pnl
            /\ result.daily_trade_count = rolled.daily_trade_count + 1
            /\ result.consecutive_failures =
                 IF success THEN 0 ELSE rolled.consecutive_failures + 1
            /\ Holds(rm, o) \/ Clear(rm) => Clear(result)
<1> DEFINE rolled == RollDayIfNeeded(rm, day)
           result == RecordResult(rm, day, o, pnl, success)
           booked == [rolled EXCEPT
                !.daily_pnl_usd = @ + pnl,
                !.daily_trade_count = @ + 1,
                !.consecutive_failures = IF success THEN 0 ELSE @ + 1]
<1>1. rolled \in RiskState
  BY RollType
<1>2. /\ rolled.daily_pnl_usd + pnl \in Int
      /\ rolled.daily_trade_count + 1 \in Nat
      /\ (IF success THEN 0 ELSE rolled.consecutive_failures + 1) \in Nat
  BY <1>1 DEF RiskState
<1>3. Holds(rm, o) \/ Clear(rm) => Holds(rolled, o) \/ Clear(rolled)
  BY RollKeepsOrClears
<1>4. result = Release(booked, o)
  BY DEF RecordResult
<1> HIDE DEF rolled, result
<1>5. /\ booked \in RiskState
      /\ booked.current_day = rolled.current_day
      /\ booked.daily_pnl_usd = rolled.daily_pnl_usd + pnl
      /\ booked.daily_trade_count = rolled.daily_trade_count + 1
      /\ booked.consecutive_failures =
           IF success THEN 0 ELSE rolled.consecutive_failures + 1
      /\ booked.strategy_deployed_usd = rolled.strategy_deployed_usd
      /\ booked.venue_deployed_usd = rolled.venue_deployed_usd
  BY <1>1, <1>2 DEF RiskState
<1> HIDE DEF booked
<1>6. Holds(rm, o) \/ Clear(rm) => Clear(result)
  <2>1. SUFFICES ASSUME Holds(rm, o) \/ Clear(rm) PROVE Clear(result)
    OBVIOUS
  <2>2. Holds(booked, o) \/ Clear(booked)
    BY <1>3, <1>5, <2>1 DEF Holds, Clear
  <2> QED
    BY <1>4, <1>5, <2>2, ReleaseClears
<1>7. /\ result.current_day = booked.current_day
      /\ result.daily_pnl_usd = booked.daily_pnl_usd
      /\ result.daily_trade_count = booked.daily_trade_count
      /\ result.consecutive_failures = booked.consecutive_failures
  BY <1>4, <1>5 DEF Release, RiskState
<1> QED
  BY <1>5, <1>6, <1>7 DEF rolled, result

\* CapitalMatchesInFlight, in terms of these two predicates.
LEMMA CapitalCases ==
  CapitalMatchesInFlight <=>
    IF inflight = None THEN Clear(risk) ELSE Holds(risk, inflight.opportunity)
BY DEF CapitalMatchesInFlight, Clear, Holds

LEMMA CapitalStep ==
  ExecTypeOK /\ CapitalMatchesInFlight /\ [ExecNext]_execVars
    => CapitalMatchesInFlight'
<1> SUFFICES ASSUME ExecTypeOK, CapitalMatchesInFlight, [ExecNext]_execVars
             PROVE  IF inflight' = None THEN Clear(risk')
                    ELSE Holds(risk', inflight'.opportunity)
  BY CapitalCases DEF CapitalMatchesInFlight, Clear, Holds
<1>0. /\ today \in Nat
      /\ risk \in RiskState
      /\ Rolled \in RiskState
      /\ None \notin LiveTrade
  BY RolledType, NoneIsNothingElse, ExecutorConstantsAreTyped DEF ExecTypeOK
<1>1. ASSUME inflight = None
      PROVE  Clear(risk) /\ Clear(Rolled)
  BY <1>0, <1>1, CapitalCases, RollKeepsOrClears DEF Rolled
<1>2. ASSUME inflight # None
      PROVE  /\ Holds(risk, inflight.opportunity)
             /\ inflight.opportunity \in Opportunities
             /\ inflight.pnl \in Nat
  BY <1>2, CapitalCases, NoneIsNothingElse DEF ExecTypeOK, LiveTrade
<1>3. ASSUME NEW o \in Opportunities, Decline(o) \/ HandleMonitor(o)
      PROVE  inflight' = None /\ Clear(risk')
  BY <1>1, <1>3 DEF Decline, HandleMonitor, Idle
<1>4. ASSUME NEW o \in Opportunities, Skip(o)
      PROVE  inflight' = None /\ Clear(risk')
  BY <1>0, <1>1, <1>4, ReleaseUndoesCommit DEF Skip, Idle
<1>5. ASSUME NEW o \in Opportunities, NEW pnl \in Profits, PaperFill(o, pnl)
      PROVE  inflight' = None /\ Clear(risk')
  <2>1. Commit(Rolled, o) \in RiskState /\ Holds(Commit(Rolled, o), o)
    BY <1>0, <1>1, <1>5, CommitType, CommitHolds DEF PaperFill, Idle
  <2>2. pnl \in Nat
    BY ExecutorConstantsAreTyped
  <2>3. risk' = RecordResult(Commit(Rolled, o), today, o, pnl, TRUE)
    BY <1>5 DEF PaperFill
  <2>4. Clear(RecordResult(Commit(Rolled, o), today, o, pnl, TRUE))
    BY <1>0, <2>1, <2>2, RecordResultFields
  <2> QED
    BY <1>5, <2>3, <2>4 DEF PaperFill, Idle
<1>6. ASSUME NEW o \in Opportunities, NEW pnl \in Profits, LiveFire(o, pnl)
      PROVE  /\ inflight' # None
             /\ Holds(risk', inflight'.opportunity)
  <2>1. Holds(Commit(Rolled, o), o)
    BY <1>0, <1>1, <1>6, CommitHolds DEF LiveFire, Idle
  <2>2. inflight' \in LiveTrade /\ inflight'.opportunity = o
    BY <1>6, ExecutorConstantsAreTyped DEF LiveFire, LiveTrade
  <2> QED
    BY <1>0, <1>6, <2>1, <2>2 DEF LiveFire
<1>7. CASE FinishLive
  <2>1. inflight # None
    BY <1>7 DEF FinishLive
  <2>2. AllOk(legs) \in BOOLEAN /\ (IF AllOk(legs) THEN inflight.pnl ELSE 0) \in Nat
    BY <1>2, <2>1 DEF AllOk
  <2>3. risk' = RecordResult(risk, today, inflight.opportunity,
                  IF AllOk(legs) THEN inflight.pnl ELSE 0, AllOk(legs))
    BY <1>7 DEF FinishLive
  <2>4. Clear(RecordResult(risk, today, inflight.opportunity,
                  IF AllOk(legs) THEN inflight.pnl ELSE 0, AllOk(legs)))
    BY <1>0, <1>2, <2>1, <2>2, RecordResultFields
  <2> QED
    BY <1>7, <2>3, <2>4 DEF FinishLive
<1>8. CASE Interrupt
  BY <1>0, <1>1, <1>2, <1>8, ReleaseClears DEF Interrupt
<1>9. ASSUME UNCHANGED <<risk, inflight>>
      PROVE  IF inflight' = None THEN Clear(risk')
             ELSE Holds(risk', inflight'.opportunity)
  BY <1>1, <1>2, <1>9
<1>10. ASSUME NEW connected \in SUBSET Venues, StartLegs(connected)
       PROVE  UNCHANGED <<risk, inflight>>
  BY <1>10 DEF StartLegs
<1>11. ASSUME NEW i \in DOMAIN legs, LegFills(i) \/ LegFails(i)
       PROVE  UNCHANGED <<risk, inflight>>
  BY <1>11 DEF LegFills, LegFails
<1>12. ASSUME NEW m \in Modes, SetMode(m)
       PROVE  UNCHANGED <<risk, inflight>>
  BY <1>12 DEF SetMode
<1>13. ASSUME NEW on \in BOOLEAN, SetEmergencyStop(on)
       PROVE  UNCHANGED <<risk, inflight>>
  BY <1>13 DEF SetEmergencyStop
<1>14. ASSUME NEW trades \in TradeLimits, NEW loss \in LossLimits,
              UpdateRiskLimits(trades, loss)
       PROVE  UNCHANGED <<risk, inflight>>
  BY <1>14 DEF UpdateRiskLimits
<1>15. NewDay \/ UNCHANGED execVars => UNCHANGED <<risk, inflight>>
  BY DEF NewDay, execVars
<1> QED
  BY <1>3, <1>4, <1>5, <1>6, <1>7, <1>8, <1>9, <1>10, <1>11, <1>12, <1>13,
     <1>14, <1>15
  DEF ExecNext, Handle

\* Capital is never left behind, nor released for what is still in flight.
THEOREM CapitalIsReturned == ExecSpec => []CapitalMatchesInFlight
<1>1. ExecInit => CapitalMatchesInFlight
  BY FreshIsClear, CapitalCases DEF ExecInit
<1> QED
  BY <1>1, ExecTypeCorrect, CapitalStep, PTL DEF ExecSpec
-----------------------------------------------------------------------------
(***************************************************************************)
(* The trade log and the breaker's counters.                               *)
(***************************************************************************)

\* What a step does to the log and to the counters that follow it: nothing;
\* or a roll of the day, with no trade in flight; or one trade more, logged
\* today and booked at a profit or as a failure.
LogUnchanged ==
  /\ trade_log' = trade_log
  /\ today' \in {today, today + 1}
  /\ \/ risk' = risk
     \/ /\ inflight # None
        /\ risk' = Release(risk, inflight.opportunity)
     \/ /\ today' = today
        /\ risk' = Rolled
     \/ /\ today' = today
        /\ \E o \in Opportunities : risk' = Commit(Rolled, o)

LogGrows(entry, success) ==
  /\ trade_log' = Append(trade_log, entry)
  /\ entry.day = today
  /\ today' = today
  /\ success => entry.pnl_usd \in Profits
  /\ ~success => entry.pnl_usd = None
  /\ risk'.current_day = today
  /\ risk'.daily_pnl_usd =
       IF success THEN Rolled.daily_pnl_usd + entry.pnl_usd ELSE Rolled.daily_pnl_usd
  /\ risk'.daily_trade_count = Rolled.daily_trade_count + 1
  /\ risk'.consecutive_failures =
       IF success THEN 0 ELSE Rolled.consecutive_failures + 1

\* After a roll the manager is on today's date, and the streak is unchanged.
LEMMA RolledFields ==
  ASSUME ExecTypeOK
  PROVE  /\ Rolled.current_day = today
         /\ Rolled.consecutive_failures = risk.consecutive_failures
         /\ risk.current_day = today => Rolled = risk
         /\ risk.current_day # today => /\ Rolled.daily_pnl_usd = 0
                                        /\ Rolled.daily_trade_count = 0
<1>1. risk \in RiskState
  BY DEF ExecTypeOK
<1>2. CASE risk.current_day = today
  BY <1>2 DEF Rolled, RollDayIfNeeded
<1>3. CASE risk.current_day # today
  <2>1. Rolled = [FreshRiskState(today) EXCEPT
                    !.consecutive_failures = risk.consecutive_failures]
    BY <1>3 DEF Rolled, RollDayIfNeeded
  <2> QED
    BY <1>3, <2>1 DEF FreshRiskState
<1> QED
  BY <1>2, <1>3

\* commit and _release touch the deployed tables only.
LEMMA CommitFields ==
  ASSUME NEW rm \in RiskState, NEW o \in Opportunities
  PROVE  /\ Commit(rm, o).current_day = rm.current_day
         /\ Commit(rm, o).daily_pnl_usd = rm.daily_pnl_usd
         /\ Commit(rm, o).daily_trade_count = rm.daily_trade_count
         /\ Commit(rm, o).consecutive_failures = rm.consecutive_failures
BY DEF Commit, RiskState

LEMMA ReleaseFields ==
  ASSUME NEW rm \in RiskState, NEW o \in Opportunities
  PROVE  /\ Release(rm, o).current_day = rm.current_day
         /\ Release(rm, o).daily_pnl_usd = rm.daily_pnl_usd
         /\ Release(rm, o).daily_trade_count = rm.daily_trade_count
         /\ Release(rm, o).consecutive_failures = rm.consecutive_failures
BY DEF Release, RiskState

\* Every step is one or the other.
LEMMA LogStep ==
  ASSUME ExecTypeOK, [ExecNext]_execVars
  PROVE  \/ LogUnchanged
         \/ \E entry \in TradeLogEntry, success \in BOOLEAN :
              LogGrows(entry, success)
<1>0. /\ today \in Nat
      /\ risk \in RiskState
      /\ Rolled \in RiskState
  BY RolledType, ExecutorConstantsAreTyped DEF ExecTypeOK
<1>1. ASSUME NEW o \in Opportunities, Decline(o) \/ HandleMonitor(o)
      PROVE  LogUnchanged
  BY <1>1 DEF Decline, HandleMonitor, LogUnchanged
<1>2. ASSUME NEW o \in Opportunities, Skip(o)
      PROVE  LogUnchanged
  BY <1>0, <1>2, ReleaseUndoesCommit DEF Skip, LogUnchanged
<1>3. ASSUME NEW o \in Opportunities, NEW pnl \in Profits, PaperFill(o, pnl)
      PROVE  \E entry \in TradeLogEntry, success \in BOOLEAN : LogGrows(entry, success)
  <2> DEFINE entry == [opportunity |-> o, mode |-> "paper", pnl_usd |-> pnl,
                       note |-> "", day |-> today, executed |-> {}]
             c == Commit(Rolled, o)
             success == TRUE
             r == RecordResult(c, today, o, pnl, success)
  <2>1. pnl \in Nat
    BY ExecutorConstantsAreTyped
  <2>2. entry \in TradeLogEntry
    BY <1>0 DEF TradeLogEntry
  <2>3. /\ c \in RiskState
        /\ c.current_day = today
        /\ c.daily_pnl_usd = Rolled.daily_pnl_usd
        /\ c.daily_trade_count = Rolled.daily_trade_count
        /\ c.consecutive_failures = Rolled.consecutive_failures
    BY <1>0, CommitType, CommitFields, RolledFields
  <2> HIDE DEF c
  <2>4. RollDayIfNeeded(c, today) = c
    BY <2>3 DEF RollDayIfNeeded
  <2>5. success \in BOOLEAN
    OBVIOUS
  <2>6. risk' = r /\ trade_log' = Append(trade_log, entry) /\ today' = today
    BY <1>3 DEF PaperFill, c
  <2>7. entry.day = today /\ entry.pnl_usd = pnl
    OBVIOUS
  <2>8. Rolled.daily_pnl_usd \in Int
    BY <1>0 DEF RiskState
  <2> HIDE DEF success, entry
  <2>9. /\ r.current_day = today
        /\ r.daily_pnl_usd = Rolled.daily_pnl_usd + pnl
        /\ r.daily_trade_count = Rolled.daily_trade_count + 1
        /\ r.consecutive_failures =
             IF success THEN 0 ELSE Rolled.consecutive_failures + 1
    <3> DEFINE rolled == RollDayIfNeeded(c, today)
    <3>1. /\ r.current_day = rolled.current_day
          /\ r.daily_pnl_usd = rolled.daily_pnl_usd + pnl
          /\ r.daily_trade_count = rolled.daily_trade_count + 1
          /\ r.consecutive_failures =
               IF success THEN 0 ELSE rolled.consecutive_failures + 1
      <4>1. /\ today \in Nat /\ c \in RiskState /\ o \in Opportunities
            /\ pnl \in Nat /\ success \in BOOLEAN
        BY <1>0, <2>1, <2>3, <2>5
      <4> QED
        BY <4>1, RecordResultFields
    <3> HIDE DEF r
    <3> QED
      BY <2>3, <2>4, <3>1
  <2> HIDE DEF r
  <2>10. LogGrows(entry, success)
    BY <2>1, <2>6, <2>7, <2>8, <2>9 DEF LogGrows, success
  <2> QED
    BY <2>2, <2>5, <2>10
<1>4. ASSUME NEW o \in Opportunities, NEW pnl \in Profits, LiveFire(o, pnl)
      PROVE  LogUnchanged
  BY <1>4 DEF LiveFire, LogUnchanged
<1>5. CASE FinishLive
  <2> DEFINE o == inflight.opportunity
             success == AllOk(legs)
             pnl == IF success THEN inflight.pnl ELSE 0
             entry == [opportunity |-> o, mode |-> "live",
                       pnl_usd |-> IF success THEN pnl ELSE None,
                       note |-> IF success THEN "" ELSE PartialNote,
                       day |-> today, executed |-> executed]
             r == RecordResult(risk, today, o, pnl, success)
  <2>1. /\ o \in Opportunities /\ inflight.pnl \in Profits /\ pnl \in Nat
        /\ success => pnl \in Profits
    BY <1>5, ExecutorConstantsAreTyped DEF FinishLive, ExecTypeOK, LiveTrade
  <2>2. success \in BOOLEAN
    BY DEF AllOk
  <2>3. executed \in SUBSET Nat
    <3>1. LegIndices(o) \subseteq Nat
      BY <2>1, OpportunityFields DEF LegIndices
    <3> QED
      BY <1>5, <3>1 DEF FinishLive, ExecTypeOK
  <2>4. entry \in TradeLogEntry
    BY <1>0, <2>1, <2>3 DEF TradeLogEntry
  <2>5. /\ r.current_day = today
        /\ r.daily_pnl_usd = Rolled.daily_pnl_usd + pnl
        /\ r.daily_trade_count = Rolled.daily_trade_count + 1
        /\ r.consecutive_failures =
             IF success THEN 0 ELSE Rolled.consecutive_failures + 1
    BY <1>0, <2>1, <2>2, RecordResultFields, RolledFields DEF Rolled
  <2>6. risk' = r /\ trade_log' = Append(trade_log, entry) /\ today' = today
    BY <1>5 DEF FinishLive
  <2>7. /\ entry.day = today
        /\ success => entry.pnl_usd = pnl
        /\ ~success => entry.pnl_usd = None /\ pnl = 0
    OBVIOUS
  <2>8. Rolled.daily_pnl_usd \in Int
    BY <1>0 DEF RiskState
  <2> HIDE DEF r, entry, success, pnl
  <2>9. LogGrows(entry, success)
    BY <2>1, <2>2, <2>5, <2>6, <2>7, <2>8 DEF LogGrows
  <2> QED
    BY <2>2, <2>4, <2>9
<1>6. CASE Interrupt
  BY <1>6 DEF Interrupt, LogUnchanged
<1>7. ASSUME \/ UNCHANGED <<today, risk, trade_log>>
             \/ NewDay
      PROVE  LogUnchanged
  BY <1>7 DEF LogUnchanged, NewDay
<1>8. ASSUME NEW connected \in SUBSET Venues, StartLegs(connected)
      PROVE  UNCHANGED <<today, risk, trade_log>>
  BY <1>8 DEF StartLegs
<1>9. ASSUME NEW i \in DOMAIN legs, LegFills(i) \/ LegFails(i)
      PROVE  UNCHANGED <<today, risk, trade_log>>
  BY <1>9 DEF LegFills, LegFails
<1>10. ASSUME NEW m \in Modes, SetMode(m)
       PROVE  UNCHANGED <<today, risk, trade_log>>
  BY <1>10 DEF SetMode
<1>11. ASSUME NEW on \in BOOLEAN, SetEmergencyStop(on)
       PROVE  UNCHANGED <<today, risk, trade_log>>
  BY <1>11 DEF SetEmergencyStop
<1>12. ASSUME NEW trades \in TradeLimits, NEW loss \in LossLimits,
              UpdateRiskLimits(trades, loss)
       PROVE  UNCHANGED <<today, risk, trade_log>>
  BY <1>12 DEF UpdateRiskLimits
<1>13. UNCHANGED execVars => UNCHANGED <<today, risk, trade_log>>
  BY DEF execVars
<1> QED
  BY <1>1, <1>2, <1>3, <1>4, <1>5, <1>6, <1>7, <1>8, <1>9, <1>10, <1>11,
     <1>12, <1>13
  DEF ExecNext, Handle

\* A step that logs nothing leaves the counters, or rolls them.
LEMMA UnloggedCounters ==
  ASSUME ExecTypeOK, LogUnchanged
  PROVE  /\ risk'.consecutive_failures = risk.consecutive_failures
         /\ \/ /\ risk'.current_day = risk.current_day
               /\ risk'.daily_pnl_usd = risk.daily_pnl_usd
               /\ risk'.daily_trade_count = risk.daily_trade_count
            \/ /\ risk.current_day # today
               /\ risk'.current_day = today
               /\ risk'.daily_pnl_usd = 0
               /\ risk'.daily_trade_count = 0
<1>1. risk \in RiskState /\ Rolled \in RiskState
  BY RolledType DEF ExecTypeOK
<1>2. CASE risk' = risk
  BY <1>2
<1>3. CASE inflight # None /\ risk' = Release(risk, inflight.opportunity)
  <2>1. inflight.opportunity \in Opportunities
    BY <1>3 DEF ExecTypeOK, LiveTrade
  <2> QED
    BY <1>1, <1>3, <2>1, ReleaseFields
<1>4. CASE risk' = Rolled
  BY <1>4, RolledFields
<1>5. ASSUME NEW o \in Opportunities, risk' = Commit(Rolled, o)
      PROVE  /\ risk'.current_day = Rolled.current_day
             /\ risk'.daily_pnl_usd = Rolled.daily_pnl_usd
             /\ risk'.daily_trade_count = Rolled.daily_trade_count
             /\ risk'.consecutive_failures = Rolled.consecutive_failures
  BY <1>1, <1>5, CommitFields
<1> QED
  BY <1>2, <1>3, <1>4, <1>5, RolledFields DEF LogUnchanged

LEMMA EntryDay == \A entry \in TradeLogEntry : entry.day \in Nat
BY DEF TradeLogEntry

LEMMA DaysStep ==
  ExecTypeOK /\ DaysInOrder /\ [ExecNext]_execVars => DaysInOrder'
<1> SUFFICES ASSUME ExecTypeOK, DaysInOrder, [ExecNext]_execVars
             PROVE  DaysInOrder'
  OBVIOUS
<1>0. /\ today \in Nat
      /\ risk.current_day \in Nat
      /\ trade_log \in Seq(TradeLogEntry)
      /\ \A entry \in TradeLogEntry : entry.day \in Nat
  BY EntryDay, ExecutorConstantsAreTyped DEF ExecTypeOK, RiskState
<1>1. CASE LogUnchanged
  BY <1>0, <1>1, UnloggedCounters DEF DaysInOrder, LogUnchanged
<1>2. ASSUME NEW entry \in TradeLogEntry, NEW success \in BOOLEAN,
             LogGrows(entry, success)
      PROVE  DaysInOrder'
  <2>1. /\ trade_log' = Append(trade_log, entry)
        /\ entry.day = today
        /\ today' = today
        /\ risk'.current_day = today
    BY <1>2 DEF LogGrows
  <2>2. \A n \in DOMAIN trade_log' : trade_log'[n].day <= today
    BY <1>0, <2>1 DEF DaysInOrder
  <2> QED
    BY <1>0, <2>1, <2>2 DEF DaysInOrder
<1> QED
  BY <1>1, <1>2, LogStep

\* What has been logged on one day is a finite set; one more entry of that
\* day makes it one larger.
LEMMA TradesOfAppend ==
  ASSUME trade_log \in Seq(TradeLogEntry), NEW entry \in TradeLogEntry,
         NEW day, entry.day = day,
         trade_log' = Append(trade_log, entry)
  PROVE  Cardinality(TradesOf(day)') = Cardinality(TradesOf(day)) + 1
<1>1. TradesOf(day)' = TradesOf(day) \cup {Len(trade_log) + 1}
  BY DEF TradesOf
<1>2. Len(trade_log) + 1 \notin TradesOf(day)
  BY DEF TradesOf
<1>3. IsFiniteSet(1..Len(trade_log))
  BY FS_Interval
<1>4. IsFiniteSet(TradesOf(day))
  BY <1>3, FS_Subset DEF TradesOf
<1> QED
  BY <1>1, <1>2, <1>4, FS_AddElement

\* Until the day is rolled, nothing is logged of the new one.
LEMMA NothingLoggedYet ==
  ASSUME ExecTypeOK, DaysInOrder, risk.current_day # today
  PROVE  TradesOf(today) = {}
<1>1. /\ today \in Nat
      /\ risk.current_day \in Nat
      /\ trade_log \in Seq(TradeLogEntry)
      /\ \A entry \in TradeLogEntry : entry.day \in Nat
  BY EntryDay, ExecutorConstantsAreTyped DEF ExecTypeOK, RiskState
<1>2. \A n \in DOMAIN trade_log : trade_log[n].day \in Nat
  BY <1>1
<1>3. \A n \in DOMAIN trade_log : trade_log[n].day < today
  BY <1>1, <1>2 DEF DaysInOrder
<1> QED
  BY <1>1, <1>3 DEF TradesOf

LEMMA CountStep ==
  ExecTypeOK /\ DaysInOrder /\ CountMatchesLog /\ [ExecNext]_execVars
    => CountMatchesLog'
<1> SUFFICES ASSUME ExecTypeOK, DaysInOrder, CountMatchesLog,
                    [ExecNext]_execVars
             PROVE  CountMatchesLog'
  OBVIOUS
<1>0. /\ today \in Nat
      /\ risk.current_day \in Nat
      /\ trade_log \in Seq(TradeLogEntry)
      /\ \A entry \in TradeLogEntry : entry.day \in Nat
  BY EntryDay, ExecutorConstantsAreTyped DEF ExecTypeOK, RiskState
<1>1. ASSUME risk.current_day # today
      PROVE  TradesOf(today) = {}
  BY <1>1, NothingLoggedYet
<1>2. Cardinality({}) = 0
  BY FS_EmptySet
<1>3. CASE LogUnchanged
  <2>1. trade_log' = trade_log
    BY <1>3 DEF LogUnchanged
  <2>2. \A day : TradesOf(day)' = TradesOf(day)
    BY <2>1 DEF TradesOf
  <2>3. CASE /\ risk'.current_day = risk.current_day
             /\ risk'.daily_trade_count = risk.daily_trade_count
    BY <2>1, <2>3 DEF CountMatchesLog, TradesOf
  <2>4. CASE /\ risk.current_day # today
             /\ risk'.current_day = today
             /\ risk'.daily_trade_count = 0
    BY <1>1, <1>2, <2>1, <2>4 DEF CountMatchesLog, TradesOf
  <2> QED
    BY <1>3, <2>3, <2>4, UnloggedCounters
<1>4. ASSUME NEW entry \in TradeLogEntry, NEW success \in BOOLEAN,
             LogGrows(entry, success)
      PROVE  CountMatchesLog'
  <2>1. /\ trade_log' = Append(trade_log, entry)
        /\ entry.day = today
        /\ risk'.current_day = today
        /\ risk'.daily_trade_count = Rolled.daily_trade_count + 1
    BY <1>4 DEF LogGrows
  <2>2. Rolled.daily_trade_count = Cardinality(TradesOf(today))
    <3>1. CASE risk.current_day = today
      BY <3>1, RolledFields DEF CountMatchesLog
    <3>2. CASE risk.current_day # today
      BY <1>1, <1>2, <3>2, RolledFields
    <3> QED
      BY <3>1, <3>2
  <2>3. PICK day \in Nat : day = today
    BY <1>0
  <2>4. Cardinality(TradesOf(day)') = Cardinality(TradesOf(day)) + 1
    BY <1>0, <2>1, <2>3, TradesOfAppend
  <2> QED
    BY <2>1, <2>2, <2>3, <2>4 DEF CountMatchesLog, TradesOf
<1> QED
  BY <1>3, <1>4, LogStep

LEMMA StreakStep ==
  ExecTypeOK /\ StreakMatchesLog /\ [ExecNext]_execVars => StreakMatchesLog'
<1> SUFFICES ASSUME ExecTypeOK, StreakMatchesLog, [ExecNext]_execVars
             PROVE  StreakMatchesLog'
  OBVIOUS
<1>0. /\ risk.consecutive_failures \in Nat
      /\ trade_log \in Seq(TradeLogEntry)
      /\ None \notin Nat
  BY ExecutorConstantsAreTyped DEF ExecTypeOK, RiskState
<1>1. CASE LogUnchanged
  <2>1. /\ trade_log' = trade_log
        /\ risk'.consecutive_failures = risk.consecutive_failures
    BY <1>1, UnloggedCounters DEF LogUnchanged
  <2> QED
    BY <2>1 DEF StreakMatchesLog
<1>2. ASSUME NEW entry \in TradeLogEntry, NEW success \in BOOLEAN,
             LogGrows(entry, success)
      PROVE  StreakMatchesLog'
  <2>1. /\ trade_log' = Append(trade_log, entry)
        /\ success => entry.pnl_usd \in Nat
        /\ ~success => entry.pnl_usd = None
        /\ risk'.consecutive_failures =
             IF success THEN 0 ELSE risk.consecutive_failures + 1
    BY <1>2, RolledFields, ExecutorConstantsAreTyped DEF LogGrows
  <2>2. /\ Len(trade_log') = Len(trade_log) + 1
        /\ trade_log'[Len(trade_log) + 1] = entry
        /\ \A n \in 1..Len(trade_log) : trade_log'[n] = trade_log[n]
    BY <1>0, <2>1
  <2>3. Len(trade_log) \in Nat
    BY <1>0
  <2>4. CASE success
    BY <1>0, <2>1, <2>2, <2>3, <2>4 DEF StreakMatchesLog
  <2>5. CASE ~success
    <3> DEFINE n == Len(trade_log)
               k == risk.consecutive_failures
    <3>1. /\ k <= n
          /\ \A j \in (n - k + 1)..n : trade_log[j].pnl_usd = None
          /\ k < n => trade_log[n - k].pnl_usd # None
      BY DEF StreakMatchesLog
    <3>2. /\ Len(trade_log') = n + 1
          /\ risk'.consecutive_failures = k + 1
      BY <2>1, <2>2, <2>5
    <3>3. /\ trade_log'[n + 1].pnl_usd = None
          /\ \A j \in 1..n : trade_log'[j] = trade_log[j]
      BY <2>1, <2>2, <2>5
    <3>4. n \in Nat /\ k \in Nat
      BY <1>0, <2>3
    <3> HIDE DEF n, k
    <3>5. \A j \in (n - k + 1)..(n + 1) : trade_log'[j].pnl_usd = None
      BY <3>1, <3>3, <3>4
    <3>6. k < n => trade_log'[n - k].pnl_usd # None
      BY <3>1, <3>3, <3>4
    <3>7. /\ (n + 1) - (k + 1) + 1 = n - k + 1
          /\ (n + 1) - (k + 1) = n - k
          /\ k + 1 <= n + 1
          /\ k + 1 < n + 1 => k < n
      BY <3>1, <3>4
    <3> QED
      BY <3>2, <3>5, <3>6, <3>7 DEF StreakMatchesLog
  <2> QED
    BY <2>4, <2>5
<1> QED
  BY <1>1, <1>2, LogStep

LEMMA NoLossStep ==
  ExecTypeOK /\ NoLossBooked /\ [ExecNext]_execVars => NoLossBooked'
<1> SUFFICES ASSUME ExecTypeOK, NoLossBooked, [ExecNext]_execVars
             PROVE  NoLossBooked'
  OBVIOUS
<1>1. CASE LogUnchanged
  BY <1>1, UnloggedCounters DEF NoLossBooked
<1>2. ASSUME NEW entry \in TradeLogEntry, NEW success \in BOOLEAN,
             LogGrows(entry, success)
      PROVE  NoLossBooked'
  <2>1. success => entry.pnl_usd \in Nat
    BY <1>2, NoneIsNothingElse DEF LogGrows
  <2>2. Rolled.daily_pnl_usd >= 0 /\ Rolled.daily_pnl_usd \in Int
    BY RolledFields, RolledType DEF NoLossBooked, RiskState
  <2>3. risk'.daily_pnl_usd = IF success THEN Rolled.daily_pnl_usd + entry.pnl_usd
                              ELSE Rolled.daily_pnl_usd
    BY <1>2 DEF LogGrows
  <2> QED
    BY <2>1, <2>2, <2>3 DEF NoLossBooked
<1> QED
  BY <1>1, <1>2, LogStep

LEMMA ProfitMatchesStep ==
  ExecTypeOK /\ DaysInOrder /\ NoLossBooked /\ ProfitMatchesLog /\ [ExecNext]_execVars
    => ProfitMatchesLog'
<1> SUFFICES ASSUME ExecTypeOK, DaysInOrder, NoLossBooked, ProfitMatchesLog,
                    [ExecNext]_execVars
             PROVE  ProfitMatchesLog'
  OBVIOUS
<1>0. trade_log \in Seq(TradeLogEntry)
  BY DEF ExecTypeOK
<1>1. CASE LogUnchanged
  <2>1. /\ trade_log' = trade_log
        /\ \A day : TradesOf(day)' = TradesOf(day)
    BY <1>1 DEF LogUnchanged, TradesOf
  <2>2. CASE /\ risk'.current_day = risk.current_day
             /\ risk'.daily_pnl_usd = risk.daily_pnl_usd
    BY <2>1, <2>2 DEF ProfitMatchesLog, TradesOf
  <2>3. CASE /\ risk.current_day # today
             /\ risk'.current_day = today
             /\ risk'.daily_pnl_usd = 0
    BY <2>1, <2>3, NothingLoggedYet DEF ProfitMatchesLog, TradesOf
  <2> QED
    BY <1>1, <2>2, <2>3, UnloggedCounters
<1>2. ASSUME NEW entry \in TradeLogEntry, NEW success \in BOOLEAN,
             LogGrows(entry, success)
      PROVE  ProfitMatchesLog'
  <2>1. /\ trade_log' = Append(trade_log, entry)
        /\ entry.day = today
        /\ risk'.current_day = today
        /\ success => entry.pnl_usd \in Nat \ {0} /\ entry.pnl_usd # None
        /\ ~success => entry.pnl_usd = None
        /\ risk'.daily_pnl_usd =
             IF success THEN Rolled.daily_pnl_usd + entry.pnl_usd ELSE Rolled.daily_pnl_usd
    BY <1>2, NoneIsNothingElse, ExecutorConstantsAreTyped DEF LogGrows
  <2>2. Rolled.daily_pnl_usd >= 0 /\ Rolled.daily_pnl_usd \in Int
    BY RolledFields, RolledType DEF NoLossBooked, RiskState
  <2>3. Rolled.daily_pnl_usd > 0 <=>
          \E n \in TradesOf(today) : trade_log[n].pnl_usd # None
    BY RolledFields, NothingLoggedYet DEF ProfitMatchesLog
  <2>4. /\ TradesOf(today)' = TradesOf(today) \cup {Len(trade_log) + 1}
        /\ trade_log'[Len(trade_log) + 1] = entry
        /\ \A n \in TradesOf(today) : trade_log'[n] = trade_log[n]
    BY <1>0, <1>2, <2>1 DEF TradesOf, LogGrows
  <2>5. risk'.daily_pnl_usd > 0 <=>
          \E n \in TradesOf(today)' : trade_log'[n].pnl_usd # None
    <3>1. (\E n \in TradesOf(today)' : trade_log'[n].pnl_usd # None)
            <=> success \/ \E n \in TradesOf(today) : trade_log[n].pnl_usd # None
      BY <2>1, <2>4
    <3>2. risk'.daily_pnl_usd > 0 <=> success \/ Rolled.daily_pnl_usd > 0
      BY <2>1, <2>2
    <3> QED
      BY <2>3, <3>1, <3>2
  <2>6. TradesOf(risk.current_day)' = TradesOf(today)'
    BY <1>2, <2>1 DEF TradesOf, LogGrows
  <2> QED
    BY <2>5, <2>6 DEF ProfitMatchesLog
<1> QED
  BY <1>1, <1>2, LogStep
-----------------------------------------------------------------------------
(***************************************************************************)
(* What happens between the gather of a live trade and its entry in the    *)
(* log.                                                                    *)
(***************************************************************************)

\* A live trade is started, goes on, or is over; where it goes on, the
\* manager's fields stay what they were.
LEMMA InFlightStep ==
  ASSUME ExecTypeOK, [ExecNext]_execVars
  PROVE  \/ inflight' = None
         \/ /\ inflight = None
            /\ \E o \in Opportunities, pnl \in Profits : LiveFire(o, pnl)
         \/ UNCHANGED <<risk, inflight>>
<1>1. ASSUME NEW o \in Opportunities, Handle(o)
      PROVE  \/ inflight' = None
             \/ /\ inflight = None
                /\ \E pnl \in Profits : LiveFire(o, pnl)
  BY <1>1 DEF Handle, Decline, HandleMonitor, Skip, PaperFill, LiveFire, Idle
<1>2. FinishLive \/ Interrupt => inflight' = None
  BY DEF FinishLive, Interrupt
<1>3. ASSUME NEW connected \in SUBSET Venues, StartLegs(connected)
      PROVE  UNCHANGED <<risk, inflight>>
  BY <1>3 DEF StartLegs
<1>4. ASSUME NEW i \in DOMAIN legs, LegFills(i) \/ LegFails(i)
      PROVE  UNCHANGED <<risk, inflight>>
  BY <1>4 DEF LegFills, LegFails
<1>5. ASSUME NEW m \in Modes, SetMode(m)
      PROVE  UNCHANGED <<risk, inflight>>
  BY <1>5 DEF SetMode
<1>6. ASSUME NEW on \in BOOLEAN, SetEmergencyStop(on)
      PROVE  UNCHANGED <<risk, inflight>>
  BY <1>6 DEF SetEmergencyStop
<1>7. ASSUME NEW trades \in TradeLimits, NEW loss \in LossLimits,
             UpdateRiskLimits(trades, loss)
      PROVE  UNCHANGED <<risk, inflight>>
  BY <1>7 DEF UpdateRiskLimits
<1>8. NewDay \/ UNCHANGED execVars => UNCHANGED <<risk, inflight>>
  BY DEF NewDay, execVars
<1> QED
  BY <1>1, <1>2, <1>3, <1>4, <1>5, <1>6, <1>7, <1>8 DEF ExecNext

LEMMA StreakLimitStep ==
  ExecTypeOK /\ InFlightUnderStreakLimit /\ [ExecNext]_execVars
    => InFlightUnderStreakLimit'
<1> SUFFICES ASSUME ExecTypeOK, InFlightUnderStreakLimit,
                    [ExecNext]_execVars, inflight' # None
             PROVE  risk'.consecutive_failures < MaxConsecutiveFailures
  BY DEF InFlightUnderStreakLimit
<1>1. ASSUME NEW o \in Opportunities, NEW pnl \in Profits, LiveFire(o, pnl)
      PROVE  risk'.consecutive_failures < MaxConsecutiveFailures
  <2>1. Rolled.consecutive_failures < MaxConsecutiveFailures
    BY <1>1 DEF LiveFire, Admitted, CanTrade, BreakersAllow
  <2>2. risk' = Commit(Rolled, o)
    BY <1>1 DEF LiveFire
  <2> QED
    BY <2>1, <2>2, RolledType, CommitFields
<1>2. CASE UNCHANGED <<risk, inflight>>
  BY <1>2 DEF InFlightUnderStreakLimit
<1> QED
  BY <1>1, <1>2, InFlightStep

\* The legs of a trade in flight, and what of them executed.
LEMMA FillsStep ==
  ExecTypeOK /\ FillsExecuted /\ [ExecNext]_execVars => FillsExecuted'
<1> SUFFICES ASSUME ExecTypeOK, FillsExecuted, [ExecNext]_execVars,
                    inflight' # None
             PROVE  \A i \in DOMAIN legs' : legs'[i] = "ok" => i \in executed'
  BY DEF FillsExecuted, Successes
<1>2. ASSUME NEW connected \in SUBSET Venues, StartLegs(connected)
      PROVE  \A i \in DOMAIN legs' : legs'[i] # "ok"
  BY <1>2 DEF StartLegs
<1>3. ASSUME NEW j \in DOMAIN legs, LegFills(j) \/ LegFails(j)
      PROVE  \A i \in DOMAIN legs' : legs'[i] = "ok" => i \in executed'
  <2>1. inflight # None /\ legs \in [LegIndices(inflight.opportunity) -> LegStates]
    BY <1>3 DEF LegFills, LegFails, ExecTypeOK
  <2>2. \A i \in DOMAIN legs : legs[i] = "ok" => i \in executed
    BY <2>1 DEF FillsExecuted, Successes
  <2>3. executed \subseteq executed'
    BY <1>3 DEF LegFills, LegFails
  <2>4. CASE LegFills(j)
    BY <2>1, <2>2, <2>4 DEF LegFills
  <2>5. CASE LegFails(j)
    BY <2>1, <2>2, <2>3, <2>5 DEF LegFails
  <2> QED
    BY <1>3, <2>4, <2>5
<1>4. ASSUME UNCHANGED <<inflight, legs, executed>>
      PROVE  \A i \in DOMAIN legs' : legs'[i] = "ok" => i \in executed'
  BY <1>4 DEF FillsExecuted, Successes
<1>5. ASSUME NEW o \in Opportunities,
             Handle(o)
      PROVE  \/ UNCHANGED <<inflight, legs, executed>>
             \/ \E pnl \in Profits : LiveFire(o, pnl)
  BY <1>5 DEF Handle, Decline, HandleMonitor, Skip, PaperFill
<1>6. ASSUME NEW o \in Opportunities, NEW pnl \in Profits, LiveFire(o, pnl)
      PROVE  \A i \in DOMAIN legs' : legs'[i] # "ok"
  BY <1>6 DEF LiveFire
<1>7. ASSUME NEW m \in Modes, SetMode(m)
      PROVE  UNCHANGED <<inflight, legs, executed>>
  BY <1>7 DEF SetMode
<1>8. ASSUME NEW on \in BOOLEAN, SetEmergencyStop(on)
      PROVE  UNCHANGED <<inflight, legs, executed>>
  BY <1>8 DEF SetEmergencyStop
<1>9. ASSUME NEW trades \in TradeLimits, NEW loss \in LossLimits,
             UpdateRiskLimits(trades, loss)
      PROVE  UNCHANGED <<inflight, legs, executed>>
  BY <1>9 DEF UpdateRiskLimits
<1>10. NewDay \/ UNCHANGED execVars => UNCHANGED <<inflight, legs, executed>>
  BY DEF NewDay, execVars
<1>11. FinishLive \/ Interrupt => inflight' = None
  BY DEF FinishLive, Interrupt
<1> QED
  BY <1>2, <1>3, <1>4, <1>5, <1>6, <1>7, <1>8, <1>9, <1>10, <1>11 DEF ExecNext

\* The steps that log, and what they log; every other step leaves the log
\* and the incidents alone.
LEMMA LoggingSteps ==
  ASSUME [ExecNext]_execVars
  PROVE  \/ UNCHANGED <<trade_log, open_incidents>>
         \/ /\ open_incidents' = open_incidents
            /\ \E entry : /\ entry.mode = "paper"
                          /\ trade_log' = Append(trade_log, entry)
         \/ FinishLive
<1>1. ASSUME NEW o \in Opportunities, NEW pnl \in Profits, PaperFill(o, pnl)
      PROVE  /\ open_incidents' = open_incidents
             /\ \E entry : /\ entry.mode = "paper"
                           /\ trade_log' = Append(trade_log, entry)
  <2> DEFINE entry == [opportunity |-> o, mode |-> "paper", pnl_usd |-> pnl,
                       note |-> "", day |-> today, executed |-> {}]
  <2>1. entry.mode = "paper"
    OBVIOUS
  <2>2. trade_log' = Append(trade_log, entry) /\ open_incidents' = open_incidents
    BY <1>1 DEF PaperFill
  <2> HIDE DEF entry
  <2> QED
    BY <2>1, <2>2
<1>2. ASSUME NEW o \in Opportunities, NEW pnl \in Profits,
             \/ Decline(o) \/ HandleMonitor(o) \/ Skip(o) \/ LiveFire(o, pnl)
      PROVE  UNCHANGED <<trade_log, open_incidents>>
  BY <1>2 DEF Decline, HandleMonitor, Skip, LiveFire
<1>3. ASSUME NEW o \in Opportunities, Handle(o)
      PROVE  \/ UNCHANGED <<trade_log, open_incidents>>
             \/ \E pnl \in Profits : PaperFill(o, pnl)
  BY <1>3 DEF Handle, Decline, HandleMonitor, Skip, LiveFire
<1>4. ASSUME NEW connected \in SUBSET Venues, StartLegs(connected)
      PROVE  UNCHANGED <<trade_log, open_incidents>>
  BY <1>4 DEF StartLegs
<1>5. ASSUME NEW i \in DOMAIN legs, LegFills(i) \/ LegFails(i)
      PROVE  UNCHANGED <<trade_log, open_incidents>>
  BY <1>5 DEF LegFills, LegFails
<1>6. ASSUME NEW m \in Modes, SetMode(m)
      PROVE  UNCHANGED <<trade_log, open_incidents>>
  BY <1>6 DEF SetMode
<1>7. ASSUME NEW on \in BOOLEAN, SetEmergencyStop(on)
      PROVE  UNCHANGED <<trade_log, open_incidents>>
  BY <1>7 DEF SetEmergencyStop
<1>8. ASSUME NEW trades \in TradeLimits, NEW loss \in LossLimits,
             UpdateRiskLimits(trades, loss)
      PROVE  UNCHANGED <<trade_log, open_incidents>>
  BY <1>8 DEF UpdateRiskLimits
<1>9. NewDay \/ Interrupt \/ UNCHANGED execVars
        => UNCHANGED <<trade_log, open_incidents>>
  BY DEF NewDay, Interrupt, execVars
<1> QED
  BY <1>1, <1>3, <1>4, <1>5, <1>6, <1>7, <1>8, <1>9 DEF ExecNext

\* What FinishLive logs, and the incident it opens.
LEMMA FinishLiveLogs ==
  ASSUME ExecTypeOK, FillsExecuted, FinishLive
  PROVE  \E entry \in TradeLogEntry :
           /\ trade_log' = Append(trade_log, entry)
           /\ entry.pnl_usd # None => entry.executed = LegIndices(entry.opportunity)
           /\ OneSided(legs) => entry.note = PartialNote
           /\ entry.opportunity = inflight.opportunity
<1> DEFINE o == inflight.opportunity
           pnl == IF AllOk(legs) THEN inflight.pnl ELSE 0
           entry == [opportunity |-> o, mode |-> "live",
                     pnl_usd |-> IF AllOk(legs) THEN pnl ELSE None,
                     note |-> IF AllOk(legs) THEN "" ELSE PartialNote,
                     day |-> today, executed |-> executed]
<1>1. inflight # None /\ trade_log' = Append(trade_log, entry)
  BY DEF FinishLive
<1>2. /\ o \in Opportunities /\ inflight.pnl \in Profits
      /\ legs \in [LegIndices(o) -> LegStates]
      /\ executed \subseteq LegIndices(o)
      /\ today \in Nat
  <2>1. inflight \in LiveTrade
    BY <1>1 DEF ExecTypeOK
  <2>2. /\ legs \in [LegIndices(o) -> LegStates]
        /\ executed \subseteq LegIndices(o)
    BY <1>1 DEF ExecTypeOK
  <2>3. today \in Nat
    BY ExecutorConstantsAreTyped DEF ExecTypeOK
  <2> QED
    BY <2>1, <2>2, <2>3 DEF LiveTrade
<1>3. LegIndices(o) \subseteq Nat
  BY <1>2, OpportunityFields DEF LegIndices
<1>4. executed \in SUBSET Nat
  BY <1>2, <1>3
<1>5. entry \in TradeLogEntry
  BY <1>2, <1>4 DEF TradeLogEntry
<1>6. Successes(legs) \subseteq executed
  BY <1>1 DEF FillsExecuted
<1>7. AllOk(legs) => executed = LegIndices(o)
  BY <1>2, <1>6 DEF AllOk
<1>8. OneSided(legs) => ~AllOk(legs)
  BY DEF OneSided, AllOk
<1>9. /\ entry.pnl_usd # None => AllOk(legs)
      /\ ~AllOk(legs) => entry.note = PartialNote
      /\ entry.executed = executed
      /\ entry.opportunity = o
  OBVIOUS
<1> HIDE DEF entry
<1> QED
  BY <1>1, <1>5, <1>7, <1>8, <1>9

LEMMA ProfitStep ==
  ExecTypeOK /\ FillsExecuted /\ ProfitNeedsEveryLeg /\ [ExecNext]_execVars
    => ProfitNeedsEveryLeg'
<1> SUFFICES ASSUME ExecTypeOK, FillsExecuted, ProfitNeedsEveryLeg,
                    [ExecNext]_execVars
             PROVE  ProfitNeedsEveryLeg'
  OBVIOUS
<1>1. ASSUME NEW entry,
             trade_log' = Append(trade_log, entry),
             entry.mode = "live" /\ entry.pnl_usd # None =>
               entry.executed = LegIndices(entry.opportunity)
      PROVE  ProfitNeedsEveryLeg'
  <2>1. /\ DOMAIN trade_log' = DOMAIN trade_log \cup {Len(trade_log) + 1}
        /\ trade_log'[Len(trade_log) + 1] = entry
        /\ \A n \in DOMAIN trade_log : trade_log'[n] = trade_log[n]
    BY <1>1 DEF ExecTypeOK
  <2> QED
    BY <1>1, <2>1 DEF ProfitNeedsEveryLeg, LegIndices
<1>2. CASE trade_log' = trade_log
  BY <1>2 DEF ProfitNeedsEveryLeg, LegIndices
<1>3. CASE FinishLive
  BY <1>1, <1>3, FinishLiveLogs
<1> QED
  BY <1>1, <1>2, <1>3, LoggingSteps

\* Which steps touch the orders, the log, the incidents and the trade at its gather.
LEMMA AccountingSteps ==
  ASSUME [ExecNext]_execVars
  PROVE  \/ /\ UNCHANGED <<trade_log, open_incidents, orders>>
            /\ \/ UNCHANGED <<inflight, legs, alive>>
               \/ inflight = None /\ alive /\ Successes(legs') = {}
               \/ \E connected \in SUBSET Venues : StartLegs(connected)
               \/ inflight' = None /\ ~alive'
         \/ \E i \in DOMAIN legs : LegFills(i) \/ LegFails(i)
         \/ /\ Idle /\ UNCHANGED <<inflight, open_incidents, orders, alive>>
            /\ \E entry : trade_log' = Append(trade_log, entry)
         \/ FinishLive
<1>1. ASSUME NEW o \in Opportunities, NEW pnl \in Profits, LiveFire(o, pnl)
      PROVE  /\ UNCHANGED <<trade_log, open_incidents, orders>>
             /\ inflight = None /\ alive /\ Successes(legs') = {}
  <2>1. \A i \in DOMAIN legs' : legs'[i] # "ok"
    BY <1>1 DEF LiveFire
  <2> QED
    BY <1>1, <2>1 DEF LiveFire, Idle, Successes
<1>2. ASSUME NEW o \in Opportunities, NEW pnl \in Profits, PaperFill(o, pnl)
      PROVE  /\ Idle /\ UNCHANGED <<inflight, open_incidents, orders, alive>>
             /\ \E entry : trade_log' = Append(trade_log, entry)
  BY <1>2 DEF PaperFill
<1>3. ASSUME NEW o \in Opportunities, Decline(o) \/ HandleMonitor(o) \/ Skip(o)
      PROVE  UNCHANGED <<trade_log, open_incidents, orders, inflight, legs, alive>>
  BY <1>3 DEF Decline, HandleMonitor, Skip
<1>4. ASSUME NEW connected \in SUBSET Venues, StartLegs(connected)
      PROVE  UNCHANGED <<trade_log, open_incidents, orders>>
  BY <1>4 DEF StartLegs
<1>5. ASSUME NEW m \in Modes, SetMode(m)
      PROVE  UNCHANGED <<trade_log, open_incidents, orders, inflight, legs, alive>>
  BY <1>5 DEF SetMode
<1>6. ASSUME NEW on \in BOOLEAN, SetEmergencyStop(on)
      PROVE  UNCHANGED <<trade_log, open_incidents, orders, inflight, legs, alive>>
  BY <1>6 DEF SetEmergencyStop
<1>7. ASSUME NEW trades \in TradeLimits, NEW loss \in LossLimits,
             UpdateRiskLimits(trades, loss)
      PROVE  UNCHANGED <<trade_log, open_incidents, orders, inflight, legs, alive>>
  BY <1>7 DEF UpdateRiskLimits
<1>8. NewDay \/ UNCHANGED execVars
        => UNCHANGED <<trade_log, open_incidents, orders, inflight, legs, alive>>
  BY DEF NewDay, execVars
<1>9. Interrupt => /\ UNCHANGED <<trade_log, open_incidents, orders>>
                   /\ inflight' = None /\ ~alive'
  BY DEF Interrupt
<1> QED
  BY <1>1, <1>2, <1>3, <1>4, <1>5, <1>6, <1>7, <1>8, <1>9 DEF ExecNext, Handle

\* A leg's answer adds to the orders of the trade at its gather, a fill only if that
\* is the answer.
LEMMA AnswerIsRecorded ==
  ASSUME ExecTypeOK, NEW i \in DOMAIN legs, LegFills(i) \/ LegFails(i)
  PROVE  /\ \A order \in orders' : order \in orders \/ order[1] = Len(trade_log) + 1
         /\ \A n \in DOMAIN trade_log : FillsOf(n)' = FillsOf(n)
         /\ FillsOf(Len(trade_log) + 1) = Successes(legs)
              => FillsOf(Len(trade_log) + 1)' = Successes(legs')
         /\ inflight # None /\ UNCHANGED <<inflight, trade_log, open_incidents, alive>>
<1>1. PICK next \in Nat : next = Len(trade_log) + 1 /\ next \notin DOMAIN trade_log
  BY DEF ExecTypeOK
<1>2. /\ inflight # None /\ UNCHANGED <<inflight, trade_log, open_incidents, alive>>
      /\ legs[i] = "sent" /\ legs \in [LegIndices(inflight.opportunity) -> LegStates]
  BY DEF LegFills, LegFails, ExecTypeOK
<1>3. /\ FillsOf(Len(trade_log) + 1) = FillsOf(next)
      /\ FillsOf(Len(trade_log) + 1)' = FillsOf(next)'
  BY <1>1, <1>2 DEF FillsOf
<1>4. CASE LegFills(i)
  <2>1. /\ orders' = orders \cup {<<next, i, "filled">>}
        /\ legs' = [legs EXCEPT ![i] = "ok"]
    BY <1>1, <1>4 DEF LegFills, Order
  <2>2. Successes(legs') = Successes(legs) \cup {i}
    BY <1>2, <2>1 DEF Successes
  <2>3. FillsOf(next)' = FillsOf(next) \cup {i}
    <3> DEFINE fills(os) == {x \in os : x[1] = next /\ x[3] = "filled"}
               order == <<next, i, "filled">>
    <3>1. /\ FillsOf(next) = {x[2] : x \in fills(orders)}
          /\ FillsOf(next)' = {x[2] : x \in fills(orders')}
      BY DEF FillsOf
    <3>2. fills(orders') = fills(orders) \cup {order} /\ order[2] = i
      BY <2>1
    <3> HIDE DEF fills, order
    <3> QED
      BY <3>1, <3>2
  <2>4. \A n \in DOMAIN trade_log : FillsOf(n)' = FillsOf(n)
    BY <1>1, <2>1 DEF FillsOf
  <2>5. \A order \in orders' : order \in orders \/ order[1] = next
    BY <2>1
  <2> QED
    BY <1>1, <1>2, <1>3, <2>2, <2>3, <2>4, <2>5
<1>5. CASE LegFails(i)
  <2>1. /\ orders' = orders \/ orders' = orders \cup {<<next, i, "lost">>}
        /\ legs' = [legs EXCEPT ![i] = "error"]
    BY <1>1, <1>5 DEF LegFails, Order
  <2>2. Successes(legs') = Successes(legs)
    BY <1>2, <2>1 DEF Successes
  <2>3. \A n : FillsOf(n)' = FillsOf(n)
    BY <2>1 DEF FillsOf
  <2>4. \A order \in orders' : order \in orders \/ order[1] = next
    BY <2>1
  <2> QED
    BY <1>1, <1>2, <1>3, <2>2, <2>3, <2>4
<1> QED
  BY <1>4, <1>5

\* Between trades every executed order is of a logged one, so that the next trade
\* starts without fills.
LEMMA NextHasNoFills ==
  ASSUME ExecTypeOK, FillsAreAccounted, inflight = None, alive
  PROVE  /\ \A order \in orders : order[1] \in DOMAIN trade_log
         /\ FillsOf(Len(trade_log) + 1) = {}
<1>1. \A order \in orders : order[1] \in DOMAIN trade_log
  BY DEF FillsAreAccounted
<1>2. Len(trade_log) + 1 \notin DOMAIN trade_log
  BY DEF ExecTypeOK
<1> QED
  BY <1>1, <1>2 DEF FillsOf

LEMMA RecordedStep ==
  ExecTypeOK /\ FillsAreAccounted /\ FillsRecorded /\ [ExecNext]_execVars => FillsRecorded'
<1> SUFFICES ASSUME ExecTypeOK, FillsAreAccounted, FillsRecorded, [ExecNext]_execVars,
                    inflight' # None
             PROVE  FillsOf(Len(trade_log) + 1)' = Successes(legs')
  BY DEF FillsRecorded, Successes
<1>1. ASSUME UNCHANGED <<trade_log, orders>>
      PROVE  FillsOf(Len(trade_log) + 1)' = FillsOf(Len(trade_log) + 1)
  BY <1>1 DEF FillsOf
<1>2. CASE UNCHANGED <<trade_log, orders, inflight, legs>>
  BY <1>1, <1>2 DEF FillsRecorded, Successes
<1>3. CASE /\ UNCHANGED <<trade_log, orders>>
           /\ inflight = None /\ alive /\ Successes(legs') = {}
  BY <1>1, <1>3, NextHasNoFills
<1>4. ASSUME NEW connected \in SUBSET Venues, StartLegs(connected),
             UNCHANGED <<trade_log, orders>>
      PROVE  FillsOf(Len(trade_log) + 1)' = Successes(legs')
  <2>1. Successes(legs) = {} /\ Successes(legs') = {} /\ inflight # None
    BY <1>4 DEF StartLegs, Successes
  <2> QED
    BY <1>1, <1>4, <2>1 DEF FillsRecorded
<1>5. ASSUME NEW i \in DOMAIN legs, LegFills(i) \/ LegFails(i)
      PROVE  FillsOf(Len(trade_log) + 1)' = Successes(legs')
  <2>1. /\ inflight # None
        /\ FillsOf(Len(trade_log) + 1) = Successes(legs)
             => FillsOf(Len(trade_log) + 1)' = Successes(legs')
    BY <1>5, AnswerIsRecorded
  <2> QED
    BY <2>1 DEF FillsRecorded
<1>6. FinishLive => inflight' = None
  BY DEF FinishLive
<1> QED
  BY <1>2, <1>3, <1>4, <1>5, <1>6, AccountingSteps DEF Idle

\* The parts of the property, one by one.
OrdersAreOfTrades ==
  \A order \in orders :
    \/ order[1] \in DOMAIN trade_log
    \/ order[1] = Len(trade_log) + 1 /\ (inflight # None \/ ~alive)

IncidentsOf(n) == {k \in DOMAIN open_incidents : open_incidents[k].trade = n}

IncidentsMatch(n) ==
  IF FillsOf(n) = {} \/ FillsOf(n) = LegIndices(trade_log[n].opportunity) THEN IncidentsOf(n) = {}
  ELSE /\ \E k \in DOMAIN open_incidents :
            IncidentsOf(n) = {k} /\ open_incidents[k].filled = FillsOf(n)
       /\ trade_log[n].note = PartialNote

IncidentsAreLogged == \A k \in DOMAIN open_incidents : open_incidents[k].trade \in DOMAIN trade_log

LEMMA PartsOfAccounting ==
  FillsAreAccounted <=> /\ OrdersAreOfTrades
                        /\ \A n \in DOMAIN trade_log : IncidentsMatch(n)
                        /\ IncidentsAreLogged
  BY DEF FillsAreAccounted, OrdersAreOfTrades, IncidentsMatch, IncidentsOf, IncidentsAreLogged

LEMMA AccountingStep ==
  ExecTypeOK /\ FillsExecuted /\ FillsRecorded /\ FillsAreAccounted /\ [ExecNext]_execVars
    => FillsAreAccounted'
<1> SUFFICES ASSUME ExecTypeOK, FillsExecuted, FillsRecorded, FillsAreAccounted,
                    [ExecNext]_execVars
             PROVE  FillsAreAccounted'
  OBVIOUS
<1>0. /\ trade_log \in Seq(TradeLogEntry)
      /\ open_incidents \in Seq(Incident)
  BY DEF ExecTypeOK
<1>a. /\ OrdersAreOfTrades
      /\ \A n \in DOMAIN trade_log : IncidentsMatch(n)
      /\ IncidentsAreLogged
  BY PartsOfAccounting
<1>b. OrdersAreOfTrades' /\ (\A n \in DOMAIN trade_log' : IncidentsMatch(n)') /\ IncidentsAreLogged'
        => FillsAreAccounted'
  BY DEF FillsAreAccounted, OrdersAreOfTrades, IncidentsMatch, IncidentsOf, IncidentsAreLogged,
         LegIndices
<1>1. ASSUME NEW entry, trade_log' = Append(trade_log, entry)
      PROVE  /\ DOMAIN trade_log' = DOMAIN trade_log \cup {Len(trade_log) + 1}
             /\ trade_log'[Len(trade_log) + 1] = entry
             /\ \A n \in DOMAIN trade_log : trade_log'[n] = trade_log[n]
             /\ Len(trade_log) + 1 \notin DOMAIN trade_log
  BY <1>0, <1>1
<1>2. ASSUME UNCHANGED open_incidents, NEW n, FillsOf(n)' = FillsOf(n), IncidentsMatch(n),
             trade_log'[n] = trade_log[n]
      PROVE  IncidentsMatch(n)'
  <2>1. IncidentsOf(n)' = IncidentsOf(n)
    BY <1>2 DEF IncidentsOf
  <2> QED
    BY <1>2, <2>1 DEF IncidentsMatch, LegIndices
<1>3. CASE /\ UNCHANGED <<trade_log, open_incidents, orders>>
           /\ inflight # None \/ ~alive => inflight' # None \/ ~alive'
  <2>1. OrdersAreOfTrades' /\ IncidentsAreLogged'
    BY <1>a, <1>3 DEF OrdersAreOfTrades, IncidentsAreLogged
  <2>2. \A n : FillsOf(n)' = FillsOf(n)
    BY <1>3 DEF FillsOf
  <2> QED
    BY <1>a, <1>b, <1>2, <1>3, <2>1, <2>2
<1>4. ASSUME NEW i \in DOMAIN legs, LegFills(i) \/ LegFails(i)
      PROVE  FillsAreAccounted'
  <2>1. /\ \A order \in orders' : order \in orders \/ order[1] = Len(trade_log) + 1
        /\ \A n \in DOMAIN trade_log : FillsOf(n)' = FillsOf(n)
        /\ inflight # None /\ UNCHANGED <<inflight, trade_log, open_incidents, alive>>
    BY <1>4, AnswerIsRecorded
  <2>2. OrdersAreOfTrades' /\ IncidentsAreLogged'
    BY <1>a, <2>1 DEF OrdersAreOfTrades, IncidentsAreLogged
  <2> QED
    BY <1>a, <1>b, <1>2, <2>1, <2>2
<1>5. ASSUME Idle, UNCHANGED <<inflight, open_incidents, orders, alive>>,
             NEW entry, trade_log' = Append(trade_log, entry)
      PROVE  FillsAreAccounted'
  <2>1. /\ \A order \in orders : order[1] \in DOMAIN trade_log
        /\ FillsOf(Len(trade_log) + 1) = {}
    BY <1>5, NextHasNoFills DEF Idle
  <2>2. \A n : FillsOf(n)' = FillsOf(n)
    BY <1>5 DEF FillsOf
  <2>3. OrdersAreOfTrades' /\ IncidentsAreLogged'
    BY <1>a, <1>1, <1>5, <2>1 DEF OrdersAreOfTrades, IncidentsAreLogged
  <2>4. PICK next \in Nat : next = Len(trade_log) + 1
    BY <1>0
  <2>5. IncidentsMatch(next)'
    <3>1. \A k \in DOMAIN open_incidents : open_incidents[k].trade # next
      BY <1>a, <1>1, <1>5, <2>4 DEF IncidentsAreLogged
    <3>2. IncidentsOf(next)' = {}
      BY <1>5, <3>1 DEF IncidentsOf
    <3>3. FillsOf(next)' = {}
      BY <2>1, <2>2, <2>4
    <3> QED
      BY <3>2, <3>3 DEF IncidentsMatch
  <2>6. \A n \in DOMAIN trade_log' : IncidentsMatch(n)'
    BY <1>a, <1>1, <1>2, <1>5, <2>2, <2>4, <2>5
  <2> QED
    BY <1>b, <2>3, <2>6
<1>6. CASE FinishLive
  <2> DEFINE incident == [trade |-> Len(trade_log) + 1, filled |-> Successes(legs)]
  <2>1. /\ inflight # None /\ UNCHANGED <<orders, alive>>
        /\ open_incidents' = IF OneSided(legs) THEN Append(open_incidents, incident)
                             ELSE open_incidents
    BY <1>6 DEF FinishLive
  <2>2. PICK entry \in TradeLogEntry :
          /\ trade_log' = Append(trade_log, entry)
          /\ entry.opportunity = inflight.opportunity
          /\ OneSided(legs) => entry.note = PartialNote
    BY <1>6, FinishLiveLogs
  <2>3. PICK next \in Nat : next = Len(trade_log) + 1
    BY <1>0
  <2>4. /\ incident.trade = next /\ incident.filled = Successes(legs)
        /\ FillsOf(next) = Successes(legs)
    BY <2>1, <2>3 DEF FillsRecorded
  <2> HIDE DEF incident
  <2>5. \A n : FillsOf(n)' = FillsOf(n)
    BY <2>1 DEF FillsOf
  <2>6. OneSided(legs) <=> /\ FillsOf(next) # {}
                           /\ FillsOf(next) # LegIndices(inflight.opportunity)
    <3>1. DOMAIN legs = LegIndices(inflight.opportunity)
      BY <2>1 DEF ExecTypeOK
    <3> QED
      BY <2>4, <3>1 DEF OneSided
  <2>7. \A k \in DOMAIN open_incidents : open_incidents[k].trade # next
    BY <1>a, <1>1, <2>2, <2>3 DEF IncidentsAreLogged
  <2>8. /\ DOMAIN trade_log' = DOMAIN trade_log \cup {next} /\ next \notin DOMAIN trade_log
        /\ trade_log'[next] = entry
        /\ \A n \in DOMAIN trade_log : trade_log'[n] = trade_log[n]
    BY <1>1, <2>2, <2>3
  <2>9. OrdersAreOfTrades'
    BY <1>a, <2>1, <2>3, <2>8 DEF OrdersAreOfTrades
  <2>10. CASE ~OneSided(legs)
    <3>1. open_incidents' = open_incidents
      BY <2>1, <2>10
    <3>2. IncidentsOf(next)' = {}
      BY <2>7, <3>1 DEF IncidentsOf
    <3>3. IncidentsMatch(next)'
      BY <2>2, <2>5, <2>6, <2>8, <2>10, <3>2 DEF IncidentsMatch, LegIndices
    <3>4. \A n \in DOMAIN trade_log' : IncidentsMatch(n)'
      BY <1>a, <1>2, <2>5, <2>8, <3>1, <3>3
    <3>5. IncidentsAreLogged'
      BY <1>a, <2>8, <3>1 DEF IncidentsAreLogged
    <3> QED
      BY <1>b, <2>9, <3>4, <3>5
  <2>11. CASE OneSided(legs)
    <3>1. PICK last \in Nat : last = Len(open_incidents) + 1
      BY <1>0
    <3>2. /\ DOMAIN open_incidents' = DOMAIN open_incidents \cup {last}
          /\ last \notin DOMAIN open_incidents /\ open_incidents'[last] = incident
          /\ \A k \in DOMAIN open_incidents : open_incidents'[k] = open_incidents[k]
      BY <1>0, <2>1, <2>11, <3>1
    <3>3. IncidentsOf(next)' = {last}
      BY <2>4, <2>7, <3>2 DEF IncidentsOf
    <3>4. IncidentsMatch(next)'
      <4>1. open_incidents'[last].filled = FillsOf(next)' /\ last \in DOMAIN open_incidents'
        BY <2>4, <2>5, <3>2
      <4>2. trade_log'[next].note = PartialNote
        BY <2>2, <2>8, <2>11
      <4>3. FillsOf(next)' # {} /\ FillsOf(next)' # LegIndices(trade_log'[next].opportunity)
        BY <2>2, <2>5, <2>6, <2>8, <2>11
      <4> QED
        BY <3>3, <4>1, <4>2, <4>3 DEF IncidentsMatch, LegIndices
    <3>5. ASSUME NEW n \in DOMAIN trade_log
          PROVE  IncidentsMatch(n)'
      <4>1. IncidentsOf(n)' = IncidentsOf(n)
        BY <2>4, <2>8, <3>2 DEF IncidentsOf
      <4>2. trade_log'[n] = trade_log[n] /\ FillsOf(n)' = FillsOf(n) /\ IncidentsMatch(n)
        BY <1>a, <2>5, <2>8
      <4> QED
        BY <3>2, <4>1, <4>2 DEF IncidentsMatch, LegIndices
    <3>6. IncidentsAreLogged'
      BY <1>a, <2>4, <2>8, <3>2 DEF IncidentsAreLogged
    <3> QED
      BY <1>b, <2>8, <2>9, <3>4, <3>5, <3>6
  <2> QED
    BY <2>10, <2>11
<1> QED
  BY <1>3, <1>4, <1>5, <1>6, AccountingSteps DEF StartLegs
-----------------------------------------------------------------------------
(***************************************************************************)
(* The invariant, and what follows from it.                                *)
(***************************************************************************)

\* The conjunction the model checker visits state by state on a small
\* instance holds of every instance.
THEOREM ExecInvariant == ExecSpec => []ExecInv
<1>1. ExecInit => ExecInv
  <2> SUFFICES ASSUME ExecInit PROVE ExecInv
    OBVIOUS
  <2>1. ExecTypeOK
    BY ExecInitType
  <2>2. /\ trade_log = <<>>
        /\ open_incidents = <<>>
        /\ inflight = None
        /\ today = 0
        /\ risk = FreshRiskState(0)
    BY DEF ExecInit
  <2>3. /\ risk.current_day = 0
        /\ risk.daily_pnl_usd = 0
        /\ risk.daily_trade_count = 0
        /\ risk.consecutive_failures = 0
    BY <2>2 DEF FreshRiskState
  <2>4. CapitalMatchesInFlight
    BY <2>2, FreshIsClear, CapitalCases
  <2>5. DaysInOrder /\ StreakMatchesLog /\ NoLossBooked /\ ProfitMatchesLog
    BY <2>2, <2>3 DEF DaysInOrder, StreakMatchesLog, NoLossBooked, ProfitMatchesLog, TradesOf
  <2>6. CountMatchesLog
    <3>1. TradesOf(risk.current_day) = {}
      BY <2>2 DEF TradesOf
    <3> QED
      BY <2>3, <3>1, FS_EmptySet DEF CountMatchesLog
  <2>7. InFlightUnderStreakLimit /\ FillsExecuted /\ FillsRecorded
    BY <2>2 DEF InFlightUnderStreakLimit, FillsExecuted, FillsRecorded
  <2>8. ProfitNeedsEveryLeg /\ FillsAreAccounted
    <3>1. orders = {}
      BY DEF ExecInit
    <3> QED
      BY <2>2, <3>1 DEF ProfitNeedsEveryLeg, FillsAreAccounted
  <2> QED
    BY <2>1, <2>4, <2>5, <2>6, <2>7, <2>8 DEF ExecInv
<1>2. ExecInv /\ [ExecNext]_execVars => ExecInv'
  BY ExecNextType, CapitalStep, DaysStep, CountStep, StreakStep, StreakLimitStep,
     NoLossStep, ProfitMatchesStep, FillsStep, RecordedStep, ProfitStep, AccountingStep
  DEF ExecInv
<1> QED
  BY <1>1, <1>2, PTL DEF ExecSpec

\* The daily trade counter counts the log.
THEOREM CountIsTheLogs == ExecSpec => []CountMatchesLog
BY ExecInvariant, PTL DEF ExecInv

\* The failure streak is the log's.
THEOREM StreakIsTheLogs == ExecSpec => []StreakMatchesLog
BY ExecInvariant, PTL DEF ExecInv

\* Whatever limit an operator sets, the daily loss breaker never refuses a
\* trade.
THEOREM LossBreakerIsInert == ExecSpec => []LossBreakerNeverTrips
<1>1. ExecInv => LossBreakerNeverTrips
  <2> SUFFICES ASSUME ExecInv, limits.daily_loss_limit_usd # 0
               PROVE  risk.daily_pnl_usd > -Abs(limits.daily_loss_limit_usd)
    BY DEF LossBreakerNeverTrips
  <2>1. limits.daily_loss_limit_usd \in Int /\ risk.daily_pnl_usd \in Int
    BY DEF ExecInv, ExecTypeOK, RiskLimits, RiskState
  <2>2. risk.daily_pnl_usd >= 0
    BY DEF ExecInv, NoLossBooked
  <2> QED
    BY <2>1, <2>2 DEF Abs
<1> QED
  BY <1>1, ExecInvariant, PTL

\* A live profit stands for legs that all executed.
THEOREM LiveProfitIsReal == ExecSpec => []ProfitNeedsEveryLeg
BY ExecInvariant, PTL DEF ExecInv

\* No executed order is without its entry in the log, but those of a trade that a
\* cancellation cuts off at its gather; and the reconciler raises an alarm for
\* exactly the trades whose answers were one-sided, one for each.
THEOREM NoFillIsForgotten == ExecSpec => []FillsAreAccounted
BY ExecInvariant, PTL DEF ExecInv

\* A streak at its limit stops trading for good.
THEOREM StreakLimitIsFinal == ExecSpec => StreakLimitEndsTrading
<1> DEFINE Frozen == risk.consecutive_failures >= MaxConsecutiveFailures
                       => trade_log' = trade_log
<1>1. ExecInv /\ [ExecNext]_execVars => [Frozen]_execVars
  <2> SUFFICES ASSUME ExecInv, [ExecNext]_execVars,
                      risk.consecutive_failures >= MaxConsecutiveFailures
               PROVE  trade_log' = trade_log
    OBVIOUS
  <2>1. /\ ExecTypeOK
        /\ risk.consecutive_failures \in Nat
        /\ MaxConsecutiveFailures \in Nat
        /\ inflight = None
    BY CapsAreTyped DEF ExecInv, ExecTypeOK, RiskState, InFlightUnderStreakLimit
  <2>2. ~(Rolled.consecutive_failures < MaxConsecutiveFailures)
    BY <2>1, RolledFields
  <2>3. ASSUME NEW o \in Opportunities, NEW pnl \in Profits
        PROVE  ~PaperFill(o, pnl)
    <3>1. ~BreakersAllow(Rolled, limits)
      BY <2>2 DEF BreakersAllow
    <3> QED
      BY <3>1 DEF PaperFill, Admitted, CanTrade
  <2>4. ~FinishLive
    BY <2>1 DEF FinishLive
  <2>5. ASSUME NEW o \in Opportunities, Handle(o)
        PROVE  trade_log' = trade_log
    BY <2>3, <2>5 DEF Handle, Decline, HandleMonitor, Skip, LiveFire
  <2> QED
    BY <2>4, <2>5
    DEF ExecNext, StartLegs, LegFills, LegFails, Interrupt, SetMode, NewDay,
        SetEmergencyStop, UpdateRiskLimits, execVars
<1> QED
  BY <1>1, ExecInvariant, PTL DEF ExecSpec, StreakLimitEndsTrading

\* The emergency stop lets nothing start.
THEOREM StopIsImmediate == ExecSpec => StopStartsNothing
<1> DEFINE Stopped == limits.emergency_stop =>
             /\ inflight' \in {inflight, None}
             /\ trade_log' # trade_log => inflight # None
<1>1. [ExecNext]_execVars => [Stopped]_execVars
  <2> SUFFICES ASSUME [ExecNext]_execVars, limits.emergency_stop
               PROVE  /\ inflight' \in {inflight, None}
                      /\ trade_log' # trade_log => inflight # None
    OBVIOUS
  <2>1. ASSUME NEW o \in Opportunities
        PROVE  ~Admitted(o)
    BY DEF Admitted, CanTrade, BreakersAllow
  <2>2. ASSUME NEW o \in Opportunities, Handle(o)
        PROVE  UNCHANGED <<inflight, trade_log>>
    BY <2>1, <2>2 DEF Handle, Decline, HandleMonitor, Skip, PaperFill, LiveFire
  <2>3. FinishLive => inflight' = None /\ inflight # None
    BY DEF FinishLive
  <2> QED
    BY <2>2, <2>3
    DEF ExecNext, StartLegs, LegFills, LegFails, Interrupt, SetMode, NewDay,
        SetEmergencyStop, UpdateRiskLimits, execVars
<1> QED
  BY <1>1, PTL DEF ExecSpec, StopStartsNothing

-----------------------------------------------------------------------------
(***************************************************************************)
(* What the counters decide is what the log decides.                       *)
(***************************************************************************)

\* After the roll the counter counts the trades of today.
LEMMA RolledCount ==
  ASSUME ExecInv
  PROVE  Rolled.daily_trade_count = Cardinality(TradesOf(today))
<1>1. CASE risk.current_day = today
  BY <1>1, RolledFields DEF ExecInv, CountMatchesLog
<1>2. CASE risk.current_day # today
  BY <1>2, RolledFields, NothingLoggedYet, FS_EmptySet DEF ExecInv
<1> QED
  BY <1>1, <1>2

\* After the roll the day is in profit if a trade of today was.
LEMMA RolledProfit ==
  ASSUME ExecInv
  PROVE  /\ Rolled.daily_pnl_usd \in Int
         /\ Rolled.daily_pnl_usd > 0 <=>
              \E n \in TradesOf(today) : trade_log[n].pnl_usd # None
<1>1. Rolled.daily_pnl_usd \in Int
  BY RolledType DEF ExecInv, RiskState
<1>2. CASE risk.current_day = today
  BY <1>1, <1>2, RolledFields DEF ExecInv, ProfitMatchesLog
<1>3. CASE risk.current_day # today
  BY <1>1, <1>3, RolledFields, NothingLoggedYet DEF ExecInv
<1> QED
  BY <1>1, <1>2, <1>3

\* A streak under its limit means that one of the latest trades succeeded, or
\* that there are too few of them.
LEMMA StreakIsShort ==
  ASSUME ExecInv, risk.consecutive_failures < MaxConsecutiveFailures
  PROVE  ~Desk!OnALosingStreak
<1> DEFINE n == Len(trade_log)
           k == risk.consecutive_failures
<1>1. /\ n \in Nat /\ k \in Nat /\ MaxConsecutiveFailures \in Nat
  BY CapsAreTyped DEF ExecInv, ExecTypeOK, RiskState
<1>2. k <= n /\ (k < n => trade_log[n - k].pnl_usd # None)
  BY DEF ExecInv, StreakMatchesLog
<1>3. Desk!OnALosingStreak =>
        /\ MaxConsecutiveFailures <= n
        /\ \A j \in (n - MaxConsecutiveFailures + 1)..n : trade_log[j].pnl_usd = None
  BY DEF Desk!OnALosingStreak
<1>4. k < MaxConsecutiveFailures
  OBVIOUS
<1> HIDE DEF n, k
<1> QED
  BY <1>1, <1>2, <1>3, <1>4

\* Nothing is deployed between trades, so a trade within the caps on top of
\* what is deployed is within the caps.
LEMMA CapsAlone ==
  ASSUME ExecInv, inflight = None, NEW o \in Opportunities,
         StrategyCapAllows(Rolled, o), VenueCapsAllow(Rolled, o)
  PROVE  Desk!FitsTheCaps(o)
<1>1. Clear(risk) /\ risk \in RiskState
  BY CapitalCases DEF ExecInv, ExecTypeOK
<1>2. Clear(Rolled)
  BY <1>1, RollKeepsOrClears, ExecutorConstantsAreTyped DEF Rolled, ExecInv, ExecTypeOK
<1>3. /\ o.strategy \in Strategies /\ o.max_size_usd \in Nat
      /\ \A i \in LegIndices(o) : o.legs[i].venue_id \in Venues
  BY OpportunityFields
<1>4. o.max_size_usd <= StrategyCap[o.strategy]
  BY <1>2, <1>3 DEF StrategyCapAllows, Clear
<1>5. \A i \in LegIndices(o) : o.max_size_usd <= VenueCap[o.legs[i].venue_id]
  BY <1>2, <1>3 DEF VenueCapsAllow, Clear
<1> QED
  BY <1>4, <1>5 DEF Desk!FitsTheCaps, Desk!LegIndices, LegIndices

\* What the risk manager admits the desk may begin.
LEMMA AdmittedMayBegin ==
  ASSUME ExecInv, Idle, NEW o \in Opportunities, Admitted(o)
  PROVE  Desk!MayBegin(o)
<1>1. /\ BreakersAllow(Rolled, limits)
      /\ StrategyCapAllows(Rolled, o)
      /\ VenueCapsAllow(Rolled, o)
      /\ alive /\ inflight = None
  BY DEF Admitted, CanTrade, Idle
<1>2. Desk!Today = TradesOf(today)
  BY DEF Desk!Today, TradesOf
<1>3. Working = None
  BY <1>1 DEF Working
<1>4. ~limits.emergency_stop
  BY <1>1 DEF BreakersAllow
<1>5. Cardinality(Desk!Today) < limits.max_trades_per_day
  BY <1>1, <1>2, RolledCount DEF BreakersAllow
<1>6. Desk!DayIsGoodEnough
  <2>1. CASE limits.daily_loss_limit_usd # 0
    BY <2>1 DEF Desk!DayIsGoodEnough
  <2>2. CASE limits.daily_loss_limit_usd = 0
    <3>1. Rolled.daily_pnl_usd > 0
      BY <1>1, <2>2, RolledProfit DEF BreakersAllow, Abs
    <3> QED
      BY <1>2, <3>1, RolledProfit DEF Desk!DayIsGoodEnough
  <2> QED
    BY <2>1, <2>2
<1>7. ~Desk!OnALosingStreak
  <2>1. risk.consecutive_failures < MaxConsecutiveFailures
    BY <1>1, RolledFields DEF BreakersAllow, ExecInv
  <2> QED
    BY <2>1, StreakIsShort
<1>8. Desk!FitsTheCaps(o)
  BY <1>1, CapsAlone
<1> QED
  BY <1>1, <1>3, <1>4, <1>5, <1>6, <1>7, <1>8
  DEF Desk!MayBegin, Desk!Cardinality, Cardinality

-----------------------------------------------------------------------------
(***************************************************************************)
(* The refinement, step by step.                                           *)
(***************************************************************************)

LEMMA PaperFillIsTheDesks ==
  ASSUME ExecInv, NEW o \in Opportunities, NEW pnl \in Profits, PaperFill(o, pnl)
  PROVE  Desk!TradeOnPaper(o)
<1>1. Idle /\ Admitted(o) /\ mode = "paper"
  BY DEF PaperFill
<1>2. Desk!MayBegin(o)
  BY <1>1, AdmittedMayBegin
<1>3. pnl # None
  BY NoneIsNothingElse
<1>4. trade_log' = Append(trade_log, Desk!Entry(o, "paper", pnl, {}))
  BY <1>3 DEF PaperFill, Desk!Entry
<1>5. UNCHANGED <<today, mode, limits, Working, alive>>
  BY DEF PaperFill, Working
<1> QED
  BY <1>1, <1>2, <1>4, <1>5 DEF Desk!TradeOnPaper

LEMMA LiveFireIsTheDesks ==
  ASSUME ExecInv, NEW o \in Opportunities, NEW pnl \in Profits, LiveFire(o, pnl)
  PROVE  Desk!Begin(o)
<1>1. Idle /\ Admitted(o) /\ mode = "live"
  BY DEF LiveFire
<1>2. Desk!MayBegin(o)
  BY <1>1, AdmittedMayBegin
<1>3. inflight' \in LiveTrade /\ inflight'.opportunity = o
  BY DEF LiveFire, LiveTrade
<1>4. Working' = o
  BY <1>3, NoneIsNothingElse DEF Working
<1>5. UNCHANGED <<today, mode, limits, trade_log, alive>>
  BY DEF LiveFire
<1> QED
  BY <1>1, <1>2, <1>4, <1>5 DEF Desk!Begin

LEMMA FinishLiveIsTheDesks ==
  ASSUME ExecInv, FinishLive
  PROVE  Desk!End
<1> DEFINE o == inflight.opportunity
<1>1. /\ inflight # None /\ inflight \in LiveTrade
      /\ legs \in [LegIndices(o) -> LegStates]
      /\ executed \subseteq LegIndices(o)
      /\ alive
  BY DEF FinishLive, ExecInv, ExecTypeOK
<1>2. o \in Opportunities /\ inflight.pnl \in Profits
  BY <1>1 DEF LiveTrade
<1>3. Working = o /\ Working # None /\ Working' = None
  BY <1>1, <1>2, OpportunitiesAreTyped DEF Working, FinishLive
<1>4. UNCHANGED <<today, mode, limits, alive>>
  BY DEF FinishLive
<1>5. CASE AllOk(legs)
  <2>1. executed = LegIndices(o)
    BY <1>1, <1>5 DEF AllOk, ExecInv, FillsExecuted
  <2>2. trade_log' = Append(trade_log, Desk!Entry(o, "live", inflight.pnl, LegIndices(o)))
    BY <1>2, <1>5, <2>1, NoneIsNothingElse DEF FinishLive, Desk!Entry
  <2> QED
    BY <1>1, <1>2, <1>3, <1>4, <2>2 DEF Desk!End, Desk!LegIndices, LegIndices
<1>6. CASE ~AllOk(legs)
  <2>1. trade_log' = Append(trade_log, Desk!Entry(o, "live", None, executed))
    BY <1>6 DEF FinishLive, Desk!Entry, PartialNote
  <2> QED
    BY <1>1, <1>3, <1>4, <2>1 DEF Desk!End, Desk!LegIndices, LegIndices
<1> QED
  BY <1>5, <1>6

\* Each step of the executor is one of the desk's, or leaves it as it was.
LEMMA DeskStep ==
  ASSUME ExecInv, [ExecNext]_execVars
  PROVE  [Desk!DeskNext]_(Desk!deskVars)
<1> USE DEF Desk!DeskNext
<1>1. ASSUME UNCHANGED <<today, mode, limits, inflight, trade_log, alive>>
      PROVE  UNCHANGED Desk!deskVars
  BY <1>1 DEF Desk!deskVars, Working
<1>2. ASSUME NEW o \in Opportunities, Decline(o) \/ HandleMonitor(o) \/ Skip(o)
      PROVE  UNCHANGED <<today, mode, limits, inflight, trade_log, alive>>
  BY <1>2 DEF Decline, HandleMonitor, Skip
<1>3. ASSUME NEW o \in Opportunities, NEW pnl \in Profits,
             PaperFill(o, pnl) \/ LiveFire(o, pnl)
      PROVE  Desk!DeskNext
  BY <1>3, PaperFillIsTheDesks, LiveFireIsTheDesks
<1>4. ASSUME NEW o \in Opportunities, Handle(o)
      PROVE  Desk!DeskNext \/ UNCHANGED Desk!deskVars
  BY <1>1, <1>2, <1>3, <1>4 DEF Handle
<1>5. ASSUME NEW connected \in SUBSET Venues, StartLegs(connected)
      PROVE  UNCHANGED <<today, mode, limits, inflight, trade_log, alive>>
  BY <1>5 DEF StartLegs
<1>6. ASSUME NEW i \in DOMAIN legs, LegFills(i) \/ LegFails(i)
      PROVE  UNCHANGED <<today, mode, limits, inflight, trade_log, alive>>
  BY <1>6 DEF LegFills, LegFails
<1>7. FinishLive => Desk!DeskNext
  BY FinishLiveIsTheDesks
<1>8. Interrupt => Desk!Close
  BY DEF Interrupt, Desk!Close, Working
<1>9. ASSUME NEW m \in Modes, SetMode(m)
      PROVE  Desk!ChangeMode
  BY <1>9 DEF SetMode, Idle, Desk!ChangeMode, Desk!Modes, Modes, Working
<1>10. NewDay => Desk!Midnight
  BY DEF NewDay, Desk!Midnight, Working
<1>11. ASSUME NEW on \in BOOLEAN, SetEmergencyStop(on)
       PROVE  Desk!ChangeLimits
  BY <1>11 DEF SetEmergencyStop, Desk!ChangeLimits, Working
<1>12. ASSUME NEW trades \in TradeLimits, NEW loss \in LossLimits,
              UpdateRiskLimits(trades, loss)
       PROVE  Desk!ChangeLimits
  BY <1>12 DEF UpdateRiskLimits, Desk!ChangeLimits, Working
<1>13. UNCHANGED execVars => UNCHANGED <<today, mode, limits, inflight, trade_log, alive>>
  BY DEF execVars
<1> QED
  BY <1>1, <1>4, <1>5, <1>6, <1>7, <1>8, <1>9, <1>10, <1>11, <1>12, <1>13 DEF ExecNext

\* The executor, with its counters, tables, rolls and leg tasks, is the desk.
THEOREM ExecutorImplementsTheDesk == ExecSpec => ImplementsDesk
<1>1. ExecInit => Desk!DeskInit
  BY DEF ExecInit, Desk!DeskInit, Desk!Modes, Modes, Working
<1>2. ExecInv /\ [ExecNext]_execVars => [Desk!DeskNext]_(Desk!deskVars)
  BY DeskStep
<1> QED
  BY <1>1, <1>2, ExecInvariant, PTL DEF ExecSpec, ImplementsDesk, Desk!DeskSpec

-----------------------------------------------------------------------------
(***************************************************************************)
(* How many trades a day may log.                                          *)
(***************************************************************************)

\* The limit in force is one an operator may set, no day has gone past them
\* all, and a trade at its gather still has room on the day it may end on.
DayInv ==
  /\ limits.max_trades_per_day \in TradeLimits
  /\ \A day \in Nat : \E limit \in TradeLimits : Cardinality(TradesOf(day)) <= limit
  /\ inflight # None => \E limit \in TradeLimits : Cardinality(TradesOf(today)) < limit

\* The steps as the bound sees them.
LEMMA RoomStep ==
  ASSUME ExecInv, DayInv, [ExecNext]_execVars
  PROVE  /\ limits'.max_trades_per_day \in TradeLimits
         /\ trade_log' # trade_log =>
              \E limit \in TradeLimits : Cardinality(TradesOf(today)) < limit
         /\ inflight' # None /\ inflight = None =>
              /\ today' = today
              /\ trade_log' = trade_log
              /\ \E limit \in TradeLimits : Cardinality(TradesOf(today)) < limit
<1> DEFINE Room == \E limit \in TradeLimits : Cardinality(TradesOf(today)) < limit
<1>1. ASSUME NEW o \in Opportunities, Admitted(o)
      PROVE  Room
  <2>1. Rolled.daily_trade_count < limits.max_trades_per_day
    BY <1>1 DEF Admitted, CanTrade, BreakersAllow
  <2> QED
    BY <2>1, RolledCount DEF DayInv
<1>2. inflight # None => Room
  BY DEF DayInv
<1> HIDE DEF Room
<1>3. ASSUME NEW o \in Opportunities, Handle(o)
      PROVE  /\ limits' = limits /\ today' = today
             /\ trade_log' # trade_log => Room
             /\ inflight' # inflight => Room /\ trade_log' = trade_log
  BY <1>1, <1>3 DEF Handle, Decline, HandleMonitor, Skip, PaperFill, LiveFire
<1>4. FinishLive \/ Interrupt =>
        /\ limits' = limits /\ inflight' = None
        /\ trade_log' # trade_log => inflight # None
  BY DEF FinishLive, Interrupt
<1>5. ASSUME \/ \E connected \in SUBSET Venues : StartLegs(connected)
             \/ \E i \in DOMAIN legs : LegFills(i) \/ LegFails(i)
             \/ \E m \in Modes : SetMode(m)
             \/ NewDay
             \/ UNCHANGED execVars
      PROVE  UNCHANGED <<limits, inflight, trade_log>>
  BY <1>5 DEF StartLegs, LegFills, LegFails, SetMode, NewDay, execVars
<1>6. ASSUME NEW on \in BOOLEAN, SetEmergencyStop(on)
      PROVE  /\ UNCHANGED <<inflight, trade_log>>
             /\ limits'.max_trades_per_day = limits.max_trades_per_day
  BY <1>6 DEF SetEmergencyStop, ExecInv, ExecTypeOK, RiskLimits
<1>7. ASSUME NEW trades \in TradeLimits, NEW loss \in LossLimits,
             UpdateRiskLimits(trades, loss)
      PROVE  /\ UNCHANGED <<inflight, trade_log>>
             /\ limits'.max_trades_per_day = trades
  BY <1>7 DEF UpdateRiskLimits, ExecInv, ExecTypeOK, RiskLimits
<1>8. /\ limits'.max_trades_per_day \in TradeLimits
      /\ trade_log' # trade_log => Room
      /\ inflight' # None /\ inflight = None =>
           today' = today /\ trade_log' = trade_log /\ Room
  BY <1>2, <1>3, <1>4, <1>5, <1>6, <1>7 DEF ExecNext, DayInv
<1> QED
  BY <1>8 DEF Room

\* The only step that logs while a trade is at its gather ends that trade.
LEMMA LoggingWhileInFlight ==
  ASSUME [ExecNext]_execVars, inflight # None, trade_log' # trade_log
  PROVE  inflight' = None
<1>1. FinishLive => inflight' = None
  BY DEF FinishLive
<1>2. ASSUME NEW o \in Opportunities PROVE ~Handle(o)
  BY DEF Handle, Decline, HandleMonitor, Skip, PaperFill, LiveFire, Idle
<1> QED
  BY <1>1, <1>2
  DEF ExecNext, StartLegs, LegFills, LegFails, Interrupt, SetMode, NewDay,
      SetEmergencyStop, UpdateRiskLimits, execVars

LEMMA DayStep == ExecInv /\ DayInv /\ [ExecNext]_execVars => DayInv'
<1> SUFFICES ASSUME ExecInv, DayInv, [ExecNext]_execVars PROVE DayInv'
  OBVIOUS
<1>0. /\ ExecTypeOK /\ DaysInOrder
      /\ trade_log \in Seq(TradeLogEntry) /\ today \in Nat
      /\ TradeLimits \subseteq Nat
  BY ExecutorConstantsAreTyped DEF ExecInv, ExecTypeOK
<1>1. ASSUME NEW day \in Nat
      PROVE  Cardinality(TradesOf(day)) \in Nat
  <2>1. IsFiniteSet(1..Len(trade_log)) /\ TradesOf(day) \subseteq 1..Len(trade_log)
    BY <1>0, FS_Interval DEF TradesOf
  <2> QED
    BY <2>1, FS_Subset, FS_CardinalityType
<1>2. CASE LogUnchanged
  <2>1. /\ trade_log' = trade_log
        /\ today' \in {today, today + 1}
        /\ \A day : TradesOf(day)' = TradesOf(day)
    BY <1>2 DEF LogUnchanged, TradesOf
  <2>2. Cardinality(TradesOf(today + 1)) = 0
    <3>1. \A n \in DOMAIN trade_log : trade_log[n].day \in Nat
      BY <1>0, EntryDay
    <3>2. \A n \in DOMAIN trade_log : trade_log[n].day # today + 1
      BY <1>0, <3>1 DEF DaysInOrder, ExecTypeOK, RiskState
    <3> QED
      BY <3>2, FS_EmptySet DEF TradesOf
  <2>3. ASSUME inflight' # None
        PROVE  \E limit \in TradeLimits : Cardinality(TradesOf(today)) < limit
    BY <2>3, RoomStep DEF DayInv
  <2>4. inflight' # None =>
          \E limit \in TradeLimits : Cardinality(TradesOf(today')) < limit
    <3>1. Cardinality(TradesOf(today)) \in Nat
      BY <1>0, <1>1
    <3>2. CASE today' = today
      BY <2>3, <3>2
    <3>3. CASE today' = today + 1
      BY <1>0, <2>2, <2>3, <3>1, <3>3
    <3> QED
      BY <2>1, <3>2, <3>3
  <2>5. TradesOf(today)' = TradesOf(today')
    BY <2>1 DEF TradesOf
  <2>6. \A day \in Nat : \E limit \in TradeLimits : Cardinality(TradesOf(day)') <= limit
    BY <2>1 DEF DayInv
  <2> QED
    BY <2>4, <2>5, <2>6, RoomStep DEF DayInv
<1>3. ASSUME NEW entry \in TradeLogEntry, NEW success \in BOOLEAN,
             LogGrows(entry, success)
      PROVE  DayInv'
  <2>1. /\ trade_log' = Append(trade_log, entry)
        /\ entry.day = today /\ today' = today
        /\ trade_log' # trade_log
    BY <1>0, <1>3 DEF LogGrows
  <2>2. PICK limit \in TradeLimits : Cardinality(TradesOf(today)) < limit
    BY <2>1, RoomStep
  <2>3. ASSUME NEW day \in Nat
        PROVE  \E most \in TradeLimits : Cardinality(TradesOf(day)') <= most
    <3>1. CASE day = today
      <4>1. Cardinality(TradesOf(day)') = Cardinality(TradesOf(day)) + 1
        BY <1>0, <2>1, <3>1, TradesOfAppend
      <4> QED
        BY <1>0, <1>1, <2>2, <3>1, <4>1
    <3>2. CASE day # today
      <4>1. TradesOf(day)' = TradesOf(day)
        BY <1>0, <2>1, <3>2 DEF TradesOf
      <4> QED
        BY <4>1 DEF DayInv
    <3> QED
      BY <3>1, <3>2
  <2>4. inflight' = None
    <3>1. CASE inflight = None
      BY <2>1, <3>1, RoomStep
    <3>2. CASE inflight # None
      BY <2>1, <3>2, LoggingWhileInFlight
    <3> QED
      BY <3>1, <3>2
  <2> QED
    BY <2>3, <2>4, RoomStep DEF DayInv
<1> QED
  BY <1>0, <1>2, <1>3, LogStep

\* However limits are raised and lowered and whenever midnight passes, no day
\* logs more than the largest limit an operator may set.
THEOREM DaysAreBounded == ExecSpec => []DailyTradesBounded
<1>1. ExecInit => DayInv
  <2> SUFFICES ASSUME ExecInit PROVE DayInv
    OBVIOUS
  <2>1. \A day : TradesOf(day) = {}
    BY DEF ExecInit, TradesOf
  <2>2. Cardinality({}) = 0
    BY FS_EmptySet
  <2>3. \A limit \in TradeLimits : 0 <= limit
    BY ExecutorConstantsAreTyped
  <2> QED
    BY <2>1, <2>2, <2>3, ExecutorConstantsAreTyped DEF ExecInit, DayInv
<1>2. DayInv => DailyTradesBounded
  BY ExecutorConstantsAreTyped DEF DayInv, DailyTradesBounded
<1> QED
  BY <1>1, <1>2, DayStep, ExecInvariant, PTL DEF ExecSpec
==============================================================================

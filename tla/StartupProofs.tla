---------------------------- MODULE StartupProofs -----------------------------
(***************************************************************************)
(* Theorems about Startup, for every universe, tier and speed of answers:  *)
(* every polled symbol is polled in time, and what paper mode lays out     *)
(* adds up, whatever live balances it is laid over.                        *)
(***************************************************************************)
EXTENDS Startup, FiniteSetTheorems, SequenceTheorems, TLAPS

INSTANCE FoldTheorems WITH op <- +

-------------------------------------------------------------------------------
\* Lemmas about the operators.

LEMMA IntervalType ==
  ASSUME NEW s
  PROVE  Interval(s) \in {PollInterval[t] : t \in TierNames}
<1> DEFINE base == s[1]
<1>1. Range(TierPriority) = {"tier1", "stable", "wrapped", "tier2", "tier3"}
  BY DEF TierPriority, Range
<1>2. TierOf(base) \in TierNames
  <2>1. CASE base \in Ranked
    <3>1. \E t \in TierNames : base \in Range(Tiers[t])
      BY <2>1 DEF Ranked
    <3> QED
      BY <2>1, <3>1 DEF TierOf
  <2>2. CASE base \notin Ranked
    BY <1>1, <2>2 DEF TierOf, TierNames
  <2> QED
    BY <2>1, <2>2
<1> QED
  BY <1>2 DEF Interval

LEMMA IntervalPositive ==
  ASSUME NEW s
  PROVE  Interval(s) \in Nat \ {0}
  BY IntervalType, UniverseConstantsAreTyped

\* One more number leaves a smallest one.
LEMMA SmallestOfMore ==
  ASSUME NEW S, S \subseteq Nat, NEW x \in Nat,
         S # {} => \E m \in S : \A n \in S : m <= n
  PROVE  \E m \in S \cup {x} : \A n \in S \cup {x} : m <= n
<1>1. CASE S = {}
  BY <1>1
<1>2. CASE S # {}
  <2>1. PICK m \in S : \A n \in S : m <= n
    BY <1>2
  <2>2. CASE m <= x
    BY <2>1, <2>2
  <2>3. CASE x < m
    <3>1. \A n \in S \cup {x} : x <= n
      BY <2>1, <2>3
    <3> QED
      BY <3>1
  <2> QED
    BY <2>1, <2>2, <2>3
<1> QED
  BY <1>1, <1>2

\* The loop's interval is the shortest of a symbol's.
LEMMA WakesForTheShortest ==
  ASSUME NEW symbols, symbols # {},
         NEW shortest, shortest = Min({Interval(s) : s \in symbols})
  PROVE  /\ shortest \in Nat \ {0}
         /\ \A s \in symbols : shortest <= Interval(s)
<1> DEFINE all == {Interval(s) : s \in symbols}
           below(names) == {n \in all : \E t \in names : n = PollInterval[t]}
           least(S) == S # {} => \E m \in S : \A n \in S : m <= n
<1>1. TierNames = {"tier1", "stable", "wrapped", "tier2", "tier3"}
  BY DEF TierPriority, Range, TierNames
<1>2. all \subseteq Nat \ {0} /\ all # {}
  BY IntervalPositive
<1>3. ASSUME NEW names, NEW t \in TierNames, least(below(names))
      PROVE  least(below(names \cup {t}))
  <2>1. PollInterval[t] \in Nat
    BY UniverseConstantsAreTyped
  <2>2. CASE PollInterval[t] \in all
    <3>1. below(names \cup {t}) = below(names) \cup {PollInterval[t]}
      BY <2>2
    <3>2. below(names) \subseteq Nat
      BY <1>2
    <3>3. below(names) # {} => \E m \in below(names) : \A n \in below(names) : m <= n
      BY <1>3
    <3> HIDE DEF below
    <3>4. \E m \in below(names) \cup {PollInterval[t]} :
            \A n \in below(names) \cup {PollInterval[t]} : m <= n
      BY <2>1, <3>2, <3>3, SmallestOfMore
    <3> QED
      BY <3>1, <3>4
  <2>3. CASE PollInterval[t] \notin all
    <3>1. below(names \cup {t}) = below(names)
      BY <2>3
    <3> QED
      BY <1>3, <3>1
  <2> QED
    BY <2>2, <2>3
<1>4. below({}) = {}
  OBVIOUS
<1>5. all = below({} \cup {"tier1"} \cup {"stable"} \cup {"wrapped"} \cup {"tier2"} \cup {"tier3"})
  BY <1>1, IntervalType
<1> HIDE DEF below, all
<1>6. least(below({}))
  BY <1>4
<1> HIDE DEF least
<1>7. least(below({} \cup {"tier1"} \cup {"stable"} \cup {"wrapped"} \cup {"tier2"} \cup {"tier3"}))
  BY <1>1, <1>3, <1>6
<1>8. PICK m \in all : \A n \in all : m <= n
  BY <1>2, <1>5, <1>7 DEF least
<1>9. shortest \in all /\ \A n \in all : shortest <= n
  <2>1. shortest = CHOOSE x \in all : \A y \in all : x <= y
    BY DEF Min, all
  <2> QED
    BY <1>8, <2>1
<1> QED
  BY <1>2, <1>9 DEF all

LEMMA LargerOfTwo ==
  ASSUME NEW a \in Int, NEW b \in Int
  PROVE  /\ Max({a, b}) \in Int
         /\ Max({a, b}) = a \/ Max({a, b}) = b
         /\ a <= Max({a, b}) /\ b <= Max({a, b})
<1>1. \E x \in {a, b} : \A y \in {a, b} : x >= y
  OBVIOUS
<1> QED
  BY <1>1 DEF Max

LEMMA CountDown ==
  ASSUME NEW timer \in Nat
  PROVE  Down(timer) = IF timer = 0 THEN 0 ELSE timer - 1
<1> DEFINE one == timer - 1
<1>1. 0 \in Int /\ one \in Int
  OBVIOUS
<1>2. Down(timer) = Max({0, one})
  BY DEF Down
<1> HIDE DEF one
<1>3. /\ Max({0, one}) = 0 \/ Max({0, one}) = one
      /\ 0 <= Max({0, one}) /\ one <= Max({0, one})
  BY <1>1, LargerOfTwo
<1> QED
  BY <1>1, <1>2, <1>3 DEF one

-------------------------------------------------------------------------------
\* Each step of the loop keeps every symbol due.

LEMMA CycleLength ==
  Polled # {} =>
    /\ WakeEvery \in Nat \ {0} /\ LongestCycle \in Nat \ {0}
    /\ WakeEvery <= LongestCycle /\ MaxAnswer <= LongestCycle
<1> SUFFICES ASSUME Polled # {}
             PROVE  /\ WakeEvery \in Nat \ {0} /\ LongestCycle \in Nat \ {0}
                    /\ WakeEvery <= LongestCycle /\ MaxAnswer <= LongestCycle
  OBVIOUS
<1>1. WakeEvery \in Nat \ {0} /\ MaxAnswer \in Nat
  BY WakesForTheShortest, StartupConstantsAreTyped DEF WakeEvery
<1> QED
  BY <1>1, LargerOfTwo DEF LongestCycle

LEMMA NextCycleLength ==
  Polled' # {} => WakeEvery' \in Nat \ {0} /\ LongestCycle' \in Nat \ {0}
<1> SUFFICES ASSUME Polled' # {}
             PROVE  WakeEvery' \in Nat \ {0} /\ LongestCycle' \in Nat \ {0}
  OBVIOUS
<1>1. WakeEvery' \in Nat \ {0} /\ MaxAnswer \in Nat
  BY WakesForTheShortest, StartupConstantsAreTyped DEF WakeEvery
<1> QED
  BY <1>1, LargerOfTwo DEF LongestCycle

LEMMA ConnectKeeps ==
  ASSUME PollsAreDue, NEW markets, Connect(markets)
  PROVE  PollsAreDue'
<1>1. /\ phase = "connecting" /\ phase' # "connecting"
      /\ asked' = [s \in Polled' |-> 0] /\ next_due' = [s \in Polled' |-> 0]
      /\ UNCHANGED <<gathering, elapsed, sleeping>>
  BY DEF Connect, Polled
<1>2. ~gathering /\ sleeping = 0
  BY <1>1 DEF PollsAreDue
<1>3. asked' \in [Polled' -> Nat] /\ next_due' \in [Polled' -> Nat]
  BY <1>1
<1>4. ASSUME NEW s \in Polled'
      PROVE  asked'[s] + UntilNextCycle' < Interval(s) + LongestCycle'
  <2>1. LongestCycle' \in Nat \ {0}
    BY NextCycleLength
  <2>2. Interval(s) \in Nat \ {0}
    BY IntervalPositive
  <2>3. asked'[s] = 0 /\ UntilNextCycle' = 0
    BY <1>1, <1>2 DEF UntilNextCycle
  <2> QED
    BY <2>1, <2>2, <2>3
<1>5. Polled' # {} => sleeping' \in 0 .. WakeEvery'
  BY <1>1, <1>2, NextCycleLength
<1> QED
  BY <1>1, <1>2, <1>3, <1>4, <1>5 DEF PollsAreDue

\* The symbols are fixed once the feed runs.
LEMMA SymbolsStay ==
  ASSUME UNCHANGED symbol_list
  PROVE  UNCHANGED <<Polled, WakeEvery, LongestCycle>>
  BY DEF Polled, WakeEvery, LongestCycle

LEMMA StartCycleKeeps ==
  ASSUME PollsAreDue, StartCycle
  PROVE  PollsAreDue'
<1>1. /\ Feeding /\ ~gathering /\ sleeping = 0
      /\ next_due' = [s \in Polled |-> IF next_due[s] = 0 THEN Interval(s) ELSE next_due[s]]
      /\ asked' = [s \in Polled |-> IF next_due[s] = 0 THEN 0 ELSE asked[s]]
      /\ gathering' /\ elapsed' = 0 /\ sleeping' = 0
      /\ UNCHANGED <<phase, symbol_list>>
  BY DEF StartCycle, setVars
<1>2. Polled' = Polled /\ WakeEvery' = WakeEvery /\ LongestCycle' = LongestCycle
  BY <1>1, SymbolsStay
<1>3. asked' \in [Polled -> Nat] /\ next_due' \in [Polled -> Nat]
  BY <1>1, IntervalPositive DEF PollsAreDue
<1>4. ASSUME NEW s \in Polled
      PROVE  next_due'[s] > 0 /\ asked'[s] + next_due'[s] = Interval(s)
  <2>1. Interval(s) \in Nat \ {0} /\ next_due[s] \in Nat /\ asked[s] \in Nat
    BY IntervalPositive DEF PollsAreDue
  <2>2. next_due[s] > 0 => asked[s] + next_due[s] = Interval(s)
    BY DEF PollsAreDue
  <2> QED
    BY <1>1, <2>1, <2>2
<1>5. Polled # {} => 0 \in 0 .. WakeEvery
  BY CycleLength
<1>6. phase' # "connecting" /\ 0 \in 0 .. MaxAnswer
  BY <1>1, StartupConstantsAreTyped DEF Feeding
<1> QED
  BY <1>1, <1>2, <1>3, <1>4, <1>5, <1>6 DEF PollsAreDue

LEMMA EndCycleKeeps ==
  ASSUME PollsAreDue, EndCycle
  PROVE  PollsAreDue'
<1>1. /\ gathering /\ ~gathering' /\ elapsed' = 0
      /\ sleeping' = Max({0, WakeEvery - elapsed})
      /\ UNCHANGED <<phase, symbol_list, next_due, asked>>
  BY DEF EndCycle, setVars
<1>2. Polled' = Polled /\ WakeEvery' = WakeEvery /\ LongestCycle' = LongestCycle
  BY <1>1, SymbolsStay
<1>3. elapsed \in Nat /\ elapsed <= MaxAnswer /\ 0 \in 0 .. MaxAnswer
      /\ phase # "connecting"
  BY <1>1, StartupConstantsAreTyped DEF PollsAreDue
<1>4. ASSUME Polled # {}
      PROVE  /\ sleeping' \in 0 .. WakeEvery
             /\ sleeping' <= LongestCycle - elapsed
  <2>1. /\ WakeEvery \in Nat \ {0} /\ LongestCycle \in Nat
        /\ WakeEvery <= LongestCycle /\ MaxAnswer <= LongestCycle
    BY <1>4, CycleLength
  <2> DEFINE rest == WakeEvery - elapsed
  <2>2. rest \in Int /\ rest <= WakeEvery /\ rest <= LongestCycle - elapsed
    BY <1>3, <2>1
  <2>3. 0 <= WakeEvery /\ 0 <= LongestCycle - elapsed
    BY <1>3, <2>1, StartupConstantsAreTyped
  <2> HIDE DEF rest
  <2>4. /\ Max({0, rest}) \in Int /\ 0 <= Max({0, rest})
        /\ Max({0, rest}) = 0 \/ Max({0, rest}) = rest
    BY <2>2, LargerOfTwo
  <2>5. sleeping' = Max({0, rest})
    BY <1>1 DEF rest
  <2> QED
    BY <2>2, <2>3, <2>4, <2>5
<1>5. ASSUME NEW s \in Polled, ~(next_due[s] > 0)
      PROVE  asked[s] + sleeping' < Interval(s) + LongestCycle
  <2>1. asked[s] + (LongestCycle - elapsed) < Interval(s) + LongestCycle
    BY <1>1, <1>5 DEF PollsAreDue, UntilNextCycle
  <2>2. asked[s] \in Nat /\ Interval(s) \in Nat /\ LongestCycle \in Nat
    BY IntervalPositive, CycleLength DEF PollsAreDue
  <2>3. sleeping' \in Nat /\ sleeping' <= LongestCycle - elapsed
    BY <1>4, CycleLength
  <2> QED
    BY <1>3, <2>1, <2>2, <2>3
<1> QED
  BY <1>1, <1>2, <1>3, <1>4, <1>5 DEF PollsAreDue, UntilNextCycle

LEMMA TimePassesKeeps ==
  ASSUME PollsAreDue, TimePasses
  PROVE  PollsAreDue'
<1>1. /\ next_due' = [s \in Polled |-> Down(next_due[s])]
      /\ asked' = [s \in Polled |-> asked[s] + 1]
      /\ sleeping' = Down(sleeping)
      /\ UNCHANGED <<phase, symbol_list, gathering>>
      /\ phase # "connecting"
  BY DEF TimePasses, setVars, Feeding
<1>2. Polled' = Polled /\ WakeEvery' = WakeEvery /\ LongestCycle' = LongestCycle
  BY <1>1, SymbolsStay
<1>3. elapsed' \in 0 .. MaxAnswer
  BY StartupConstantsAreTyped DEF TimePasses, PollsAreDue
<1>4. ASSUME NEW s \in Polled
      PROVE  /\ asked'[s] = asked[s] + 1 /\ asked[s] \in Nat
             /\ next_due'[s] = IF next_due[s] = 0 THEN 0 ELSE next_due[s] - 1
             /\ next_due[s] \in Nat
  <2>1. asked[s] \in Nat /\ next_due[s] \in Nat
    BY DEF PollsAreDue
  <2> QED
    BY <1>1, <2>1, CountDown
<1>5. asked' \in [Polled -> Nat] /\ next_due' \in [Polled -> Nat]
  <2>1. \A s \in Polled : asked[s] + 1 \in Nat /\ Down(next_due[s]) \in Nat
    BY <1>1, <1>4
  <2> QED
    BY <1>1, <2>1
<1>6. gathering => sleeping' = 0
  BY <1>1, CountDown DEF PollsAreDue
<1>7. ASSUME Polled # {}
      PROVE  /\ sleeping' \in 0 .. WakeEvery
             /\ UntilNextCycle' = UntilNextCycle - 1
             /\ UntilNextCycle' < LongestCycle /\ UntilNextCycle' \in Int
  <2>1. /\ WakeEvery \in Nat /\ LongestCycle \in Nat /\ WakeEvery <= LongestCycle
        /\ sleeping \in Nat /\ sleeping <= WakeEvery
    BY <1>7, CycleLength DEF PollsAreDue
  <2>2. CASE gathering
    <3>1. elapsed' = elapsed + 1 /\ elapsed \in Nat /\ sleeping' = 0
      BY <1>6, <2>2 DEF TimePasses, PollsAreDue
    <3> QED
      BY <1>1, <1>2, <2>1, <2>2, <3>1 DEF UntilNextCycle
  <2>3. CASE ~gathering
    <3>1. sleeping > 0 /\ sleeping' = sleeping - 1
      BY <1>1, <2>1, <2>3, CountDown DEF TimePasses
    <3> QED
      BY <1>1, <2>1, <2>3, <3>1 DEF UntilNextCycle
  <2> QED
    BY <2>2, <2>3
<1>8. ASSUME NEW s \in Polled
      PROVE  IF next_due'[s] > 0 THEN asked'[s] + next_due'[s] = Interval(s)
             ELSE asked'[s] + UntilNextCycle' < Interval(s) + LongestCycle
  <2>1. /\ Interval(s) \in Nat /\ LongestCycle \in Nat
        /\ UntilNextCycle' \in Int /\ UntilNextCycle' = UntilNextCycle - 1
        /\ UntilNextCycle' < LongestCycle
    BY <1>7, CycleLength, IntervalPositive
  <2>2. UntilNextCycle \in Int
    BY CycleLength, StartupConstantsAreTyped DEF PollsAreDue, UntilNextCycle
  <2>3. IF next_due[s] > 0 THEN asked[s] + next_due[s] = Interval(s)
        ELSE asked[s] + UntilNextCycle < Interval(s) + LongestCycle
    BY DEF PollsAreDue
  <2> QED
    BY <1>4, <2>1, <2>2, <2>3
<1> QED
  BY <1>1, <1>2, <1>3, <1>5, <1>6, <1>7, <1>8 DEF PollsAreDue

LEMMA QuietStartKeeps ==
  ASSUME PollsAreDue, phase' # "connecting",
         UNCHANGED <<symbol_list, next_due, gathering, elapsed, sleeping, asked>>
  PROVE  PollsAreDue'
<1>1. Polled' = Polled /\ WakeEvery' = WakeEvery /\ LongestCycle' = LongestCycle
  BY SymbolsStay
<1> QED
  BY <1>1 DEF PollsAreDue, UntilNextCycle

-------------------------------------------------------------------------------
\* The theorem.

\* Whatever poll_loop is given to poll, at whatever intervals, and however slow
\* the venues are, a symbol waits for its next poll no longer than its tier's
\* interval and the longest cycle.
THEOREM PollsInTime == StartSpec => []PolledOnTime
<1>1. StartInit => PollsAreDue
  <2> SUFFICES ASSUME StartInit
               PROVE  PollsAreDue
    OBVIOUS
  <2>1. Polled = {}
    BY DEF StartInit, Polled, Range
  <2>2. <<>> \in [{} -> Nat]
    OBVIOUS
  <2> QED
    BY <2>1, <2>2, StartupConstantsAreTyped DEF StartInit, PollsAreDue
<1>2. PollsAreDue /\ [StartNext]_startVars => PollsAreDue'
  <2> SUFFICES ASSUME PollsAreDue, [StartNext]_startVars
               PROVE  PollsAreDue'
    OBVIOUS
  <2>1. CASE \E markets : Connect(markets)
    BY <2>1, ConnectKeeps
  <2>2. CASE StartCycle \/ EndCycle \/ TimePasses
    BY <2>2, StartCycleKeeps, EndCycleKeeps, TimePassesKeeps
  <2>3. ASSUME NEW k \in outstanding, NEW book, Answer(k, book)
        PROVE  PollsAreDue'
    <3>1. CASE phase # "connecting"
      BY <2>3, <3>1, QuietStartKeeps DEF Answer, setVars
    <3>2. CASE phase = "connecting"
      <4>1. UNCHANGED <<phase, symbol_list, next_due, gathering, elapsed, sleeping, asked>>
        BY <2>3 DEF Answer, setVars
      <4>2. Polled' = Polled /\ WakeEvery' = WakeEvery /\ LongestCycle' = LongestCycle
        BY <4>1, SymbolsStay
      <4> QED
        BY <4>1, <4>2 DEF PollsAreDue, UntilNextCycle
    <3> QED
      BY <3>1, <3>2
  <2>4. CASE KeepWaiting \/ StartTrading \/ EnterMode \/ \E m \in Modes : SetMode(m)
    BY <2>4, QuietStartKeeps DEF KeepWaiting, StartTrading, EnterMode, SetMode, setVars, pollVars
  <2>6. ASSUME NEW v, NEW free, Fetch(v, free)
        PROVE  PollsAreDue'
    <3>1. UNCHANGED <<symbol_list, next_due, gathering, elapsed, sleeping, asked>>
      BY <2>6 DEF Fetch, setVars, pollVars
    <3>2. phase' = "trading" \/ phase' = phase
      BY <2>6 DEF Fetch
    <3>3. CASE phase' # "connecting"
      BY <3>1, <3>3, QuietStartKeeps
    <3>4. CASE phase' = "connecting"
      <4>1. phase' = phase
        BY <3>2, <3>4
      <4>2. Polled' = Polled /\ WakeEvery' = WakeEvery /\ LongestCycle' = LongestCycle
        BY <3>1, SymbolsStay
      <4> QED
        BY <3>1, <4>1, <4>2 DEF PollsAreDue, UntilNextCycle
    <3> QED
      BY <3>3, <3>4
  <2>5. CASE UNCHANGED startVars
    <3>1. UNCHANGED <<phase, symbol_list, next_due, gathering, elapsed, sleeping, asked>>
      BY <2>5 DEF startVars, setVars, pollVars
    <3>2. Polled' = Polled /\ WakeEvery' = WakeEvery /\ LongestCycle' = LongestCycle
      BY <3>1, SymbolsStay
    <3> QED
      BY <3>1, <3>2 DEF PollsAreDue, UntilNextCycle
  <2> QED
    BY <2>1, <2>2, <2>3, <2>4, <2>5, <2>6 DEF StartNext, PollFails, FetchEnds, FetchFails
<1>3. PollsAreDue => PolledOnTime
  <2> SUFFICES ASSUME PollsAreDue, NEW s \in DOMAIN asked
               PROVE  asked[s] < Interval(s) + LongestCycle
    BY DEF PolledOnTime
  <2>1. s \in Polled /\ asked[s] \in Nat /\ next_due[s] \in Nat
    BY DEF PollsAreDue
  <2>2. /\ LongestCycle \in Nat \ {0} /\ MaxAnswer <= LongestCycle /\ WakeEvery \in Nat
        /\ Interval(s) \in Nat
    BY <2>1, CycleLength, IntervalPositive
  <2>3. CASE next_due[s] > 0
    <3>1. asked[s] + next_due[s] = Interval(s)
      BY <2>1, <2>3 DEF PollsAreDue
    <3> QED
      BY <2>1, <2>2, <2>3, <3>1
  <2>4. CASE ~(next_due[s] > 0)
    <3>1. asked[s] + UntilNextCycle < Interval(s) + LongestCycle
      BY <2>1, <2>4 DEF PollsAreDue
    <3>2. UntilNextCycle \in Nat
      BY <2>1, <2>2, StartupConstantsAreTyped DEF PollsAreDue, UntilNextCycle
    <3> QED
      BY <2>1, <2>2, <3>1, <3>2
  <2> QED
    BY <2>3, <2>4
<1> QED
  BY <1>1, <1>2, <1>3, PTL DEF StartSpec

-------------------------------------------------------------------------------
\* Part two, the paper capital.  The keys that venues are sorted by.

LEMMA PlaceOf ==
  ASSUME NEW T, NEW list \in Seq(T)
  PROVE  /\ \A x : Place(list, x) \in Int
         /\ \A x \in Range(list) : Place(list, x) \in 1 .. Len(list)
                                 /\ list[Place(list, x)] = x
<1>1. ASSUME NEW x, x \in Range(list)
      PROVE  Place(list, x) \in 1 .. Len(list) /\ list[Place(list, x)] = x
  <2>1. \E i \in 1 .. Len(list) : list[i] = x
    BY <1>1 DEF Range
  <2>2. DOMAIN list = 1 .. Len(list)
    OBVIOUS
  <2> QED
    BY <2>1, <2>2 DEF Place, Contains
<1>2. ASSUME NEW x, x \notin Range(list)
      PROVE  Place(list, x) \in Int
  <2>1. ~Contains(list, x)
    BY <1>2 DEF Contains, Range
  <2>2. Len(list) + 1 \in Int
    OBVIOUS
  <2> QED
    BY <2>1, <2>2 DEF Place
<1> QED
  BY <1>1, <1>2

LEMMA RankedIsFinite == IsFiniteSet(Ranked)
<1> DEFINE of(t) == Range(Tiers[t])
<1>1. TierNames = {"tier1", "stable", "wrapped", "tier2", "tier3"}
  BY DEF TierPriority, Range, TierNames
<1>2. \A t \in TierNames : IsFiniteSet(of(t))
  BY UniverseConstantsAreTyped, RangeOfList
<1>3. Ranked = of("tier1") \cup (of("stable") \cup (of("wrapped") \cup (of("tier2") \cup of("tier3"))))
  BY <1>1 DEF Ranked
<1> HIDE DEF of
<1> QED
  BY <1>1, <1>2, <1>3, FS_Union

LEMMA RankIsTyped ==
  ASSUME NEW s \in Symbols, NEW count \in Nat
  PROVE  SymbolRank(s, count) \in [1 .. 5 -> Int]
<1> DEFINE tier == Place(TierPriority, TierOf(s[1]))
           base == BaseRank(s[1])
           quote == Place(QuoteAssets, s[2])
           name == Place(Alphabet, s)
<1>1. tier \in Int
  <2>1. TierPriority \in Seq({"tier1", "stable", "wrapped", "tier2", "tier3"})
    BY DEF TierPriority
  <2> QED
    BY <2>1, PlaceOf
<1>2. base \in Int
  <2>1. CASE s[1] \in Ranked
    <3>1. \E t \in TierNames : s[1] \in Range(Tiers[t])
      BY <2>1 DEF Ranked
    <3>2. TierOf(s[1]) \in TierNames
      BY <2>1, <3>1 DEF TierOf
    <3>3. Tiers[TierOf(s[1])] \in Seq(Range(Tiers[TierOf(s[1])]))
      BY <3>2, UniverseConstantsAreTyped
    <3> QED
      BY <2>1, <3>3, PlaceOf DEF BaseRank
  <2>2. CASE s[1] \notin Ranked
    BY <2>2, RankedIsFinite, FS_CardinalityType DEF BaseRank
  <2> QED
    BY <2>1, <2>2
<1>3. quote \in Int /\ name \in Int
  BY UniverseConstantsAreTyped, PlaceOf
<1>4. SymbolRank(s, count) = <<tier, base, quote, -count, name>>
  BY DEF SymbolRank
<1> HIDE DEF tier, base, quote, name
<1>5. <<tier, base, quote, -count, name>> \in [1 .. 5 -> Int]
  BY <1>1, <1>2, <1>3
<1> QED
  BY <1>4, <1>5

LEMMA SymbolsAreFinite ==
  /\ IsFiniteSet(Symbols)
  /\ \A s \in Symbols : \E b, q : s = <<b, q>> /\ Range(s) = {b, q}
<1>1. IsFiniteSet(Symbols)
  BY UniverseConstantsAreTyped, RangeOfList DEF Symbols
<1>2. ASSUME NEW s \in Symbols
      PROVE  \E b, q : s = <<b, q>> /\ Range(s) = {b, q}
  <2>1. s \in Range(s) \X Range(s)
    BY UniverseConstantsAreTyped DEF Symbols
  <2>2. s = <<s[1], s[2]>>
    BY <2>1
  <2>3. DOMAIN s = {1, 2}
    BY <2>2
  <2>4. Range(s) = {s[1], s[2]}
    BY <2>3 DEF Range
  <2> QED
    BY <2>2, <2>4
<1> QED
  BY <1>1, <1>2

\* select_pollable_symbols lists symbols, none of them twice.
LEMMA SelectionIsAList ==
  ASSUME NEW listed, IsFiniteSet(DOMAIN listed), \A v \in DOMAIN listed : listed[v] \subseteq Symbols
  PROVE  /\ SelectPollable(listed) \in Seq(Symbols)
         /\ Len(SelectPollable(listed)) <= Cardinality(Symbols)
<1> DEFINE count == [s \in UNION Range(listed) |->
                       Cardinality({v \in DOMAIN listed : s \in listed[v]})]
           eligible == {s \in DOMAIN count : count[s] >= MinVenues}
           rank == [s \in eligible |-> SymbolRank(s, count[s])]
           ranked == SortedBy(eligible, rank)
           all == Cardinality(Symbols)
<1>1. eligible \subseteq Symbols
  BY DEF Range
<1>2. IsFiniteSet(eligible) /\ Cardinality(eligible) <= all /\ all \in Nat
  <2> HIDE DEF eligible
  <2> QED
    BY <1>1, SymbolsAreFinite, FS_Subset, FS_CardinalityType
<1>3. ASSUME NEW s \in eligible
      PROVE  count[s] \in Nat
  <2> DEFINE holders == {v \in DOMAIN listed : s \in listed[v]}
  <2>1. holders \in SUBSET DOMAIN listed /\ count[s] = Cardinality(holders)
    OBVIOUS
  <2> HIDE DEF holders, count
  <2> QED
    BY <2>1, FS_Subset, FS_CardinalityType
<1>4. rank \in [eligible -> [1 .. 5 -> Int]]
  <2>1. \A s \in eligible : SymbolRank(s, count[s]) \in [1 .. 5 -> Int]
    <3> HIDE DEF eligible, count
    <3> QED
      BY <1>1, <1>3, RankIsTyped
  <2> HIDE DEF eligible, count
  <2> QED
    BY <2>1
<1>5. ASSUME NEW s \in eligible, NEW t \in eligible, rank[s] = rank[t]
      PROVE  s = t
  <2>1. rank[s][5] = Place(Alphabet, s) /\ rank[t][5] = Place(Alphabet, t)
    <3>1. rank[s] = SymbolRank(s, count[s]) /\ rank[t] = SymbolRank(t, count[t])
      OBVIOUS
    <3> HIDE DEF rank, eligible, count
    <3> QED
      BY <3>1 DEF SymbolRank
  <2>2. s \in Range(Alphabet) /\ t \in Range(Alphabet)
    BY <1>1 DEF Symbols
  <2>3. Alphabet[Place(Alphabet, s)] = s /\ Alphabet[Place(Alphabet, t)] = t
    BY <2>2, UniverseConstantsAreTyped, PlaceOf
  <2> HIDE DEF rank
  <2> QED
    BY <1>5, <2>1, <2>3
<1>6. ranked \in Seq(eligible) /\ Len(ranked) = Cardinality(eligible)
  <2> HIDE DEF eligible, rank
  <2> QED
    BY <1>2, <1>4, <1>5, SortedByLists
<1>7. SelectPollable(listed) =
        IF MaxSymbols = 0 \/ Len(ranked) <= MaxSymbols THEN ranked
        ELSE SubSeq(ranked, 1, MaxSymbols)
  BY DEF SelectPollable
<1> HIDE DEF eligible, rank, ranked, all
<1>8. ranked \in Seq(Symbols) /\ Len(ranked) <= all /\ Len(ranked) \in Nat
  BY <1>1, <1>2, <1>6
<1>9. CASE MaxSymbols = 0 \/ Len(ranked) <= MaxSymbols
  BY <1>7, <1>8, <1>9 DEF all
<1>10. CASE ~(MaxSymbols = 0 \/ Len(ranked) <= MaxSymbols)
  <2>1. MaxSymbols \in Nat /\ MaxSymbols \in 1 .. Len(ranked)
    BY <1>8, <1>10, UniverseConstantsAreTyped
  <2>2. /\ SubSeq(ranked, 1, MaxSymbols) \in Seq(Symbols)
        /\ Len(SubSeq(ranked, 1, MaxSymbols)) = MaxSymbols
    BY <1>8, <2>1, SubSeqProperties
  <2> QED
    BY <1>2, <1>7, <1>8, <1>10, <2>1, <2>2 DEF all
<1> QED
  BY <1>9, <1>10

-------------------------------------------------------------------------------
\* Who is funded.

LEMMA SmallerOfTwo ==
  ASSUME NEW a \in Int, NEW b \in Int
  PROVE  /\ Min({a, b}) = a \/ Min({a, b}) = b
         /\ Min({a, b}) <= a /\ Min({a, b}) <= b
<1>1. \E x \in {a, b} : \A y \in {a, b} : x <= y
  OBVIOUS
<1> QED
  BY <1>1 DEF Min

LEMMA VenuesAreFinite == IsFiniteSet(Venues) /\ VenueNames \in Seq(Venues)
<1>1. VenueNames \in Seq(Venues) /\ Range(VenueNames) = Venues
  BY StartupConstantsAreTyped
<1> QED
  BY <1>1, RangeOfList

LEMMA CoverageLists ==
  ASSUME symbol_list \in Seq(Symbols), Connected \subseteq Venues
  PROVE  ByCoverage \in Seq(Connected) /\ Len(ByCoverage) = Cardinality(Connected)
<1> DEFINE rank == [v \in Connected |-> <<-Coverage(v), Place(VenueNames, v)>>]
<1>1. ASSUME NEW v \in Connected
      PROVE  Coverage(v) \in Nat
  <2> DEFINE covered == {s \in Polled : books[<<v, s>>] # "none"}
  <2>1. IsFiniteSet(Polled)
    BY RangeOfList DEF Polled
  <2>2. covered \in SUBSET Polled /\ Coverage(v) = Cardinality(covered)
    BY DEF Coverage
  <2> HIDE DEF covered
  <2> QED
    BY <2>1, <2>2, FS_Subset, FS_CardinalityType
<1>2. ASSUME NEW v \in Connected
      PROVE  <<-Coverage(v), Place(VenueNames, v)>> \in [1 .. 2 -> Int]
  <2> DEFINE cover == Coverage(v)
             place == Place(VenueNames, v)
  <2>1. cover \in Nat /\ place \in Int
    BY <1>1, VenuesAreFinite, PlaceOf
  <2> HIDE DEF cover, place
  <2>2. <<-cover, place>> \in [1 .. 2 -> Int]
    BY <2>1
  <2> QED
    BY <2>2 DEF cover, place
<1>3. rank \in [Connected -> [1 .. 2 -> Int]]
  BY <1>2
<1>4. ASSUME NEW u \in Connected, NEW v \in Connected, rank[u] = rank[v]
      PROVE  u = v
  <2>1. Place(VenueNames, u) = Place(VenueNames, v)
    BY <1>4
  <2>2. u \in Range(VenueNames) /\ v \in Range(VenueNames)
    BY StartupConstantsAreTyped
  <2>3. VenueNames[Place(VenueNames, u)] = u /\ VenueNames[Place(VenueNames, v)] = v
    BY <2>2, VenuesAreFinite, PlaceOf
  <2> QED
    BY <2>1, <2>3
<1>5. IsFiniteSet(Connected)
  BY VenuesAreFinite, FS_Subset
<1>6. ByCoverage = SortedBy(Connected, rank)
  BY DEF ByCoverage
<1> HIDE DEF rank
<1> QED
  BY <1>3, <1>4, <1>5, <1>6, SortedByLists

\* _venues_to_fund: some, and connected ones.
LEMMA SomeAreFunded ==
  ASSUME environ \in Settings, symbol_list \in Seq(Symbols),
         Connected \subseteq Venues, Connected # {}
  PROVE  VenuesToFund \subseteq Connected /\ VenuesToFund # {}
<1>1. CASE ChosenPlaces # {}
  BY <1>1 DEF VenuesToFund, ChosenPlaces
<1>2. CASE ChosenPlaces = {} /\ (environ.venues # <<>> \/ environ.max_venues = 0)
  BY <1>2 DEF VenuesToFund
<1>3. CASE ChosenPlaces = {} /\ environ.venues = <<>> /\ environ.max_venues # 0
  <2> DEFINE n == Len(ByCoverage)
             limit == environ.max_venues
             m == Min({limit, n})
             list == SubSeq(ByCoverage, 1, m)
  <2>1. ByCoverage \in Seq(Connected) /\ n = Cardinality(Connected)
    BY CoverageLists
  <2>2. n \in Nat /\ n # 0
    BY <2>1, VenuesAreFinite, FS_Subset, FS_EmptySet
  <2>3. limit \in Nat \ {0}
    BY <1>3, StartupConstantsAreTyped
  <2>4. m \in 1 .. n
    <3> HIDE DEF n, limit
    <3>1. n \in Int /\ limit \in Int
      BY <2>2, <2>3
    <3>2. (m = limit \/ m = n) /\ m <= limit /\ m <= n
      BY <3>1, SmallerOfTwo
    <3> QED
      BY <2>2, <2>3, <3>2
  <2>5. VenuesToFund = Range(list)
    BY <1>3 DEF VenuesToFund
  <2> HIDE DEF m
  <2>6. list \in Seq(Connected) /\ Len(list) = m
    BY <2>1, <2>4, SubSeqProperties
  <2> HIDE DEF list
  <2>7. 1 \in DOMAIN list /\ \A i \in DOMAIN list : list[i] \in Connected
    BY <2>4, <2>6
  <2> QED
    BY <2>5, <2>7 DEF Range
<1> QED
  BY <1>1, <1>2, <1>3

LEMMA DivisorsArePositive == Divisors \subseteq Nat \ {0}
<1>1. \A m \in Nat : 1 .. m \subseteq Nat \ {0}
  OBVIOUS
<1>2. Cardinality(Venues) \in Nat
  BY VenuesAreFinite, FS_CardinalityType
<1>3. \A s \in Settings : Len(s.venues) \in Nat
  BY StartupConstantsAreTyped
<1> QED
  BY <1>1, <1>2, <1>3 DEF Divisors

\* The total is divided by no fewer than there are venues to fund, and by more only
\* if a venue is named twice.
LEMMA PortionsOfTheTotal ==
  ASSUME environ \in Settings, symbol_list \in Seq(Symbols),
         Connected \subseteq Venues, Connected # {}
  PROVE  /\ Portions \in Divisors /\ Portions \in Nat \ {0}
         /\ IsFiniteSet(VenuesToFund) /\ Cardinality(VenuesToFund) \in Nat
         /\ Cardinality(VenuesToFund) <= Portions
         /\ NamedOnce => Cardinality(VenuesToFund) = Portions
<1> DEFINE fund == VenuesToFund
           n == Cardinality(fund)
           all == Cardinality(Venues)
<1>1. fund \in SUBSET Venues /\ fund # {}
  BY SomeAreFunded
<1>2. IsFiniteSet(fund) /\ n \in Nat /\ n # 0 /\ n <= all /\ all \in Nat
  BY <1>1, VenuesAreFinite, FS_Subset, FS_EmptySet, FS_CardinalityType
<1>3. CASE ChosenPlaces = {}
  <2>1. Portions = n
    BY <1>3 DEF Portions
  <2>2. n \in 1 .. all
    <3> HIDE DEF n, all
    <3> QED
      BY <1>2
  <2>3. n \in Divisors
    BY <2>2 DEF Divisors
  <2> HIDE DEF n
  <2> QED
    BY <1>2, <2>1, <2>3 DEF n
<1>4. CASE ChosenPlaces # {}
  <2> DEFINE list == environ.venues
             places == ChosenPlaces
             at == [i \in places |-> list[i]]
             m == Cardinality(places)
             len == Len(list)
  <2>1. list \in Seq(Venues) /\ DOMAIN list = 1 .. len /\ len \in Nat
    BY StartupConstantsAreTyped
  <2>2. places \in SUBSET (1 .. len) /\ places # {}
    BY <1>4, <2>1 DEF ChosenPlaces
  <2>3. IsFiniteSet(1 .. len) /\ Cardinality(1 .. len) = len
    <3> HIDE DEF len
    <3> QED
      BY <2>1, FS_Interval
  <2>4. IsFiniteSet(places) /\ m \in Nat /\ m # 0 /\ m <= len
    <3> DEFINE all_places == 1 .. len
    <3>1. IsFiniteSet(all_places) /\ Cardinality(all_places) = len /\ places \in SUBSET all_places
      BY <2>2, <2>3
    <3> HIDE DEF places, len, all_places
    <3>2. IsFiniteSet(places) /\ Cardinality(places) <= len
      BY <3>1, FS_Subset
    <3>3. Cardinality(places) \in Nat /\ Cardinality(places) # 0
      BY <2>2, <3>2, FS_EmptySet, FS_CardinalityType
    <3> QED
      BY <3>2, <3>3
  <2>5. Portions = m /\ fund = {list[i] : i \in places}
    BY <1>4 DEF Portions, VenuesToFund
  <2>6. at \in Surjection(places, fund)
    <3> HIDE DEF places, fund
    <3> QED
      BY <2>5 DEF Surjection
  <2>7. n <= m
    BY <2>4, <2>6, FS_Surjection
  <2>8. ASSUME NamedOnce
        PROVE  n = m
    <3>1. \A i, j \in places : at[i] = at[j] => i = j
      BY <2>8 DEF NamedOnce
    <3> HIDE DEF places, fund
    <3>2. at \in Injection(places, fund)
      BY <2>6, <3>1 DEF Injection, IsInjective, Surjection
    <3> QED
      BY <2>4, <2>6, <3>2, FS_Surjection
  <2>9. m \in Divisors
    <3>1. m \in 1 .. len
      <4> HIDE DEF m, len
      <4> QED
        BY <2>1, <2>4
    <3> QED
      BY <3>1 DEF Divisors
  <2> HIDE DEF m, n
  <2> QED
    BY <1>2, <2>4, <2>5, <2>7, <2>8, <2>9 DEF n
<1> QED
  BY <1>3, <1>4

-------------------------------------------------------------------------------
\* The plan: what an asset gets is a whole number of its price.

Multiple(x, d) == \E m \in Nat : x = d * m

LEMMA ExactDivision ==
  ASSUME NEW d \in Nat \ {0}, NEW k \in Nat
  PROVE  (d * k) \div d = k
  OBVIOUS

LEMMA Divides ==
  ASSUME NEW x \in Nat, NEW d \in Nat \ {0}, x % d = 0
  PROVE  \E k \in Nat : x = d * k
<1>1. x = d * (x \div d) + (x % d) /\ x \div d \in Int /\ x \div d >= 0
  OBVIOUS
<1> QED
  BY <1>1

LEMMA PriceDivides ==
  ASSUME NEW venues \in Divisors, NEW symbols \in 1 .. Cardinality(Symbols),
         NEW price \in Range(Mid) \cup {1}
  PROVE  \E k \in Nat : SeedUsdTotal = (2 * venues * symbols * price) * k
<1> DEFINE d == 2 * venues * symbols * price
<1>1. price \in Nat \ {0}
  BY StartupConstantsAreTyped DEF Range
<1>2. venues \in Nat \ {0} /\ symbols \in Nat \ {0}
  <2>2. symbols >= 1 /\ symbols \in Int
    OBVIOUS
  <2> QED
    BY <2>2, DivisorsArePositive
<1>3. d \in Nat \ {0}
  <2>1. \A x, y \in Nat \ {0} : x * y \in Nat \ {0}
    OBVIOUS
  <2>2. 2 \in Nat \ {0}
    OBVIOUS
  <2>3. 2 * venues \in Nat \ {0}
    BY <1>2, <2>1, <2>2
  <2>4. 2 * venues * symbols \in Nat \ {0}
    BY <1>2, <2>1, <2>3
  <2> QED
    BY <1>1, <2>1, <2>4
<1>4. SeedUsdTotal \in Nat /\ SeedUsdTotal % d = 0
  BY SharesAreExact, StartupConstantsAreTyped
<1> HIDE DEF d
<1>5. \E k \in Nat : SeedUsdTotal = d * k
  BY <1>3, <1>4, Divides
<1> QED
  BY <1>5 DEF d

LEMMA FactorsMove ==
  ASSUME NEW a \in Nat, NEW b \in Nat, NEW c \in Nat, NEW d \in Nat
  PROVE  /\ (2 * a * b * c) * d = a * (2 * b * c * d)
         /\ (2 * b * c * d) * a = (2 * b) * (c * (d * a))
         /\ 2 * b * c * d = (2 * b) * (c * d)
         /\ c * d + c * a = c * (d + a)
  OBVIOUS

\* The dollars a venue gets, and how they divide.
LEMMA SharesOfAVenue ==
  ASSUME NEW venues \in Divisors, NEW parts \in 1 .. Cardinality(Symbols),
         NEW price \in Range(Mid) \cup {1}, NEW usd, usd = SeedUsdTotal \div venues
  PROVE  \E k \in Nat :
           /\ SeedUsdTotal = venues * usd
           /\ usd = 2 * parts * price * k
           /\ \A uses \in Nat : (usd * uses) \div (2 * parts) = price * (k * uses)
           /\ usd \div (2 * parts) = price * k
<1>1. PICK k \in Nat : SeedUsdTotal = (2 * venues * parts * price) * k
  BY PriceDivides
<1>2. price \in Nat \ {0} /\ venues \in Nat \ {0} /\ parts \in Nat \ {0}
  <2>1. price \in Nat \ {0}
    BY StartupConstantsAreTyped DEF Range
  <2>2. parts >= 1 /\ parts \in Int
    OBVIOUS
  <2> QED
    BY <2>1, <2>2, DivisorsArePositive
<1> DEFINE share == 2 * parts * price * k
           base == price * k
           twice == 2 * parts
<1>3. \A x, y \in Nat : x * y \in Nat
  OBVIOUS
<1>4. share \in Nat /\ base \in Nat /\ twice \in Nat \ {0}
  <2>1. 2 * parts \in Nat /\ 2 * parts # 0
    BY <1>2
  <2>2. 2 * parts * price \in Nat
    BY <1>2, <1>3, <2>1
  <2> QED
    BY <1>2, <1>3, <2>1, <2>2
<1>5. SeedUsdTotal = venues * share
  BY <1>1, <1>2, FactorsMove
<1>6. share = twice * base
  BY <1>2, FactorsMove
<1>7. usd = share
  <2> HIDE DEF share
  <2> QED
    BY <1>2, <1>4, <1>5, ExactDivision
<1>8. ASSUME NEW uses \in Nat
      PROVE  (usd * uses) \div twice = price * (k * uses)
  <2> DEFINE quote == price * (k * uses)
  <2>1. quote \in Nat
    BY <1>2, <1>3
  <2>2. share * uses = twice * quote
    BY <1>2, FactorsMove
  <2> HIDE DEF share, quote, twice
  <2>3. (usd * uses) \div twice = quote
    BY <1>4, <1>7, <2>1, <2>2, ExactDivision
  <2> QED
    BY <2>3 DEF quote
<1>9. usd \div twice = base
  <2> HIDE DEF share, base, twice
  <2> QED
    BY <1>4, <1>6, <1>7, ExactDivision
<1> QED
  BY <1>5, <1>7, <1>8, <1>9

LEMMA AssetsAreFinite == IsFiniteSet(Assets)
<1> DEFINE bases == [s \in Symbols |-> s[1]]
           quotes == [s \in Symbols |-> s[2]]
<1>1. bases \in [Symbols -> Range(bases)] /\ quotes \in [Symbols -> Range(quotes)]
  BY DEF Range
<1>2. Assets = Range(bases) \cup Range(quotes)
  BY SymbolsAreFinite DEF Assets, Range
<1> HIDE DEF bases, quotes
<1>3. IsFiniteSet(Range(bases)) /\ IsFiniteSet(Range(quotes))
  BY <1>1, SymbolsAreFinite, RangeIsFinite
<1> QED
  BY <1>2, <1>3, FS_Union

\* The lists that select_pollable_symbols may return.
Lists == {list \in Seq(Symbols) : list # <<>> /\ Len(list) <= Cardinality(Symbols)}
BasesOf(list) == {list[i][1] : i \in DOMAIN list}
UsesOf(list, a) == {i \in DOMAIN list : list[i][2] = a}

LEMMA SizesOfAList ==
  ASSUME NEW list \in Lists
  PROVE  /\ Len(list) \in 1 .. Cardinality(Symbols) /\ DOMAIN list = 1 .. Len(list)
         /\ IsFiniteSet(DOMAIN list) /\ Cardinality(DOMAIN list) = Len(list)
         /\ IsFiniteSet(BasesOf(list)) /\ BasesOf(list) \subseteq Assets
         /\ Cardinality(BasesOf(list)) \in 1 .. Cardinality(Symbols)
         /\ \A a : /\ IsFiniteSet(UsesOf(list, a)) /\ Cardinality(UsesOf(list, a)) \in Nat
                   /\ UsesOf(list, a) # {} => Cardinality(UsesOf(list, a)) > 0
         /\ \A i \in DOMAIN list : list[i] \in Symbols /\ Range(list[i]) = {list[i][1], list[i][2]}
                                  /\ Range(list[i]) \subseteq Assets
<1> DEFINE n == Len(list)
           all == Cardinality(Symbols)
           base == [i \in 1 .. n |-> list[i][1]]
<1>1. n \in Nat /\ n # 0 /\ n <= all /\ DOMAIN list = 1 .. n
  BY DEF Lists
<1>2. all \in Nat
  BY SymbolsAreFinite, FS_CardinalityType
<1>3. ASSUME NEW i \in 1 .. n
      PROVE  /\ list[i] \in Symbols /\ Range(list[i]) = {list[i][1], list[i][2]}
             /\ Range(list[i]) \subseteq Assets
  <2>1. list[i] \in Symbols
    BY DEF Lists
  <2>2. PICK b, q : list[i] = <<b, q>> /\ Range(list[i]) = {b, q}
    BY <2>1, SymbolsAreFinite
  <2> QED
    BY <2>1, <2>2 DEF Assets
<1> HIDE DEF n, all
<1>4. IsFiniteSet(1 .. n) /\ Cardinality(1 .. n) = n
  BY <1>1, FS_Interval
<1>5. BasesOf(list) = Range(base) /\ base \in [1 .. n -> Range(base)]
  BY <1>1 DEF BasesOf, Range
<1>6. 1 \in 1 .. n
  BY <1>1
<1>7. BasesOf(list) # {} /\ BasesOf(list) \subseteq Assets
  BY <1>1, <1>3, <1>6 DEF BasesOf
<1> HIDE DEF base
<1>8. IsFiniteSet(BasesOf(list)) /\ Cardinality(BasesOf(list)) <= n
  BY <1>4, <1>5, RangeIsFinite
<1>9. Cardinality(BasesOf(list)) \in Nat /\ Cardinality(BasesOf(list)) # 0
  BY <1>7, <1>8, FS_EmptySet, FS_CardinalityType
<1>10. Cardinality(BasesOf(list)) \in 1 .. all /\ n \in 1 .. all
  BY <1>1, <1>2, <1>8, <1>9
<1>11. ASSUME NEW a
       PROVE  /\ IsFiniteSet(UsesOf(list, a)) /\ Cardinality(UsesOf(list, a)) \in Nat
              /\ UsesOf(list, a) # {} => Cardinality(UsesOf(list, a)) > 0
  <2>1. UsesOf(list, a) \in SUBSET (1 .. n)
    BY <1>1 DEF UsesOf
  <2>2. IsFiniteSet(UsesOf(list, a))
    BY <1>4, <2>1, FS_Subset
  <2> QED
    BY <2>2, FS_EmptySet, FS_CardinalityType
<1> QED
  BY <1>1, <1>3, <1>4, <1>7, <1>8, <1>10, <1>11 DEF n, all

\* The plan of an asset is a multiple of whatever price it has, and there is some
\* for the base and the quote of every symbol, if there is any capital.
LEMMA PlanOfAnAsset ==
  ASSUME NEW list \in Lists, NEW venues \in Divisors,
         NEW usd, usd = SeedUsdTotal \div venues, NEW a,
         NEW price \in Range(Mid) \cup {1}
  PROVE  /\ QuoteShare(list, usd, a) \in Nat /\ BaseShare(list, usd, a) \in Nat
         /\ Multiple(QuoteShare(list, usd, a) + BaseShare(list, usd, a), price)
         /\ usd > 0 /\ (a \in BasesOf(list) \/ UsesOf(list, a) # {})
              => QuoteShare(list, usd, a) + BaseShare(list, usd, a) > 0
<1> DEFINE n == Len(list)
           bases == Cardinality(BasesOf(list))
           uses == Cardinality(UsesOf(list, a))
<1>1. /\ n \in 1 .. Cardinality(Symbols) /\ bases \in 1 .. Cardinality(Symbols)
      /\ uses \in Nat
      /\ UsesOf(list, a) # {} => uses > 0
  BY SizesOfAList
<1>2. /\ QuoteShare(list, usd, a) = (usd * uses) \div (2 * n)
      /\ BaseShare(list, usd, a) = IF a \in BasesOf(list) THEN usd \div (2 * bases) ELSE 0
  BY DEF QuoteShare, BaseShare, UsesOf, BasesOf
<1>p. price \in Nat \ {0}
  BY StartupConstantsAreTyped DEF Range
<1>z. n \in Nat /\ bases \in Nat
  <2>1. n >= 1 /\ n \in Int /\ bases >= 1 /\ bases \in Int
    BY <1>1
  <2> QED
    BY <2>1
<1> HIDE DEF n, bases, uses
<1>3. PICK k \in Nat :
        /\ usd = 2 * n * price * k
        /\ \A some \in Nat : (usd * some) \div (2 * n) = price * (k * some)
  BY <1>1, SharesOfAVenue
<1>4. PICK l \in Nat : usd = 2 * bases * price * l /\ usd \div (2 * bases) = price * l
  BY <1>1, SharesOfAVenue
<1>5. \A x, y \in Nat : x * y \in Nat /\ (x > 0 /\ y > 0 => x * y > 0)
  OBVIOUS
<1> DEFINE fromBase == IF a \in BasesOf(list) THEN l ELSE 0
           fromQuote == k * uses
<1>a. \A x \in Nat : x > 0 /\ uses > 0 => x * uses > 0
  BY <1>1, <1>5
<1>6. fromBase \in Nat /\ fromQuote \in Nat
  <2>1. k * uses \in Nat
    BY <1>1, <1>5
  <2> QED
    BY <2>1
<1>7. QuoteShare(list, usd, a) = price * fromQuote /\ BaseShare(list, usd, a) = price * fromBase
  <2>1. (usd * uses) \div (2 * n) = price * (k * uses)
    BY <1>1, <1>3
  <2>2. price * 0 = 0
    BY <1>p
  <2>3. BaseShare(list, usd, a) = price * fromBase
    BY <1>2, <1>4, <2>2
  <2> QED
    BY <1>2, <2>1, <2>3
<1>8. usd > 0 => k > 0 /\ l > 0
  <2>1. \A x \in Nat : x * 0 = 0
    OBVIOUS
  <2>2. 2 * n * price \in Nat /\ 2 * bases * price \in Nat
    BY <1>5, <1>z, <1>p
  <2> QED
    BY <1>3, <1>4, <2>1, <2>2
<1>9. usd > 0 /\ (a \in BasesOf(list) \/ UsesOf(list, a) # {}) => fromBase + fromQuote > 0
  <2>1. ASSUME usd > 0, a \in BasesOf(list)
        PROVE  fromBase > 0
    BY <1>8, <2>1
  <2>2. ASSUME usd > 0, UsesOf(list, a) # {}
        PROVE  fromQuote > 0
    BY <1>1, <1>8, <1>a, <2>2
  <2> HIDE DEF fromBase, fromQuote
  <2> QED
    BY <1>6, <2>1, <2>2
<1> HIDE DEF fromBase, fromQuote
<1> DEFINE some == fromBase + fromQuote
           shares == QuoteShare(list, usd, a) + BaseShare(list, usd, a)
<1>10. price * fromQuote + price * fromBase = price * some
  BY <1>6, <1>p
<1>11. some \in Nat /\ price * fromQuote \in Nat /\ price * fromBase \in Nat
  BY <1>5, <1>6, <1>p
<1>12. shares = price * some /\ (some > 0 => price * some > 0)
  <2>1. shares = price * some
    BY <1>7, <1>10
  <2> HIDE DEF some, shares
  <2> QED
    BY <1>5, <1>11, <1>p, <2>1
<1>13. QuoteShare(list, usd, a) \in Nat /\ BaseShare(list, usd, a) \in Nat
  BY <1>7, <1>11
<1>14. Multiple(shares, price)
  <2> HIDE DEF some, shares
  <2> QED
    BY <1>11, <1>12 DEF Multiple
<1>15. usd > 0 /\ (a \in BasesOf(list) \/ UsesOf(list, a) # {}) => shares > 0
  <2> HIDE DEF shares
  <2> QED
    BY <1>9, <1>12
<1> QED
  BY <1>13, <1>14, <1>15

\* What no symbol trades gets nothing.
LEMMA NothingForOthers ==
  ASSUME NEW list \in Lists, NEW usd \in Nat, NEW a,
         a \notin BasesOf(list), UsesOf(list, a) = {}
  PROVE  QuoteShare(list, usd, a) + BaseShare(list, usd, a) = 0
<1> DEFINE d == 2 * Len(list)
<1>1. BaseShare(list, usd, a) = 0
  BY DEF BaseShare, BasesOf
<1>2. QuoteShare(list, usd, a) = (usd * 0) \div d
  BY FS_EmptySet DEF QuoteShare, UsesOf
<1>3. Len(list) \in Nat /\ Len(list) # 0
  BY DEF Lists
<1>4. d \in Nat \ {0} /\ usd * 0 = d * 0
  BY <1>3
<1> HIDE DEF d
<1>5. (d * 0) \div d = 0
  BY <1>4, ExactDivision
<1> QED
  BY <1>1, <1>2, <1>4, <1>5

\* The plan spends the venue's dollars, all of them.
LEMMA PlanAddsUp ==
  ASSUME NEW list \in Lists, NEW venues \in Divisors,
         NEW usd, usd = SeedUsdTotal \div venues
  PROVE  SumFunctionOnSet([a \in Assets |-> QuoteShare(list, usd, a) + BaseShare(list, usd, a)],
                          Assets) = usd
<1> DEFINE n == Len(list)
           bases == Cardinality(BasesOf(list))
           uses == [a \in Assets |-> Cardinality(UsesOf(list, a))]
           quote == [a \in Assets |-> QuoteShare(list, usd, a)]
           base == [a \in Assets |-> BaseShare(list, usd, a)]
           both == [a \in Assets |-> QuoteShare(list, usd, a) + BaseShare(list, usd, a)]
           second == [i \in DOMAIN list |-> list[i][2]]
<1>1. n \in 1 .. Cardinality(Symbols) /\ bases \in 1 .. Cardinality(Symbols)
  BY SizesOfAList
<1>2. n \in Nat /\ bases \in Nat /\ 1 \in Range(Mid) \cup {1}
  <2>1. n >= 1 /\ n \in Int /\ bases >= 1 /\ bases \in Int
    BY <1>1
  <2> QED
    BY <2>1
<1>3. \A a \in Assets : quote[a] \in Int /\ base[a] \in Int /\ both[a] = quote[a] + base[a]
  <2>1. ASSUME NEW a \in Assets
        PROVE  QuoteShare(list, usd, a) \in Nat /\ BaseShare(list, usd, a) \in Nat
    BY <1>2, PlanOfAnAsset
  <2> QED
    BY <2>1
<1>4. SumFunctionOnSet(both, Assets)
        = SumFunctionOnSet(quote, Assets) + SumFunctionOnSet(base, Assets)
  <2> HIDE DEF both, quote, base
  <2> QED
    BY <1>3, AssetsAreFinite, SumAdd
<1>5. SumFunctionOnSet(uses, Assets) = n
  <2> DEFINE all == DOMAIN list
             class == [a \in Assets |-> UsesOf(list, a)]
  <2>1. \A i \in all : second[i] \in Assets
    BY SizesOfAList
  <2>2. /\ \A a \in Assets : class[a] \subseteq all
        /\ \A a \in Assets : \A i \in all : i \in class[a] <=> second[i] = a
        /\ \A a \in Assets : uses[a] = Cardinality(class[a])
    BY DEF UsesOf
  <2>3. IsFiniteSet(all) /\ Cardinality(all) = n
    BY SizesOfAList
  <2> HIDE DEF uses, second, n, all, class
  <2>4. SumFunctionOnSet(uses, Assets) = Cardinality(all)
    BY <2>1, <2>2, <2>3, AssetsAreFinite, SumOfClasses
  <2> QED
    BY <2>3, <2>4
<1>6. \A a \in Assets : uses[a] \in Nat
  BY SizesOfAList
<1>7. \A a \in Assets : quote[a] = (usd * uses[a]) \div (2 * n)
  BY DEF QuoteShare, UsesOf
<1>8. \A a \in Assets : base[a] = IF a \in BasesOf(list) THEN usd \div (2 * bases) ELSE 0
  BY DEF BaseShare, BasesOf
<1>9. IsFiniteSet(BasesOf(list)) /\ BasesOf(list) \in SUBSET Assets
  BY SizesOfAList
<1> HIDE DEF uses, quote, base, both
<1> DEFINE one == 1
<1>a. one \in Range(Mid) \cup {1}
  BY <1>2
<1>10. PICK k \in Nat : usd = 2 * n * 1 * k /\ \A a \in Assets : quote[a] = k * uses[a]
  <2>1. PICK k \in Nat :
          /\ usd = 2 * n * one * k
          /\ \A some \in Nat : (usd * some) \div (2 * n) = one * (k * some)
    <3> HIDE DEF n, one
    <3> QED
      BY <1>1, <1>a, SharesOfAVenue
  <2>2. \A some \in Nat : 1 * (k * some) = k * some
    OBVIOUS
  <2> HIDE DEF n
  <2> QED
    BY <1>6, <1>7, <2>1, <2>2
<1>11. PICK l \in Nat : usd = 2 * bases * 1 * l /\ usd \div (2 * bases) = l
  <2>1. PICK l \in Nat :
          /\ usd = 2 * bases * one * l
          /\ \A some \in Nat : (usd * some) \div (2 * bases) = one * (l * some)
          /\ usd \div (2 * bases) = one * l
    <3> HIDE DEF bases, one
    <3> QED
      BY <1>1, <1>a, SharesOfAVenue
  <2> QED
    BY <2>1
<1>12. SumFunctionOnSet(quote, Assets) = k * n
  <2>1. \A a \in Assets : uses[a] \in Int /\ quote[a] = k * uses[a]
    BY <1>6, <1>10
  <2>2. SumFunctionOnSet(quote, Assets) = k * SumFunctionOnSet(uses, Assets)
    BY <2>1, AssetsAreFinite, SumScale
  <2> QED
    BY <1>5, <2>2
<1>13. SumFunctionOnSet(base, Assets) = l * bases
  <2>1. /\ \A a \in Assets : base[a] \in Int
        /\ \A a \in BasesOf(list) : base[a] = l
        /\ \A a \in Assets \ BasesOf(list) : base[a] = 0
    BY <1>3, <1>8, <1>9, <1>11
  <2>2. SumFunctionOnSet(base, Assets) = SumFunctionOnSet(base, BasesOf(list))
    BY <1>9, <2>1, AssetsAreFinite, SumOutside
  <2>3. SumFunctionOnSet(base, BasesOf(list)) = l * Cardinality(BasesOf(list))
    <3> DEFINE part == BasesOf(list)
    <3>1. l \in Int /\ IsFiniteSet(part) /\ \A a \in part : base[a] = l
      BY <1>9, <2>1
    <3> HIDE DEF part
    <3>2. SumFunctionOnSet(base, part) = l * Cardinality(part)
      BY <3>1, SumConstant
    <3> QED
      BY <3>2 DEF part
  <2> QED
    BY <2>2, <2>3
<1>14. k * n + l * bases = usd
  <2> DEFINE kn == k * n
             lb == l * bases
  <2>1. usd = 2 * kn /\ usd = 2 * lb /\ kn \in Nat /\ lb \in Nat
    <3> HIDE DEF n, bases
    <3>1. 2 * n * 1 * k = 2 * (k * n) /\ 2 * bases * 1 * l = 2 * (l * bases)
      BY <1>2
    <3>2. k * n \in Nat /\ l * bases \in Nat
      BY <1>2
    <3> QED
      BY <1>10, <1>11, <3>1, <3>2
  <2> HIDE DEF kn, lb
  <2>2. kn + lb = usd
    BY <2>1
  <2> QED
    BY <2>2 DEF kn, lb
<1> QED
  BY <1>4, <1>12, <1>13, <1>14 DEF both

-------------------------------------------------------------------------------
\* What the capital rests on: the loop trades only with symbols and venues; what no
\* exchange has reported is what is planned on the books as they are, or nothing;
\* and all that is planned is there until an exchange reports something else.
PaperIsPlanned ==
  /\ \A k \in Accounts \ reported :
       inventory[k] # 0 =>
         "paper" \in seeded_modes /\ k \in DOMAIN PaperCapital /\ inventory[k] = PaperCapital[k]
  /\ intact =>
       /\ "paper" \in seeded_modes
       /\ \A k \in Accounts \cap DOMAIN PaperCapital :
            k \notin reported /\ inventory[k] = PaperCapital[k]

StartupInvariant ==
  /\ environ \in Settings
  /\ symbol_list \in Seq(Symbols) /\ Len(symbol_list) <= Cardinality(Symbols)
  /\ Connected \subseteq Venues
  /\ Feeding => symbol_list # <<>> /\ Connected # {}
  /\ ~Feeding => "paper" \notin seeded_modes /\ unfetched = {}
  /\ PaperIsPlanned

LEMMA InitHolds == StartInit => StartupInvariant
<1> SUFFICES ASSUME StartInit
             PROVE  StartupInvariant
  OBVIOUS
<1>1. Cardinality(Symbols) \in Nat
  BY SymbolsAreFinite, FS_CardinalityType
<1>2. symbol_list \in Seq(Symbols) /\ Len(symbol_list) = 0
  BY DEF StartInit
<1>3. Connected = {}
  BY DEF StartInit, Connected
<1>4. PaperIsPlanned
  <2>1. ~intact /\ inventory = [k \in Accounts |-> 0]
    BY DEF StartInit
  <2> QED
    BY <2>1 DEF PaperIsPlanned
<1> QED
  BY <1>1, <1>2, <1>3, <1>4 DEF StartInit, StartupInvariant, Feeding

\* Where no paper capital has been laid out, there is none.
LEMMA NothingIsPlanned ==
  ASSUME PaperIsPlanned, "paper" \notin seeded_modes,
         UNCHANGED <<inventory, seeded_modes, reported, intact>>
  PROVE  PaperIsPlanned'
<1>1. ~intact /\ \A k \in Accounts \ reported : inventory[k] = 0
  BY DEF PaperIsPlanned
<1> HIDE DEF Accounts
<1>2. Accounts' = Accounts
  BY DEF Accounts
<1>3. ~intact' /\ \A k \in Accounts \ reported' : inventory'[k] = 0
  BY <1>1
<1> HIDE DEF PaperCapital
<1> QED
  BY <1>2, <1>3 DEF PaperIsPlanned

LEMMA ConnectHolds ==
  ASSUME StartupInvariant, NEW markets, DOMAIN markets \subseteq Venues,
         \A v \in DOMAIN markets : markets[v] \subseteq Symbols, Connect(markets)
  PROVE  StartupInvariant'
<1> DEFINE listed == [v \in DOMAIN markets |-> TradeableSymbols(clients'[v])]
<1>1. /\ phase = "connecting" /\ UNCHANGED <<environ, fundVars>>
      /\ clients' = [v \in DOMAIN markets |-> Pruned(markets[v])]
      /\ symbol_list' = IF Cardinality(DOMAIN markets) < MinConnected THEN <<>>
                        ELSE SelectPollable(listed)
      /\ phase' = IF symbol_list' = <<>> THEN "aborted"
                  ELSE IF mode = "monitor" THEN "trading" ELSE "waiting"
  BY DEF Connect
<1>2. IsFiniteSet(DOMAIN markets)
  BY VenuesAreFinite, FS_Subset
<1>3. Connected' = DOMAIN markets
  BY <1>1 DEF Connected
<1>4. \A v \in DOMAIN listed : listed[v] \subseteq Symbols
  BY <1>1 DEF Pruned, TradeableSymbols
<1>5. SelectPollable(listed) \in Seq(Symbols) /\ Len(SelectPollable(listed)) <= Cardinality(Symbols)
  <2>1. IsFiniteSet(DOMAIN listed)
    BY <1>2
  <2> HIDE DEF listed
  <2> QED
    BY <1>4, <2>1, SelectionIsAList
<1> HIDE DEF listed
<1>6. symbol_list' \in Seq(Symbols) /\ Len(symbol_list') <= Cardinality(Symbols)
  <2>1. CASE Cardinality(DOMAIN markets) < MinConnected
    <3>1. Cardinality(Symbols) \in Nat
      BY SymbolsAreFinite, FS_CardinalityType
    <3>2. symbol_list' = <<>>
      BY <1>1, <2>1
    <3>3. symbol_list' \in Seq(Symbols) /\ Len(symbol_list') = 0
      BY <3>2
    <3> QED
      BY <3>1, <3>3
  <2>2. CASE ~(Cardinality(DOMAIN markets) < MinConnected)
    BY <1>1, <1>5, <2>2
  <2> QED
    BY <2>1, <2>2
<1>7. ASSUME symbol_list' # <<>>
      PROVE  Connected' # {}
  <2>1. ~(Cardinality(DOMAIN markets) < MinConnected) /\ MinConnected \in Nat \ {0}
    BY <1>1, <1>7, StartupConstantsAreTyped
  <2>2. Cardinality({}) = 0
    BY FS_EmptySet
  <2> QED
    BY <1>3, <2>1, <2>2
<1>8. /\ "paper" \notin seeded_modes /\ unfetched = {}
      /\ UNCHANGED <<inventory, seeded_modes, unfetched, reported, intact>>
  BY <1>1 DEF StartupInvariant, Feeding, fundVars
<1>9. PaperIsPlanned'
  BY <1>8, NothingIsPlanned DEF StartupInvariant
<1>10. Feeding' => symbol_list' # <<>>
  BY <1>1 DEF Feeding
<1> QED
  BY <1>1, <1>3, <1>6, <1>7, <1>8, <1>9, <1>10 DEF StartupInvariant

\* The plan is of the symbols, the settings, the clients and the books.
LEMMA PlanStays ==
  ASSUME UNCHANGED <<environ, clients, symbol_list, books>>
  PROVE  PaperCapital' = PaperCapital
<1>1. Connected' = Connected /\ Polled' = Polled
  BY DEF Connected, Polled
<1>2. ChosenPlaces' = ChosenPlaces
  BY <1>1 DEF ChosenPlaces
<1>3. ByCoverage' = ByCoverage
  BY <1>1 DEF ByCoverage, Coverage
<1>4. VenuesToFund' = VenuesToFund
  BY <1>1, <1>2, <1>3 DEF VenuesToFund
<1>5. Portions' = Portions
  BY <1>2, <1>4 DEF Portions
<1> QED
  BY <1>4, <1>5 DEF PaperCapital, UsdPrice

LEMMA QuietHolds ==
  ASSUME StartupInvariant,
         UNCHANGED <<environ, clients, symbol_list, books, phase, fundVars>>
  PROVE  StartupInvariant'
<1>1. PaperCapital' = PaperCapital
  BY PlanStays
<1> HIDE DEF PaperCapital
<1>2. PaperIsPlanned'
  BY <1>1 DEF StartupInvariant, PaperIsPlanned, fundVars
<1> QED
  BY <1>2 DEF StartupInvariant, Connected, Feeding, fundVars

LEMMA AnswerHolds ==
  ASSUME StartupInvariant, NEW k, NEW book, Answer(k, book)
  PROVE  StartupInvariant'
<1>1. /\ UNCHANGED <<environ, clients, symbol_list, phase, fundVars>>
      /\ books' = IF "paper" \in seeded_modes THEN books ELSE [books EXCEPT ![k] = book]
  BY DEF Answer, setVars
<1>2. CASE "paper" \notin seeded_modes
  <2>1. PaperIsPlanned'
    BY <1>1, <1>2, NothingIsPlanned DEF StartupInvariant, fundVars
  <2> QED
    BY <1>1, <2>1 DEF StartupInvariant, Connected, Feeding, fundVars
<1>3. CASE "paper" \in seeded_modes
  BY <1>1, <1>3, QuietHolds
<1> QED
  BY <1>2, <1>3

\* Whatever was planned before, all of it is there now.
LEMMA SeedingHolds ==
  ASSUME StartupInvariant, Feeding, Feeding', SeedForMode,
         UNCHANGED <<environ, clients, symbol_list, books>>
  PROVE  StartupInvariant'
<1>1. PaperCapital' = PaperCapital
  BY PlanStays
<1> HIDE DEF PaperCapital
<1>2. CASE SeedPaper
  <2>1. /\ "paper" \in seeded_modes'
        /\ reported' = reported \ DOMAIN PaperCapital
        /\ inventory' = [k \in Accounts |-> IF k \in DOMAIN PaperCapital THEN PaperCapital[k]
                                            ELSE inventory[k]]
    BY <1>2 DEF SeedPaper
  <2>2. ASSUME NEW k \in Accounts \ reported', inventory'[k] # 0
        PROVE  k \in DOMAIN PaperCapital /\ inventory'[k] = PaperCapital[k]
    <3>1. CASE k \in DOMAIN PaperCapital
      BY <2>1, <3>1
    <3>2. CASE k \notin DOMAIN PaperCapital
      <4>1. k \notin reported /\ inventory'[k] = inventory[k]
        BY <2>1, <3>2
      <4> QED
        BY <2>2, <3>2, <4>1 DEF StartupInvariant, PaperIsPlanned
    <3> QED
      BY <3>1, <3>2
  <2>3. \A k \in Accounts \cap DOMAIN PaperCapital :
          k \notin reported' /\ inventory'[k] = PaperCapital[k]
    BY <2>1
  <2>4. PaperIsPlanned'
    BY <1>1, <2>1, <2>2, <2>3 DEF PaperIsPlanned
  <2> QED
    BY <2>4 DEF StartupInvariant, Connected
<1>3. CASE UNCHANGED <<inventory, seeded_modes, reported, intact>>
  <2>1. PaperIsPlanned'
    BY <1>1, <1>3 DEF StartupInvariant, PaperIsPlanned
  <2> QED
    BY <2>1 DEF StartupInvariant, Connected
<1> QED
  BY <1>2, <1>3 DEF SeedForMode

\* What an exchange reports is not paper capital any more.
LEMMA FetchHolds ==
  ASSUME StartupInvariant, NEW v, NEW free, Fetch(v, free)
  PROVE  StartupInvariant'
<1>1. /\ v \in unfetched /\ seeded_modes \subseteq seeded_modes'
      /\ inventory' = [k \in Accounts |->
                         IF k[1] = v /\ k[2] \in DOMAIN free THEN free[k[2]] ELSE inventory[k]]
      /\ reported' = reported \cup ({v} \X DOMAIN free)
      /\ intact' = (intact /\ DOMAIN free = {})
      /\ phase' = "trading" \/ phase' = phase
      /\ UNCHANGED <<environ, clients, symbol_list, books>>
  BY DEF Fetch, setVars
<1>2. Feeding /\ Feeding'
  BY <1>1 DEF StartupInvariant, Feeding
<1>3. PaperCapital' = PaperCapital
  BY <1>1, PlanStays
<1> HIDE DEF PaperCapital
<1>4. ASSUME NEW k \in Accounts, k \notin reported'
      PROVE  k \notin reported /\ inventory'[k] = inventory[k]
  <2>1. PICK u \in Venues, a \in Assets : k = <<u, a>>
    BY DEF Accounts
  <2>2. ~(k[1] = v /\ k[2] \in DOMAIN free)
    BY <1>1, <1>4, <2>1
  <2> QED
    BY <1>1, <1>4, <2>2
<1>5. ASSUME NEW k \in Accounts \ reported', inventory'[k] # 0
      PROVE  /\ "paper" \in seeded_modes' /\ k \in DOMAIN PaperCapital
             /\ inventory'[k] = PaperCapital[k]
  BY <1>1, <1>4, <1>5 DEF StartupInvariant, PaperIsPlanned
<1>6. ASSUME intact'
      PROVE  /\ "paper" \in seeded_modes'
             /\ \A k \in Accounts \cap DOMAIN PaperCapital :
                  k \notin reported' /\ inventory'[k] = PaperCapital[k]
  <2>1. intact /\ reported' = reported
    BY <1>1, <1>6
  <2>2. /\ "paper" \in seeded_modes
        /\ \A k \in Accounts \cap DOMAIN PaperCapital :
             k \notin reported /\ inventory[k] = PaperCapital[k]
    BY <2>1 DEF StartupInvariant, PaperIsPlanned
  <2> QED
    BY <1>1, <1>4, <2>1, <2>2
<1>7. PaperIsPlanned'
  BY <1>3, <1>5, <1>6 DEF PaperIsPlanned
<1> QED
  BY <1>1, <1>2, <1>7 DEF StartupInvariant, Connected

LEMMA StepHolds == StartupInvariant /\ [StartNext]_startVars => StartupInvariant'
<1> SUFFICES ASSUME StartupInvariant, [StartNext]_startVars
             PROVE  StartupInvariant'
  OBVIOUS
<1>1. CASE phase = "connecting" /\ \E up \in SUBSET Venues, listed \in [Venues -> UNION Range(Catalogues)] :
             /\ \A v \in up : listed[v] \in Catalogues[v]
             /\ Connect([v \in up |-> listed[v]])
  <2>1. PICK up \in SUBSET Venues, listed \in [Venues -> UNION Range(Catalogues)] :
               /\ \A v \in up : listed[v] \in Catalogues[v]
               /\ Connect([v \in up |-> listed[v]])
    BY <1>1
  <2> DEFINE markets == [v \in up |-> listed[v]]
  <2>2. DOMAIN markets \subseteq Venues /\ \A v \in DOMAIN markets : markets[v] \subseteq Symbols
    BY <2>1, StartupConstantsAreTyped
  <2>3. Connect(markets)
    BY <2>1
  <2> HIDE DEF markets
  <2> QED
    BY <2>2, <2>3, ConnectHolds
<1>2. CASE \/ StartCycle \/ EndCycle \/ KeepWaiting \/ TimePasses \/ UNCHANGED startVars
           \/ \E m \in Modes : SetMode(m)
  <2>1. UNCHANGED <<environ, clients, symbol_list, books, phase, fundVars>>
    BY <1>2 DEF StartCycle, EndCycle, KeepWaiting, TimePasses, SetMode, startVars, setVars
  <2> QED
    BY <2>1, QuietHolds
<1>3. CASE \E k \in outstanding, book \in {"empty", "priced"} : Answer(k, book)
  BY <1>3, AnswerHolds
<1>4. CASE \E k \in outstanding : PollFails(k)
  BY <1>4, AnswerHolds DEF PollFails
<1>5. CASE StartTrading \/ EnterMode
  <2>1. /\ Feeding /\ Feeding' /\ SeedForMode
        /\ UNCHANGED <<environ, clients, symbol_list, books>>
    BY <1>5 DEF StartTrading, EnterMode, Feeding, setVars
  <2> QED
    BY <2>1, SeedingHolds
<1>6. CASE FetchEnds
  BY <1>6, FetchHolds DEF FetchEnds, FetchFails
<1> QED
  BY <1>1, <1>2, <1>3, <1>4, <1>5, <1>6 DEF StartNext

-------------------------------------------------------------------------------
\* What the plan is worth.

VenueUsd == SeedUsdTotal \div Portions
Share(a) == QuoteShare(symbol_list, VenueUsd, a) + BaseShare(symbol_list, VenueUsd, a)
PricedShare(a) == IF UsdPrice(a) > 0 THEN Share(a) ELSE 0
PricedShares == SumFunctionOnSet([a \in Assets |-> PricedShare(a)], Assets)

LEMMA PriceIsTyped ==
  ASSUME NEW a \in Assets
  PROVE  /\ UsdPrice(a) \in Nat
         /\ UsdPrice(a) > 0 => UsdPrice(a) \in Range(Mid) \cup {1}
<1>1. Mid[a] \in Nat \ {0} /\ Mid[a] \in Range(Mid)
  BY StartupConstantsAreTyped DEF Range
<1>2. UsdPrice(a) = 1 \/ UsdPrice(a) = Mid[a] \/ UsdPrice(a) = 0
  BY DEF UsdPrice
<1> QED
  BY <1>1, <1>2

LEMMA Planning ==
  ASSUME StartupInvariant, "paper" \in seeded_modes
  PROVE  /\ symbol_list \in Lists /\ VenuesToFund \in SUBSET Venues /\ VenuesToFund # {}
         /\ Portions \in Divisors /\ Portions \in Nat \ {0}
         /\ IsFiniteSet(VenuesToFund) /\ Cardinality(VenuesToFund) \in Nat
         /\ Cardinality(VenuesToFund) <= Portions
         /\ NamedOnce => Cardinality(VenuesToFund) = Portions
         /\ VenueUsd \in Nat /\ SeedUsdTotal = Portions * VenueUsd
<1>1. /\ symbol_list \in Lists /\ Connected \subseteq Venues /\ Connected # {}
      /\ environ \in Settings /\ symbol_list \in Seq(Symbols)
  BY DEF StartupInvariant, Lists
<1>2. VenuesToFund \in SUBSET Venues /\ VenuesToFund # {}
  BY <1>1, SomeAreFunded
<1>3. /\ Portions \in Divisors /\ Portions \in Nat \ {0}
      /\ IsFiniteSet(VenuesToFund) /\ Cardinality(VenuesToFund) \in Nat
      /\ Cardinality(VenuesToFund) <= Portions
      /\ NamedOnce => Cardinality(VenuesToFund) = Portions
  BY <1>1, PortionsOfTheTotal
<1> DEFINE one == 1
           parts == Len(symbol_list)
           usd == VenueUsd
<1>4. one \in Range(Mid) \cup {1} /\ parts \in 1 .. Cardinality(Symbols) /\ parts \in Nat
  BY <1>1, SizesOfAList
<1>5. usd = SeedUsdTotal \div Portions
  BY DEF VenueUsd
<1> HIDE DEF one, parts, usd
<1>6. PICK k \in Nat : SeedUsdTotal = Portions * usd /\ usd = 2 * parts * one * k
  BY <1>3, <1>4, <1>5, SharesOfAVenue
<1>7. usd \in Nat
  <2>1. \A x, y \in Nat : x * y \in Nat
    OBVIOUS
  <2>2. one \in Nat
    BY DEF one
  <2>3. 2 * parts * one \in Nat
    BY <1>4, <2>1, <2>2
  <2> QED
    BY <1>6, <2>1, <2>3
<1> QED
  BY <1>1, <1>2, <1>3, <1>6, <1>7 DEF usd

\* What is planned for an account.
Planned(k) == IF k \in DOMAIN PaperCapital THEN PaperCapital[k] ELSE 0

LEMMA PlannedBalance ==
  ASSUME StartupInvariant, "paper" \in seeded_modes, NEW v \in VenuesToFund, NEW a \in Assets
  PROVE  /\ Planned(<<v, a>>) * Unit(a) = PricedShare(a)
         /\ PricedShare(a) \in Nat /\ Share(a) \in Nat
         /\ UsdPrice(a) > 0 /\ VenueUsd > 0 /\ (\E s \in Polled : a \in Range(s))
              => <<v, a>> \in DOMAIN PaperCapital /\ PaperCapital[<<v, a>>] > 0
<1> DEFINE list == symbol_list
           plan == PlanAllocation(list, VenueUsd)
           traded == UNION {Range(list[i]) : i \in DOMAIN list}
           worth == {x \in DOMAIN plan : UsdPrice(x) > 0}
<1>1. list \in Lists /\ Portions \in Divisors /\ VenueUsd \in Nat
  BY Planning
<1>2. PaperCapital = [k \in VenuesToFund \X worth |-> plan[k[2]] \div UsdPrice(k[2])]
  BY DEF PaperCapital, VenueUsd
<1>3. DOMAIN plan = traded /\ (a \in traded => plan[a] = Share(a))
  BY DEF PlanAllocation, Share
<1>4. \A i \in DOMAIN list : Range(list[i]) = {list[i][1], list[i][2]}
  BY <1>1, SizesOfAList
<1>5. a \in traded <=> a \in BasesOf(list) \/ UsesOf(list, a) # {}
  BY <1>4 DEF BasesOf, UsesOf
<1>6. (\E s \in Polled : a \in Range(s)) => a \in traded
  BY DEF Polled, Range
<1>7. ASSUME NEW price \in Range(Mid) \cup {1}
      PROVE  /\ Share(a) \in Nat /\ Multiple(Share(a), price)
             /\ VenueUsd > 0 /\ a \in traded => Share(a) > 0
  <2> DEFINE usd == VenueUsd
             shares == QuoteShare(list, usd, a) + BaseShare(list, usd, a)
  <2>1. usd = SeedUsdTotal \div Portions
    BY DEF VenueUsd
  <2> HIDE DEF usd
  <2>2. /\ QuoteShare(list, usd, a) \in Nat /\ BaseShare(list, usd, a) \in Nat
        /\ Multiple(shares, price)
        /\ usd > 0 /\ (a \in BasesOf(list) \/ UsesOf(list, a) # {}) => shares > 0
    <3> HIDE DEF list
    <3> QED
      BY <1>1, <2>1, PlanOfAnAsset
  <2>3. Share(a) = shares
    BY DEF Share, usd
  <2>4. Share(a) \in Nat
    BY <2>2, <2>3
  <2> HIDE DEF list, traded, shares
  <2> QED
    BY <1>5, <2>2, <2>3, <2>4 DEF usd
<1> HIDE DEF plan, traded
<1>8. <<v, a>> \in DOMAIN PaperCapital <=> a \in traded /\ UsdPrice(a) > 0
  BY <1>2, <1>3
<1>9. a \in traded /\ UsdPrice(a) > 0 => PaperCapital[<<v, a>>] = Share(a) \div UsdPrice(a)
  <2> SUFFICES ASSUME a \in traded, UsdPrice(a) > 0
               PROVE  PaperCapital[<<v, a>>] = Share(a) \div UsdPrice(a)
    OBVIOUS
  <2>1. <<v, a>> \in VenuesToFund \X worth /\ plan[a] = Share(a)
    BY <1>3
  <2> HIDE DEF worth
  <2> QED
    BY <1>2, <2>1
<1> HIDE DEF worth
<1>10. CASE UsdPrice(a) > 0
  <2>1. UsdPrice(a) \in Range(Mid) \cup {1} /\ UsdPrice(a) \in Nat
    BY <1>10, PriceIsTyped
  <2>3. /\ Share(a) \in Nat /\ Multiple(Share(a), UsdPrice(a))
        /\ VenueUsd > 0 /\ a \in traded => Share(a) > 0
    BY <1>7, <2>1
  <2>2. PICK m \in Nat : Share(a) = UsdPrice(a) * m
    BY <2>3 DEF Multiple
  <2> DEFINE price == UsdPrice(a)
             share == Share(a)
  <2>4. price \in Nat \ {0} /\ share = price * m /\ share \div price = m
    <3>1. price \in Nat \ {0} /\ share = price * m
      BY <1>10, <2>1, <2>2
    <3> HIDE DEF price, share
    <3> QED
      BY <3>1, ExactDivision
  <2>5. CASE a \in traded
    <3>1. <<v, a>> \in DOMAIN PaperCapital /\ PaperCapital[<<v, a>>] = m
      BY <1>8, <1>9, <1>10, <2>4, <2>5
    <3>2. m * price = share /\ (share > 0 => m > 0)
      <4> HIDE DEF price, share
      <4>1. price * 0 = 0 /\ m * price = price * m
        BY <2>4
      <4> QED
        BY <2>4, <4>1
    <3> QED
      BY <1>10, <2>3, <2>5, <3>1, <3>2 DEF Planned, Unit, PricedShare
  <2>6. CASE a \notin traded
    <3>1. Planned(<<v, a>>) = 0
      BY <1>8, <2>6 DEF Planned
    <3>2. Share(a) = 0
      BY <1>1, <1>5, <2>6, NothingForOthers DEF Share
    <3>3. 0 * price = 0
      BY <2>4
    <3> QED
      BY <1>6, <1>10, <2>3, <2>6, <3>1, <3>2, <3>3 DEF Unit, PricedShare
  <2> QED
    BY <2>5, <2>6
<1>11. CASE ~(UsdPrice(a) > 0)
  <2>1. Planned(<<v, a>>) = 0
    BY <1>8, <1>11 DEF Planned
  <2>2. Share(a) \in Nat
    <3>1. 1 \in Range(Mid) \cup {1}
      OBVIOUS
    <3> QED
      BY <1>7, <3>1
  <2> QED
    BY <1>11, <2>1, <2>2 DEF Unit, PricedShare
<1> QED
  BY <1>10, <1>11

\* All there is for a venue, and no more than its dollars.
LEMMA PlanOfAVenue ==
  ASSUME StartupInvariant, "paper" \in seeded_modes
  PROVE  /\ PricedShares \in Nat /\ PricedShares <= VenueUsd
         /\ (\A s \in Polled : \A a \in Range(s) : UsdPrice(a) > 0) => PricedShares = VenueUsd
<1> DEFINE priced == [a \in Assets |-> PricedShare(a)]
           shares == [a \in Assets |-> Share(a)]
           list == symbol_list
           usd == VenueUsd
<1>4. SumFunctionOnSet(shares, Assets) = VenueUsd
  <2>1. list \in Lists /\ Portions \in Divisors /\ usd = SeedUsdTotal \div Portions
    BY Planning DEF VenueUsd
  <2>2. shares = [a \in Assets |-> QuoteShare(list, usd, a) + BaseShare(list, usd, a)]
    BY DEF Share
  <2> HIDE DEF list, usd, shares
  <2>3. SumFunctionOnSet([a \in Assets |-> QuoteShare(list, usd, a) + BaseShare(list, usd, a)],
                         Assets) = usd
    BY <2>1, PlanAddsUp
  <2> QED
    BY <2>2, <2>3 DEF usd
<1>5. PICK v \in VenuesToFund : TRUE
  BY Planning
<1>6. \A a \in Assets : shares[a] \in Nat /\ priced[a] \in Nat /\ priced[a] <= shares[a]
  <2> SUFFICES ASSUME NEW a \in Assets
               PROVE  Share(a) \in Nat /\ PricedShare(a) \in Nat /\ PricedShare(a) <= Share(a)
    OBVIOUS
  <2>1. Share(a) \in Nat /\ PricedShare(a) \in Nat
    BY <1>5, PlannedBalance
  <2> QED
    BY <2>1 DEF PricedShare
<1>7. PricedShares = SumFunctionOnSet(priced, Assets)
  BY DEF PricedShares
<1>8. PricedShares \in Nat
  <2>1. \A a \in Assets : priced[a] \in Int /\ priced[a] >= 0
    BY <1>6
  <2> HIDE DEF priced
  <2>2. SumFunctionOnSet(priced, Assets) \in Int /\ SumFunctionOnSet(priced, Assets) >= 0
    BY <2>1, AssetsAreFinite, SumType
  <2> QED
    BY <1>7, <2>2
<1>9. PricedShares <= VenueUsd
  <2>1. \A a \in Assets : priced[a] \in Int /\ shares[a] \in Int /\ priced[a] <= shares[a]
    BY <1>6
  <2> HIDE DEF priced, shares
  <2> QED
    BY <1>4, <1>7, <2>1, AssetsAreFinite, SumOrdered
<1>10. ASSUME \A s \in Polled : \A a \in Range(s) : UsdPrice(a) > 0
       PROVE  PricedShares = VenueUsd
  <2>1. ASSUME NEW a \in Assets
        PROVE  priced[a] = shares[a]
    <3>1. CASE UsdPrice(a) > 0
      BY <3>1 DEF PricedShare
    <3>2. CASE ~(UsdPrice(a) > 0)
      <4>1. \A s \in Polled : a \notin Range(s)
        BY <1>10, <3>2
      <4>2. list \in Lists /\ VenueUsd \in Nat
        BY Planning
      <4>3. \A i \in DOMAIN list : list[i] \in Polled /\ Range(list[i]) = {list[i][1], list[i][2]}
        <5>1. \A i \in DOMAIN list : list[i] \in Polled
          BY DEF Polled, Range
        <5> QED
          BY <4>2, <5>1, SizesOfAList
      <4>4. a \notin BasesOf(list) /\ UsesOf(list, a) = {}
        BY <4>1, <4>3 DEF BasesOf, UsesOf
      <4>5. Share(a) = 0
        BY <4>2, <4>4, NothingForOthers DEF Share
      <4> QED
        BY <3>2, <4>5 DEF PricedShare
    <3> QED
      BY <3>1, <3>2
  <2> HIDE DEF priced, shares
  <2> QED
    BY <1>4, <1>7, <2>1, AssetsAreFinite, SumEqual
<1> QED
  BY <1>8, <1>9, <1>10

-------------------------------------------------------------------------------
\* What the invariant says of the balances.

Paper == Accounts \ reported

\* What is there of the plan, in dollars: all of it or nothing, for each account.
LEMMA PaperBalance ==
  ASSUME StartupInvariant, "paper" \in seeded_modes, NEW v \in VenuesToFund, NEW a \in Assets,
         NEW value, value = IF <<v, a>> \in Paper THEN inventory[<<v, a>>] * Unit(a) ELSE 0
  PROVE  value = PricedShare(a) \/ (value = 0 /\ ~intact) \/ (value = 0 /\ PricedShare(a) = 0)
<1> DEFINE k == <<v, a>>
<1>1. k \in Accounts
  BY Planning DEF Accounts
<1>2. Planned(k) * Unit(a) = PricedShare(a) /\ Unit(a) \in Nat
  BY PlannedBalance, PriceIsTyped DEF Unit
<1>3. 0 * Unit(a) = 0
  BY <1>2
<1> HIDE DEF k
<1>4. CASE k \in Paper /\ inventory[k] # 0
  <2>1. k \in DOMAIN PaperCapital /\ inventory[k] = PaperCapital[k]
    BY <1>4 DEF StartupInvariant, PaperIsPlanned, Paper
  <2> QED
    BY <1>2, <1>4, <2>1 DEF Planned, k
<1>5. CASE ~(k \in Paper /\ inventory[k] # 0)
  <2>1. value = 0
    BY <1>3, <1>5 DEF k
  <2>2. ASSUME intact
        PROVE  PricedShare(a) = 0
    <3>1. CASE k \in DOMAIN PaperCapital
      <4>1. k \notin reported /\ inventory[k] = PaperCapital[k]
        BY <1>1, <2>2, <3>1 DEF StartupInvariant, PaperIsPlanned
      <4>2. Planned(k) = 0
        BY <1>1, <1>5, <3>1, <4>1 DEF Paper, Planned
      <4> QED
        BY <1>2, <1>3, <4>2
    <3>2. CASE k \notin DOMAIN PaperCapital
      BY <1>2, <1>3, <3>2 DEF Planned
    <3> QED
      BY <3>1, <3>2
  <2> QED
    BY <2>1, <2>2
<1> QED
  BY <1>4, <1>5

LEMMA WorthOfVenues ==
  ASSUME StartupInvariant, "paper" \in seeded_modes
  PROVE  /\ \A v \in VenuesToFund : /\ WorthOf(v, Paper) \in Nat
                                    /\ WorthOf(v, Paper) <= PricedShares
                                    /\ intact => WorthOf(v, Paper) = PricedShares
         /\ \A v \in Venues \ VenuesToFund : WorthOf(v, Paper) = 0
<1> DEFINE value(v) == [a \in Assets |-> IF <<v, a>> \in Paper THEN inventory[<<v, a>>] * Unit(a)
                                         ELSE 0]
           priced == [a \in Assets |-> PricedShare(a)]
<1>1. \A v : WorthOf(v, Paper) = SumFunctionOnSet(value(v), Assets)
  BY DEF WorthOf, SumFunction
<1>2. PricedShares = SumFunctionOnSet(priced, Assets)
  BY DEF PricedShares
<1>3. ASSUME NEW v \in VenuesToFund
      PROVE  /\ WorthOf(v, Paper) \in Nat /\ WorthOf(v, Paper) <= PricedShares
             /\ intact => WorthOf(v, Paper) = PricedShares
  <2> DEFINE worth == value(v)
  <2>1. \A a \in Assets : /\ worth[a] \in Int /\ priced[a] \in Int
                          /\ worth[a] >= 0 /\ worth[a] <= priced[a]
                          /\ intact => worth[a] = priced[a]
    <3> SUFFICES ASSUME NEW a \in Assets
                 PROVE  /\ worth[a] \in Int /\ priced[a] \in Int
                        /\ worth[a] >= 0 /\ worth[a] <= priced[a]
                        /\ intact => worth[a] = priced[a]
      OBVIOUS
    <3>1. PricedShare(a) \in Nat
      BY PlannedBalance
    <3>2. worth[a] = PricedShare(a) \/ (worth[a] = 0 /\ ~intact)
          \/ (worth[a] = 0 /\ PricedShare(a) = 0)
      BY PaperBalance
    <3> HIDE DEF worth
    <3> QED
      BY <3>1, <3>2
  <2>2. WorthOf(v, Paper) = SumFunctionOnSet(worth, Assets)
    BY <1>1
  <2> HIDE DEF worth, priced
  <2>3. WorthOf(v, Paper) \in Int /\ WorthOf(v, Paper) >= 0
    BY <2>1, <2>2, AssetsAreFinite, SumType
  <2>4. WorthOf(v, Paper) <= PricedShares
    BY <1>2, <2>1, <2>2, AssetsAreFinite, SumOrdered
  <2>5. intact => WorthOf(v, Paper) = PricedShares
    BY <1>2, <2>1, <2>2, AssetsAreFinite, SumEqual
  <2> QED
    BY <2>3, <2>4, <2>5
<1>4. ASSUME NEW v \in Venues \ VenuesToFund
      PROVE  WorthOf(v, Paper) = 0
  <2> DEFINE worth == value(v)
  <2>1. ASSUME NEW a \in Assets
        PROVE  worth[a] = 0
    <3>1. <<v, a>> \notin DOMAIN PaperCapital
      BY <1>4 DEF PaperCapital
    <3>2. <<v, a>> \in Paper => inventory[<<v, a>>] = 0
      BY <3>1 DEF StartupInvariant, PaperIsPlanned, Paper
    <3>3. Unit(a) \in Nat
      BY PriceIsTyped DEF Unit
    <3> QED
      BY <3>2, <3>3
  <2>2. WorthOf(v, Paper) = SumFunctionOnSet(worth, Assets)
    BY <1>1
  <2> HIDE DEF worth
  <2> QED
    BY <2>1, <2>2, AssetsAreFinite, SumZero
<1> QED
  BY <1>3, <1>4

\* Before any capital is laid out there is none, on any venue.
LEMMA NothingYet ==
  ASSUME StartupInvariant, "paper" \notin seeded_modes
  PROVE  ~intact /\ \A v \in Venues : WorthOf(v, Paper) = 0
<1>1. ~intact /\ \A k \in Paper : inventory[k] = 0
  BY DEF StartupInvariant, PaperIsPlanned, Paper
<1>2. ASSUME NEW v \in Venues
      PROVE  WorthOf(v, Paper) = 0
  <2> DEFINE worth == [a \in Assets |-> IF <<v, a>> \in Paper THEN inventory[<<v, a>>] * Unit(a)
                                        ELSE 0]
  <2>1. ASSUME NEW a \in Assets
        PROVE  worth[a] = 0
    <3>1. Unit(a) \in Nat
      BY PriceIsTyped DEF Unit
    <3> QED
      BY <1>1, <3>1
  <2>2. WorthOf(v, Paper) = SumFunctionOnSet(worth, Assets)
    BY DEF WorthOf, SumFunction
  <2> HIDE DEF worth
  <2> QED
    BY <2>1, <2>2, AssetsAreFinite, SumZero
<1> QED
  BY <1>1, <1>2

LEMMA InvariantSplits == StartupInvariant => CapitalIsSplit
<1> SUFFICES ASSUME StartupInvariant
             PROVE  CapitalIsSplit
  OBVIOUS
<1> DEFINE worth == [v \in Venues |-> WorthOf(v, Paper)]
           total == SumFunction(worth)
           funded == {v \in Venues : worth[v] > 0}
           priced == {a \in Assets : UsdPrice(a) > 0}
           Claim ==
             /\ total <= SeedUsdTotal
             /\ intact =>
                  /\ NamedOnce /\ (\A s \in Polled : Range(s) \subseteq priced)
                       => total = SeedUsdTotal
                  /\ \A u, v \in funded : worth[u] = worth[v]
                  /\ \A v \in funded, s \in Polled : \A a \in Range(s) \cap priced :
                       <<v, a>> \in Paper /\ inventory[<<v, a>>] > 0
<1>1. total = SumFunctionOnSet(worth, Venues)
  BY DEF SumFunction
<1>2. CASE "paper" \notin seeded_modes
  <2>1. ~intact /\ \A v \in Venues : worth[v] = 0
    BY <1>2, NothingYet
  <2>2. total = 0
    <3> HIDE DEF worth, total
    <3> QED
      BY <1>1, <2>1, VenuesAreFinite, SumZero
  <2> HIDE DEF total, worth, funded, priced
  <2>3. Claim
    BY <2>1, <2>2, StartupConstantsAreTyped
  <2> QED
    BY <2>3 DEF CapitalIsSplit, Paper, total, worth, funded, priced
<1>3. CASE "paper" \in seeded_modes
  <2> DEFINE fund == VenuesToFund
             n == Cardinality(fund)
             each == [v \in fund |-> PricedShares]
  <2>1. /\ fund \in SUBSET Venues /\ IsFiniteSet(fund) /\ n \in Nat /\ n <= Portions
        /\ NamedOnce => n = Portions
        /\ Portions \in Nat \ {0} /\ VenueUsd \in Nat /\ SeedUsdTotal = Portions * VenueUsd
    BY <1>3, Planning
  <2>2. /\ \A v \in fund : worth[v] \in Nat /\ worth[v] <= PricedShares
                           /\ (intact => worth[v] = PricedShares)
        /\ \A v \in Venues \ fund : worth[v] = 0
        /\ PricedShares \in Nat /\ PricedShares <= VenueUsd
    BY <1>3, <2>1, WorthOfVenues, PlanOfAVenue
  <2>3. \A v \in fund : each[v] = PricedShares
    OBVIOUS
  <2> HIDE DEF each, worth, fund
  <2>4. total = SumFunctionOnSet(worth, fund)
    <3>1. \A v \in Venues : worth[v] \in Int
      BY <2>2
    <3> HIDE DEF total
    <3> QED
      BY <1>1, <2>1, <2>2, <3>1, VenuesAreFinite, SumOutside
  <2>5. SumFunctionOnSet(each, fund) = PricedShares * n
    BY <2>1, <2>2, <2>3, SumConstant
  <2>6. total <= PricedShares * n
    <3>1. \A v \in fund : worth[v] \in Int /\ each[v] \in Int /\ worth[v] <= each[v]
      BY <2>2, <2>3
    <3> HIDE DEF total, n
    <3> QED
      BY <2>1, <2>4, <2>5, <3>1, SumOrdered
  <2>7. total \in Int
    <3>1. \A v \in fund : worth[v] \in Int
      BY <2>2
    <3> HIDE DEF total
    <3> QED
      BY <2>1, <2>4, <3>1, SumType
  <2>8. intact => total = PricedShares * n
    <3>1. intact => \A v \in fund : worth[v] = PricedShares
      BY <2>2
    <3> HIDE DEF total
    <3> QED
      BY <2>1, <2>2, <2>4, <3>1, SumConstant
  <2> HIDE DEF total, n
  <2>9. PricedShares * n <= VenueUsd * Portions
    <3>1. \A a, b, c, d \in Nat : a <= b /\ c <= d => a * c <= b * d
      <4> SUFFICES ASSUME NEW a \in Nat, NEW b \in Nat, NEW c \in Nat, NEW d \in Nat,
                          a <= b, c <= d
                   PROVE  a * c <= b * d
        OBVIOUS
      <4>1. a * c <= b * c /\ b * c <= b * d
        OBVIOUS
      <4>2. a * c \in Int /\ b * c \in Int /\ b * d \in Int
        OBVIOUS
      <4> QED
        BY <4>1, <4>2
    <3> QED
      BY <2>1, <2>2, <3>1
  <2>10. total <= SeedUsdTotal
    <3> DEFINE most == PricedShares * n
               all == VenueUsd * Portions
    <3>1. most \in Nat /\ all \in Nat /\ SeedUsdTotal = all
      BY <2>1, <2>2
    <3> QED
      BY <2>6, <2>7, <2>9, <3>1
  <2>11. ASSUME intact, NamedOnce, \A s \in Polled : Range(s) \subseteq priced
         PROVE  total = SeedUsdTotal
    <3>1. PricedShares = VenueUsd
      BY <1>3, <2>11, PlanOfAVenue
    <3> QED
      BY <2>1, <2>2, <2>8, <2>11, <3>1
  <2>12. ASSUME intact, NEW v \in funded
         PROVE  v \in fund /\ worth[v] = PricedShares /\ VenueUsd > 0
    BY <2>1, <2>2, <2>12
  <2>13. ASSUME intact, NEW v \in funded, NEW s \in Polled, NEW a \in Range(s) \cap priced
         PROVE  <<v, a>> \in Paper /\ inventory[<<v, a>>] > 0
    <3>1. v \in VenuesToFund /\ VenueUsd > 0 /\ a \in Assets /\ UsdPrice(a) > 0
      BY <2>12, <2>13 DEF fund
    <3> HIDE DEF funded, priced
    <3>2. <<v, a>> \in DOMAIN PaperCapital /\ PaperCapital[<<v, a>>] > 0
      BY <1>3, <3>1, PlannedBalance
    <3>3. <<v, a>> \in Accounts
      BY <2>1, <3>1 DEF Accounts, fund
    <3> QED
      BY <2>13, <3>2, <3>3 DEF StartupInvariant, PaperIsPlanned, Paper
  <2>14. Claim
    <3>1. intact => \A u, v \in funded : worth[u] = worth[v]
      BY <2>12
    <3> HIDE DEF funded, priced
    <3> QED
      BY <2>10, <2>11, <2>13, <3>1
  <2> HIDE DEF funded, priced
  <2> QED
    BY <2>14 DEF CapitalIsSplit, Paper, total, worth, funded, priced
<1> QED
  BY <1>2, <1>3

\* However many venues connect, whatever they list, whichever of their books come
\* in time, and in whatever order the dashboard switches between paper and live
\* mode: what no exchange has reported is never worth more than was configured; and
\* as long as no exchange has reported since it was laid out, it is even between
\* venues, pays for both sides of every symbol that has a price, and is all of it
\* unless a venue is named twice.
THEOREM CapitalStaysSplit == StartSpec => []CapitalIsSplit
  BY InitHolds, StepHolds, InvariantSplits, PTL DEF StartSpec
===============================================================================

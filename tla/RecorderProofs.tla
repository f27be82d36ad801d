---------------------------- MODULE RecorderProofs -----------------------------
(***************************************************************************)
(* Theorems about Recorder: what is in memory, that every opportunity is   *)
(* written to exactly one file, that its file shows its result, and that   *)
(* no check is made twice.                                                 *)
(***************************************************************************)
EXTENDS Recorder, FiniteSetTheorems, SequenceTheorems, TLAPS

-------------------------------------------------------------------------------
\* Lemmas about the operators.

\* A bounded history keeps its elements' type and its bound.
LEMMA RollType ==
  ASSUME NEW S, NEW history \in Seq(S), NEW x \in S, NEW cap \in Nat \ {0}
  PROVE  /\ Roll(history, x, cap) \in Seq(S)
         /\ Len(history) <= cap => Len(Roll(history, x, cap)) <= cap
<1>1. /\ Append(history, x) \in Seq(S)
      /\ Append(history, x) # << >>
      /\ Len(Append(history, x)) = Len(history) + 1
  BY AppendProperties
<1>2. /\ Tail(Append(history, x)) \in Seq(S)
      /\ Len(Tail(Append(history, x))) = Len(Append(history, x)) - 1
  BY <1>1, HeadTailProperties
<1>3. Len(history) \in Nat
  BY LenProperties
<1> QED
  BY <1>1, <1>2, <1>3 DEF Roll

\* A file written under this second leaves the others as they were.
LEMMA WrittenType ==
  ASSUME NEW directory, DOMAIN directory \subseteq Nat, NEW S,
         \A s \in DOMAIN directory : directory[s] \subseteq S,
         NEW content \in SUBSET S, now \in Nat
  PROVE  /\ DOMAIN Written(directory, content) \subseteq Nat
         /\ \A s \in DOMAIN Written(directory, content) :
              Written(directory, content)[s] \subseteq S
<1>1. Second \in Nat
  BY RecorderConstantsAreTyped DEF Second
<1> QED
  BY <1>1 DEF Written

\* Two instants at least a second apart have different seconds.
LEMMA SecondsApart ==
  ASSUME NEW a \in Nat, NEW b \in Nat, b + TicksPerSecond <= a
  PROVE  b \div TicksPerSecond < a \div TicksPerSecond
  BY RecorderConstantsAreTyped

\* The records a flush writes are records, because what waits was recorded.
LEMMA BufferedRecords ==
  ASSUME RecorderTypeOK, WrittenInOrder
  PROVE  Records(opportunity_buffer) \subseteq Record
<1> SUFFICES ASSUME NEW i \in DOMAIN opportunity_buffer
             PROVE  [id |-> opportunity_buffer[i],
                     trade_mode |-> results[opportunity_buffer[i]]] \in Record
  BY DEF Records
<1>1. i \in 1 .. Len(opportunity_buffer) /\ Len(opportunity_buffer) \in Nat
  BY LenProperties DEF RecorderTypeOK
<1>2. opportunity_buffer[i] \in 0 .. next_id - 1
  BY <1>1 DEF WrittenInOrder, RecorderTypeOK
<1> QED
  BY <1>2 DEF RecorderTypeOK, Record

\* What a flush does to the types.
LEMMA FlushType ==
  ASSUME RecorderTypeOK, WrittenInOrder, Flush
  PROVE  /\ opportunity_buffer' \in Seq(Nat)
         /\ decay_buffer' \in Seq(DecayRecord)
         /\ DOMAIN opportunity_files' \subseteq Nat
         /\ \A s \in DOMAIN opportunity_files' : opportunity_files'[s] \subseteq Record
         /\ DOMAIN decay_files' \subseteq Nat
         /\ \A s \in DOMAIN decay_files' : decay_files'[s] \subseteq DecayRecord
<1>1. /\ opportunity_buffer' \in Seq(Nat)
      /\ decay_buffer' \in Seq(DecayRecord)
  BY EmptySeq DEF Flush, FlushOpportunities, FlushDecays
<1>2. /\ DOMAIN opportunity_files' \subseteq Nat
      /\ \A s \in DOMAIN opportunity_files' : opportunity_files'[s] \subseteq Record
  <2>1. CASE opportunity_buffer = <<>>
    BY <2>1 DEF Flush, FlushOpportunities, RecorderTypeOK
  <2>2. CASE opportunity_buffer # <<>>
    <3> DEFINE content == Records(opportunity_buffer)
    <3>1. content \in SUBSET Record
      BY BufferedRecords
    <3>2. opportunity_files' = Written(opportunity_files, content)
      BY <2>2 DEF Flush, FlushOpportunities
    <3> HIDE DEF content
    <3> QED
      BY <3>1, <3>2, WrittenType DEF RecorderTypeOK
  <2> QED
    BY <2>1, <2>2
<1>3. /\ DOMAIN decay_files' \subseteq Nat
      /\ \A s \in DOMAIN decay_files' : decay_files'[s] \subseteq DecayRecord
  <2>1. CASE decay_buffer = <<>>
    BY <2>1 DEF Flush, FlushDecays, RecorderTypeOK
  <2>2. CASE decay_buffer # <<>>
    <3> DEFINE content == {decay_buffer[i] : i \in DOMAIN decay_buffer}
    <3>1. content \in SUBSET DecayRecord
      BY LenProperties DEF RecorderTypeOK
    <3>2. decay_files' = Written(decay_files, content)
      BY <2>2 DEF Flush, FlushDecays
    <3> HIDE DEF content
    <3> QED
      BY <3>1, <3>2, WrittenType DEF RecorderTypeOK
  <2> QED
    BY <2>1, <2>2
<1> QED
  BY <1>1, <1>2, <1>3

-------------------------------------------------------------------------------
\* One lemma per part of the invariant: each step preserves it.

LEMMA TypeStep ==
  ASSUME RecorderTypeOK, WrittenInOrder, HistoryMatchesIndex, NewOnesWait,
         [RecNext]_recVars
  PROVE  RecorderTypeOK'
<1> USE DEF RecorderTypeOK
<1>1. CASE BeginTick
  BY <1>1, EmptySeq DEF BeginTick, memory, decays, files, Phases
<1>2. CASE RecordOpportunity
  <2>1. /\ opportunity_buffer' \in Seq(Nat)
        /\ new_opportunities' \in Seq(Nat)
        /\ next_id' \in Nat
    BY <1>2, AppendProperties DEF RecordOpportunity
  <2>2. all_opportunity_records' \in Seq(Nat)
    BY <1>2, RollType, RecorderConstantsAreTyped DEF RecordOpportunity
  <2>3. by_id' \subseteq Nat
    BY <1>2 DEF RecordOpportunity, IndexAfter
  <2>4. results' \in [0 .. next_id' - 1 -> TradeModes \cup {None}]
    BY <1>2 DEF RecordOpportunity
  <2>5. checks' \subseteq [opportunity_id : Nat, delay_sec : Delays, due : Nat]
    BY <1>2, RecorderConstantsAreTyped DEF RecordOpportunity, Schedule
  <2> QED
    BY <1>2, <2>1, <2>2, <2>3, <2>4, <2>5 DEF RecordOpportunity, files
<1>3. CASE BeginExecuting
  BY <1>3 DEF BeginExecuting, memory, decays, files, Phases
<1>4. ASSUME NEW i \in DOMAIN new_opportunities, NEW m \in TradeModes,
             BookResult(new_opportunities[i], m)
      PROVE  RecorderTypeOK'
  <2> DEFINE id == new_opportunities[i]
  <2>1. id \in Nat
    BY LenProperties
  <2>2. /\ results' = [results EXCEPT ![id] = m] \/ results' = results
        /\ next_id' = next_id
    BY <1>4 DEF BookResult, Attach
  <2>3. booked' \subseteq [id : Nat, mode : TradeModes, aged : BOOLEAN]
    <3> DEFINE late == id + MaxInMemoryOpportunities < next_id
               booking == [id |-> id, mode |-> m, aged |-> late]
    <3>1. late \in BOOLEAN
      OBVIOUS
    <3>2. booked' = booked \cup {booking}
      BY <1>4 DEF BookResult
    <3> HIDE DEF late, id
    <3>3. booking \in [id : Nat, mode : TradeModes, aged : BOOLEAN]
      BY <2>1, <3>1, Zenon
    <3> QED
      BY <3>2, <3>3
  <2> QED
    <3>1. results' \in [0 .. next_id' - 1 -> TradeModes \cup {None}]
      BY <2>2
    <3> QED
      BY <1>4, <2>3, <3>1 DEF BookResult, decays, files, loop
<1>5. CASE EndTick
  <2>1. Flush
    BY <1>5 DEF EndTick
  <2>2. wake' \in Nat
    BY <1>5, RecorderConstantsAreTyped DEF EndTick
  <2> QED
    BY <1>5, <2>1, <2>2, FlushType DEF EndTick, Phases
<1>6. CASE IdleTick
  BY <1>6, EmptySeq, RecorderConstantsAreTyped DEF IdleTick, memory, decays, files, Phases
<1>7. CASE WakeUp
  BY <1>7 DEF WakeUp, memory, decays, files, Phases
<1>8. ASSUME NEW c \in checks, DecayCheck(c)
      PROVE  RecorderTypeOK'
  <2> DEFINE record == [opportunity_id |-> c.opportunity_id, delay_sec |-> c.delay_sec]
  <2>1. record \in DecayRecord
    BY DEF DecayRecord
  <2>2. /\ decay_buffer' = Append(decay_buffer, record)
        /\ all_decay_records' = Roll(all_decay_records, record, MaxInMemoryDecayRecords)
        /\ measured' = measured \cup {record}
        /\ checks' = checks \ {c}
    BY <1>8 DEF DecayCheck
  <2> HIDE DEF record
  <2>3. decay_buffer' \in Seq(DecayRecord)
    BY <2>1, <2>2, AppendProperties
  <2>4. /\ all_decay_records' \in Seq(DecayRecord)
        /\ Len(all_decay_records') <= MaxInMemoryDecayRecords
    BY <2>1, <2>2, RollType, RecorderConstantsAreTyped
  <2> QED
    BY <1>8, <2>1, <2>2, <2>3, <2>4 DEF DecayCheck, memory, files, loop
<1>9. CASE ShutDown
  BY <1>9 DEF ShutDown, memory, decays, files, Phases
<1>10. CASE FinalFlush
  <2>1. Flush
    BY <1>10 DEF FinalFlush
  <2> QED
    BY <1>10, <2>1, FlushType DEF FinalFlush, Phases
<1>11. CASE Exit
  BY <1>11 DEF Exit, memory, files, Phases
<1>12. CASE Pass
  BY <1>12 DEF Pass, memory, decays, files, loop
<1>13. CASE UNCHANGED recVars
  BY <1>13 DEF recVars, memory, decays, files, loop
<1> QED
  BY <1>1, <1>2, <1>3, <1>4, <1>5, <1>6, <1>7, <1>8, <1>9, <1>10, <1>11, <1>12, <1>13
  DEF RecNext

\* Only RecordOpportunity touches the history and its index.
LEMMA HistoryStep ==
  ASSUME RecorderTypeOK, HistoryMatchesIndex, [RecNext]_recVars
  PROVE  HistoryMatchesIndex'
<1>1. CASE RecordOpportunity
  <2> DEFINE cap == MaxInMemoryOpportunities
             kept == IF next_id < cap THEN next_id ELSE cap
             history == all_opportunity_records
             grown == Append(history, next_id)
  <2>1. /\ cap \in Nat \ {0} /\ next_id \in Nat /\ kept \in Nat
        /\ history \in Seq(Nat)
    BY RecorderConstantsAreTyped DEF RecorderTypeOK
  <2>2. /\ Len(history) = kept
        /\ \A i \in 1 .. kept : history[i] = next_id - kept + i - 1
    BY <2>1, LenProperties DEF HistoryMatchesIndex
  <2>3. /\ grown \in Seq(Nat) /\ grown # << >>
        /\ Len(grown) = kept + 1
        /\ \A i \in 1 .. kept + 1 : grown[i] = next_id - kept + i - 1
    BY <2>1, <2>2, AppendProperties
  <2>4. by_id = next_id - kept .. next_id - 1
    BY DEF HistoryMatchesIndex
  <2>5. /\ next_id' = next_id + 1
        /\ kept = cap => /\ history' = Tail(grown)
                         /\ by_id' = (by_id \cup {next_id}) \ {Head(grown)}
        /\ kept < cap => history' = grown /\ by_id' = by_id \cup {next_id}
    BY <1>1, <2>1, <2>2, <2>3 DEF RecordOpportunity, Roll, IndexAfter
  <2> HIDE DEF grown
  <2>6. CASE next_id < cap
    <3>1. kept = next_id /\ history' = grown /\ by_id' = by_id \cup {next_id}
      BY <2>1, <2>5, <2>6
    <3>2. (IF next_id + 1 < cap THEN next_id + 1 ELSE cap) = next_id + 1
      BY <2>1, <2>6
    <3>3. history' = [i \in 1 .. next_id + 1 |-> i - 1]
      <4>1. grown \in [1 .. next_id + 1 -> Nat]
        BY <2>3, <3>1, LenProperties
      <4> QED
        BY <2>1, <2>3, <3>1, <4>1
    <3>4. by_id' = 0 .. next_id
      BY <2>1, <2>4, <3>1
    <3> QED
      BY <2>1, <2>5, <3>2, <3>3, <3>4 DEF HistoryMatchesIndex
  <2>7. CASE next_id >= cap
    <3>1. kept = cap /\ history' = Tail(grown) /\ by_id' = (by_id \cup {next_id}) \ {Head(grown)}
      BY <2>1, <2>5, <2>7
    <3>2. Head(grown) = next_id - cap
      <4>1. grown[1] = next_id - cap
        <5>1. 1 \in 1 .. kept + 1
          BY <2>1
        <5>2. grown[1] = next_id - kept + 1 - 1
          BY <2>3, <5>1
        <5> QED
          BY <2>1, <3>1, <5>2
      <4> QED
        BY <2>3, <4>1
    <3>3. by_id' = next_id + 1 - cap .. next_id
      <4>1. by_id' = ((next_id - cap .. next_id - 1) \cup {next_id}) \ {next_id - cap}
        BY <2>4, <3>1, <3>2
      <4> HIDE DEF kept, history
      <4>2. \A x : x \in by_id' <=> x \in next_id + 1 - cap .. next_id
        BY <2>1, <2>7, <4>1
      <4> QED
        BY <4>2
    <3>4. /\ Tail(grown) \in Seq(Nat)
          /\ Len(Tail(grown)) = cap
          /\ \A i \in 1 .. cap : Tail(grown)[i] = next_id - cap + i
      <4>1. /\ Tail(grown) \in Seq(Nat)
            /\ Len(Tail(grown)) = Len(grown) - 1
            /\ \A i \in 1 .. Len(Tail(grown)) : Tail(grown)[i] = grown[i + 1]
        BY <2>3, HeadTailProperties
      <4>2. Len(grown) = cap + 1 /\ \A i \in 1 .. cap + 1 : grown[i] = next_id - cap + i - 1
        BY <2>3, <3>1
      <4> HIDE DEF kept, history
      <4>3. Len(Tail(grown)) = cap
        BY <2>1, <4>1, <4>2
      <4>4. ASSUME NEW i \in 1 .. cap
            PROVE  Tail(grown)[i] = next_id - cap + i
        <5>1. i + 1 \in 1 .. cap + 1 /\ next_id - cap + (i + 1) - 1 = next_id - cap + i
          BY <2>1
        <5> QED
          BY <4>1, <4>2, <4>3, <5>1
      <4> QED
        BY <4>1, <4>3, <4>4
    <3>5. history' = [i \in 1 .. cap |-> next_id - cap + i]
      <4>1. Tail(grown) \in [1 .. cap -> Nat]
        BY <3>4, LenProperties
      <4> QED
        BY <3>1, <3>4, <4>1
    <3>6. (IF next_id + 1 < cap THEN next_id + 1 ELSE cap) = cap
      BY <2>1, <2>7
    <3>7. \A i \in 1 .. cap : next_id + 1 - cap + i - 1 = next_id - cap + i
      BY <2>1
    <3> QED
      BY <2>1, <2>5, <3>3, <3>5, <3>6, <3>7 DEF HistoryMatchesIndex
  <2> QED
    BY <2>1, <2>6, <2>7
<1>2. CASE UNCHANGED <<next_id, all_opportunity_records, by_id>>
  BY <1>2 DEF HistoryMatchesIndex
<1>3. RecordOpportunity \/ UNCHANGED <<next_id, all_opportunity_records, by_id>>
  BY DEF RecNext, recVars, memory, BeginTick, BeginExecuting, BookResult, EndTick, IdleTick,
         WakeUp, DecayCheck, ShutDown, FinalFlush, Exit, Pass
<1> QED
  BY <1>1, <1>2, <1>3

\* A flush that writes opportunities opens a file that is not there yet.
LEMMA FreshFile ==
  ASSUME RecorderTypeOK, FlushesApart, phase \notin {"closing", "ended"},
         opportunity_buffer # <<>>
  PROVE  Second \in Nat /\ Second \notin DOMAIN opportunity_files
<1>1. Second \in Nat
  <2>1. now \in Nat
    BY DEF RecorderTypeOK
  <2> QED
    BY <2>1, RecorderConstantsAreTyped DEF Second
<1>2. ASSUME NEW s \in DOMAIN opportunity_files
      PROVE  s # Second
  <2>1. PICK t \in Nat : t + PollInterval <= wake /\ s = t \div TicksPerSecond
    BY DEF FlushesApart
  <2>2. now \in Nat /\ t + TicksPerSecond <= now
    BY <2>1, RecorderConstantsAreTyped, TicksAreASecondApart DEF FlushesApart, RecorderTypeOK
  <2>3. t \div TicksPerSecond < now \div TicksPerSecond
    BY <2>2, SecondsApart
  <2>4. t \div TicksPerSecond \in Int /\ now \div TicksPerSecond \in Int
    BY <2>2, RecorderConstantsAreTyped
  <2> QED
    BY <2>1, <2>3, <2>4 DEF Second
<1> QED
  BY <1>1, <1>2

\* The ids that wait are the latest ones.
LEMMA WaitingIds ==
  ASSUME RecorderTypeOK, WrittenInOrder, NEW id \in Nat
  PROVE  (\E r \in Records(opportunity_buffer) : r.id = id)
           <=> next_id - Len(opportunity_buffer) <= id /\ id < next_id
<1> DEFINE waiting == Len(opportunity_buffer)
<1>1. /\ waiting \in Nat /\ next_id \in Nat
      /\ DOMAIN opportunity_buffer = 1 .. waiting
      /\ \A i \in 1 .. waiting : opportunity_buffer[i] = next_id - waiting + i - 1
  BY LenProperties DEF RecorderTypeOK, WrittenInOrder
<1>2. (\E r \in Records(opportunity_buffer) : r.id = id)
        <=> \E i \in 1 .. waiting : opportunity_buffer[i] = id
  <2> DEFINE R(i) == [id |-> opportunity_buffer[i],
                      trade_mode |-> results[opportunity_buffer[i]]]
  <2>1. Records(opportunity_buffer) = {R(i) : i \in 1 .. waiting}
    BY <1>1 DEF Records
  <2>2. \A i : R(i).id = opportunity_buffer[i]
    OBVIOUS
  <2> HIDE DEF R
  <2> QED
    BY <2>1, <2>2
<1> HIDE DEF waiting
<1>3. ASSUME NEW i \in 1 .. waiting, opportunity_buffer[i] = id
      PROVE  next_id - waiting <= id /\ id < next_id
  <2>1. id = next_id - waiting + i - 1
    BY <1>1, <1>3
  <2> QED
    BY <1>1, <2>1
<1>4. ASSUME next_id - waiting <= id, id < next_id
      PROVE  \E i \in 1 .. waiting : opportunity_buffer[i] = id
  <2> DEFINE i == id - (next_id - waiting) + 1
  <2>1. i \in 1 .. waiting /\ next_id - waiting + i - 1 = id
    BY <1>1, <1>4
  <2>2. opportunity_buffer[i] = id
    BY <1>1, <2>1
  <2> QED
    BY <2>1, <2>2
<1> USE DEF waiting
<1> QED
  BY <1>2, <1>3, <1>4

\* A flush moves what waits into one file and leaves the other files alone.
LEMMA FlushWrites ==
  ASSUME RecorderTypeOK, WrittenInOrder, FlushesApart,
         phase \notin {"closing", "ended"}, FlushOpportunities, next_id' = next_id
  PROVE  WrittenInOrder'
<1> DEFINE waiting == Len(opportunity_buffer)
<1>0. waiting \in Nat /\ next_id \in Nat
  BY LenProperties DEF RecorderTypeOK
<1>1. opportunity_buffer' = <<>> /\ Len(opportunity_buffer') = 0
  <2>1. opportunity_buffer' = <<>>
    BY DEF FlushOpportunities
  <2> QED
    BY <2>1, EmptySeq
<1>2. \A id \in Nat : id < next_id => \E s \in Nat : FilesOf(id)' = {s}
  <2> SUFFICES ASSUME NEW id \in Nat, id < next_id
               PROVE  \E s \in Nat : FilesOf(id)' = {s}
    OBVIOUS
  <2>1. CASE opportunity_buffer = <<>>
    <3>1. waiting = 0
      BY <2>1, EmptySeq
    <3>2. \E s \in Nat : FilesOf(id) = {s}
      BY <1>0, <3>1 DEF WrittenInOrder
    <3> QED
      BY <2>1, <3>2 DEF FlushOpportunities, FilesOf
  <2>2. CASE opportunity_buffer # <<>>
    <3>1. Second \in Nat /\ Second \notin DOMAIN opportunity_files
      BY <2>2, FreshFile
    <3>2. opportunity_files' = Written(opportunity_files, Records(opportunity_buffer))
      BY <2>2 DEF FlushOpportunities
    <3>3. FilesOf(id)' = FilesOf(id) \cup
            {s \in {Second} : \E r \in Records(opportunity_buffer) : r.id = id}
      BY <3>1, <3>2 DEF Written, FilesOf
    <3>4. CASE id < next_id - waiting
      <4>1. ~ \E r \in Records(opportunity_buffer) : r.id = id
        BY <1>0, <3>4, WaitingIds
      <4>2. \E s \in Nat : FilesOf(id) = {s}
        BY <3>4 DEF WrittenInOrder
      <4> QED
        BY <3>3, <4>1, <4>2
    <3>5. CASE id >= next_id - waiting
      <4>1. \E r \in Records(opportunity_buffer) : r.id = id
        BY <1>0, <3>5, WaitingIds
      <4>2. FilesOf(id) = {}
        BY <3>5 DEF WrittenInOrder
      <4>3. FilesOf(id)' = {Second}
        BY <3>3, <4>1, <4>2
      <4> QED
        BY <3>1, <4>3
    <3> QED
      BY <1>0, <3>4, <3>5
  <2> QED
    BY <2>1, <2>2
<1>3. \A id \in Nat : id >= next_id => FilesOf(id)' = {}
  <2> SUFFICES ASSUME NEW id \in Nat, id >= next_id
               PROVE  FilesOf(id)' = {}
    OBVIOUS
  <2>1. FilesOf(id) = {}
    BY <1>0 DEF WrittenInOrder
  <2>2. CASE opportunity_buffer = <<>>
    BY <2>1, <2>2 DEF FlushOpportunities, FilesOf
  <2>3. CASE opportunity_buffer # <<>>
    <3>1. ~ \E r \in Records(opportunity_buffer) : r.id = id
      BY <1>0, WaitingIds
    <3>2. opportunity_files' = Written(opportunity_files, Records(opportunity_buffer))
      BY <2>3 DEF FlushOpportunities
    <3> QED
      BY <2>1, <3>1, <3>2 DEF Written, FilesOf
  <2> QED
    BY <2>2, <2>3
<1> QED
  BY <1>0, <1>1, <1>2, <1>3 DEF WrittenInOrder

LEMMA WrittenStep ==
  ASSUME RecorderTypeOK, WrittenInOrder, FlushesApart, [RecNext]_recVars
  PROVE  WrittenInOrder'
<1>1. CASE RecordOpportunity
  <2> DEFINE waiting == Len(opportunity_buffer)
  <2>1. /\ waiting \in Nat /\ next_id \in Nat
        /\ opportunity_buffer \in Seq(Nat)
    BY LenProperties DEF RecorderTypeOK
  <2>2. /\ next_id' = next_id + 1
        /\ opportunity_buffer' = Append(opportunity_buffer, next_id)
        /\ \A id : FilesOf(id)' = FilesOf(id)
    BY <1>1 DEF RecordOpportunity, files, FilesOf
  <2>3. /\ Len(opportunity_buffer') = waiting + 1
        /\ \A i \in 1 .. waiting : opportunity_buffer'[i] = opportunity_buffer[i]
        /\ opportunity_buffer'[waiting + 1] = next_id
    BY <2>1, <2>2, AppendProperties
  <2>4. \A i \in 1 .. waiting : opportunity_buffer[i] = next_id - waiting + i - 1
    BY DEF WrittenInOrder
  <2>5. waiting <= next_id
    BY DEF WrittenInOrder
  <2>6. /\ \A id \in Nat : id < next_id - waiting => \E s \in Nat : FilesOf(id)' = {s}
        /\ \A id \in Nat : id >= next_id - waiting => FilesOf(id)' = {}
    BY <2>2 DEF WrittenInOrder
  <2> HIDE DEF waiting
  <2>7. \A i \in 1 .. waiting + 1 :
          opportunity_buffer'[i] = (next_id + 1) - (waiting + 1) + i - 1
    BY <2>1, <2>3, <2>4
  <2>8. (next_id + 1) - (waiting + 1) = next_id - waiting /\ waiting + 1 <= next_id + 1
    BY <2>1, <2>5
  <2> QED
    BY <2>2, <2>3, <2>6, <2>7, <2>8 DEF WrittenInOrder
<1>2. CASE EndTick
  BY <1>2, FlushWrites DEF EndTick, Flush
<1>3. CASE FinalFlush
  BY <1>3, FlushWrites DEF FinalFlush, Flush
<1>4. CASE UNCHANGED <<next_id, opportunity_buffer, opportunity_files>>
  BY <1>4 DEF WrittenInOrder, FilesOf
<1>5. \/ RecordOpportunity \/ EndTick \/ FinalFlush
      \/ UNCHANGED <<next_id, opportunity_buffer, opportunity_files>>
  BY DEF RecNext, recVars, memory, files, BeginTick, BeginExecuting, BookResult, IdleTick,
         WakeUp, DecayCheck, ShutDown, Exit, Pass
<1> QED
  BY <1>1, <1>2, <1>3, <1>4, <1>5

LEMMA NewOnesStep ==
  ASSUME RecorderTypeOK, NewOnesWait, [RecNext]_recVars
  PROVE  NewOnesWait'
<1>1. CASE BeginTick
  <2>1. new_opportunities' = <<>>
    BY <1>1 DEF BeginTick
  <2>2. Len(new_opportunities') = 0
    BY <2>1, EmptySeq
  <2> QED
    BY <2>2 DEF NewOnesWait
<1>2. CASE RecordOpportunity
  <2>1. /\ Len(opportunity_buffer) \in Nat /\ Len(new_opportunities) \in Nat
        /\ next_id \in Nat
        /\ \A i \in 1 .. Len(new_opportunities) : new_opportunities[i] \in Nat
    BY LenProperties DEF RecorderTypeOK
  <2>2. /\ next_id' = next_id + 1
        /\ Len(opportunity_buffer') = Len(opportunity_buffer) + 1
        /\ Len(new_opportunities') = Len(new_opportunities) + 1
        /\ \A i \in 1 .. Len(new_opportunities) :
             new_opportunities'[i] = new_opportunities[i]
        /\ new_opportunities'[Len(new_opportunities) + 1] = next_id
    BY <1>2, AppendProperties DEF RecordOpportunity, RecorderTypeOK
  <2>3. \A i \in 1 .. Len(new_opportunities) :
          /\ new_opportunities[i] < next_id
          /\ new_opportunities[i] >= next_id - Len(opportunity_buffer)
    BY <1>2 DEF NewOnesWait, RecordOpportunity
  <2>4. ASSUME NEW i \in 1 .. Len(new_opportunities')
        PROVE  /\ new_opportunities'[i] < next_id'
               /\ new_opportunities'[i] >= next_id' - Len(opportunity_buffer')
    <3>1. CASE i \in 1 .. Len(new_opportunities)
      BY <2>1, <2>2, <2>3, <3>1
    <3>2. CASE i = Len(new_opportunities) + 1
      BY <2>1, <2>2, <3>2
    <3> QED
      BY <2>1, <2>2, <3>1, <3>2
  <2> QED
    BY <2>4 DEF NewOnesWait
<1>3. CASE BeginExecuting
  BY <1>3 DEF BeginExecuting, NewOnesWait, memory
<1>4. CASE phase' \notin {"record", "execute"}
  BY <1>4 DEF NewOnesWait
<1>5. CASE UNCHANGED <<next_id, opportunity_buffer, new_opportunities, phase>>
  BY <1>5 DEF NewOnesWait
<1>6. \/ BeginTick \/ RecordOpportunity \/ BeginExecuting
      \/ phase' \notin {"record", "execute"}
      \/ UNCHANGED <<next_id, opportunity_buffer, new_opportunities, phase>>
  BY DEF RecNext, recVars, memory, loop, BookResult, EndTick, IdleTick, WakeUp,
         DecayCheck, ShutDown, FinalFlush, Exit, Pass
<1> QED
  BY <1>1, <1>2, <1>3, <1>4, <1>5, <1>6

\* The second of a flush is passed before the loop wakes.
LEMMA ApartStep ==
  ASSUME RecorderTypeOK, FlushesApart, [RecNext]_recVars
  PROVE  FlushesApart'
<1> USE DEF FlushesApart
<1>0. now \in Nat /\ wake \in Nat /\ PollInterval \in Nat
  BY RecorderConstantsAreTyped DEF RecorderTypeOK
<1>1. CASE BeginTick
  BY <1>1 DEF BeginTick, memory, files
<1>2. CASE RecordOpportunity
  BY <1>2 DEF RecordOpportunity, files
<1>3. CASE BeginExecuting
  BY <1>3 DEF BeginExecuting, memory, files
<1>4. ASSUME NEW i \in DOMAIN new_opportunities, NEW m \in TradeModes,
             BookResult(new_opportunities[i], m)
      PROVE  FlushesApart'
  BY <1>4 DEF BookResult, files, loop
<1>5. CASE EndTick
  <2>1. /\ phase = "execute" /\ phase' = "sleep"
        /\ wake' = now + PollInterval
        /\ opportunity_buffer' = <<>>
    BY <1>5 DEF EndTick, Flush, FlushOpportunities
  <2>2. \A s \in DOMAIN opportunity_files' :
          s \in DOMAIN opportunity_files \/ s = Second
    BY <1>5 DEF EndTick, Flush, FlushOpportunities, Written
  <2>3. ASSUME NEW s \in DOMAIN opportunity_files'
        PROVE  \E t \in Nat : t + PollInterval <= wake' /\ s = t \div TicksPerSecond
    <3>1. CASE s \in DOMAIN opportunity_files
      <4>1. PICK t \in Nat : t + PollInterval <= wake /\ s = t \div TicksPerSecond
        BY <2>1, <3>1
      <4>2. t + PollInterval <= wake'
        BY <1>0, <2>1, <4>1
      <4> QED
        BY <4>1, <4>2
    <3>2. CASE s = Second
      BY <1>0, <2>1, <3>2 DEF Second
    <3> QED
      BY <2>2, <3>1, <3>2
  <2> QED
    BY <2>1, <2>3
<1>6. CASE IdleTick
  <2>1. /\ phase = "detect" /\ phase' = "sleep"
        /\ wake' = now + PollInterval /\ wake <= wake'
        /\ opportunity_buffer' = <<>>
        /\ opportunity_files' = opportunity_files
    BY <1>0, <1>6 DEF IdleTick, memory, files
  <2>2. ASSUME NEW s \in DOMAIN opportunity_files'
        PROVE  \E t \in Nat : t + PollInterval <= wake' /\ s = t \div TicksPerSecond
    <3>1. PICK t \in Nat : t + PollInterval <= wake /\ s = t \div TicksPerSecond
      BY <2>1
    <3>2. t + PollInterval <= wake'
      BY <1>0, <2>1, <3>1
    <3> QED
      BY <3>1, <3>2
  <2> QED
    BY <2>1, <2>2
<1>7. CASE WakeUp
  BY <1>0, <1>7 DEF WakeUp, memory, files
<1>8. ASSUME NEW c \in checks, DecayCheck(c)
      PROVE  FlushesApart'
  BY <1>8 DEF DecayCheck, memory, files, loop
<1>9. CASE ShutDown
  BY <1>9 DEF ShutDown, memory, files
<1>10. CASE FinalFlush
  BY <1>10 DEF FinalFlush, Flush, FlushOpportunities
<1>11. CASE Exit
  BY <1>11 DEF Exit, memory, files
<1>12. CASE Pass
  BY <1>0, <1>12 DEF Pass, memory, files, loop
<1>13. CASE UNCHANGED recVars
  BY <1>13 DEF recVars, memory, files, loop
<1> QED
  BY <1>1, <1>2, <1>3, <1>4, <1>5, <1>6, <1>7, <1>8, <1>9, <1>10, <1>11, <1>12, <1>13
  DEF RecNext

LEMMA BookedStep ==
  ASSUME RecorderTypeOK, NewOnesWait, BookedOnce, [RecNext]_recVars
  PROVE  BookedOnce'
<1> USE DEF BookedOnce
<1>0. next_id \in Nat /\ \A b \in booked : b.id \in Nat
  BY DEF RecorderTypeOK
<1>1. CASE RecordOpportunity
  BY <1>0, <1>1 DEF RecordOpportunity
<1>2. ASSUME NEW i \in DOMAIN new_opportunities, NEW m \in TradeModes,
             BookResult(new_opportunities[i], m)
      PROVE  BookedOnce'
  <2> DEFINE id == new_opportunities[i]
             booking == [id |-> id, mode |-> m,
                         aged |-> id + MaxInMemoryOpportunities < next_id]
  <2>1. id < next_id
    BY <1>2, LenProperties DEF NewOnesWait, BookResult, RecorderTypeOK
  <2>2. /\ booked' = booked \cup {booking}
        /\ \A b \in booked : b.id # id
        /\ next_id' = next_id
    BY <1>2 DEF BookResult
  <2>3. booking.id = id
    OBVIOUS
  <2> HIDE DEF booking, id
  <2> QED
    BY <2>1, <2>2, <2>3
<1>3. CASE UNCHANGED <<next_id, booked>>
  BY <1>3
<1>4. \/ RecordOpportunity
      \/ \E i \in DOMAIN new_opportunities, m \in TradeModes :
           BookResult(new_opportunities[i], m)
      \/ UNCHANGED <<next_id, booked>>
  BY DEF RecNext, recVars, memory, BeginTick, BeginExecuting, EndTick, IdleTick,
         WakeUp, DecayCheck, ShutDown, FinalFlush, Exit, Pass
<1> QED
  BY <1>1, <1>2, <1>3, <1>4

\* The mode the bookings of an opportunity say its record should have.
ModeBooked(bookings, id) ==
  IF \E b \in bookings : b.id = id /\ ~b.aged
  THEN (CHOOSE b \in bookings : b.id = id).mode
  ELSE None

\* A booking decides the mode of its own opportunity, and of no other.
LEMMA BookingDecides ==
  ASSUME NEW bookings, NEW b, NEW id,
         \A c \in bookings : c.id # b.id
  PROVE  ModeBooked(bookings \cup {b}, id)
           = IF id # b.id THEN ModeBooked(bookings, id)
             ELSE IF b.aged THEN None ELSE b.mode
<1>1. CASE id # b.id
  <2>1. \A c : (c \in bookings \cup {b} /\ c.id = id) <=> (c \in bookings /\ c.id = id)
    BY <1>1
  <2>2. (CHOOSE c \in bookings \cup {b} : c.id = id) = (CHOOSE c \in bookings : c.id = id)
    BY <2>1
  <2> QED
    BY <1>1, <2>1, <2>2 DEF ModeBooked
<1>2. CASE id = b.id
  <2>1. \A c \in bookings \cup {b} : c.id = id <=> c = b
    BY <1>2
  <2>2. (CHOOSE c \in bookings \cup {b} : c.id = id) = b
    BY <2>1
  <2> QED
    BY <1>2, <2>1, <2>2 DEF ModeBooked
<1> QED
  BY <1>1, <1>2

\* An opportunity nobody booked has no mode.
LEMMA NotBooked ==
  ASSUME NEW bookings, NEW id, \A b \in bookings : b.id # id
  PROVE  ModeBooked(bookings, id) = None
  BY DEF ModeBooked

LEMMA ResultsStep ==
  ASSUME RecorderTypeOK, HistoryMatchesIndex, WrittenInOrder, NewOnesWait, FlushesApart,
         BookedOnce, ResultsAreWritten, [RecNext]_recVars
  PROVE  ResultsAreWritten'
<1>0. /\ \A id \in 0 .. next_id - 1 : results[id] = ModeBooked(booked, id)
      /\ \A s \in DOMAIN opportunity_files :
           \A r \in opportunity_files[s] : r.trade_mode = results[r.id]
  BY DEF ResultsAreWritten, ModeBooked
<1> SUFFICES /\ \A id \in 0 .. next_id' - 1 : results'[id] = ModeBooked(booked', id)
             /\ \A s \in DOMAIN opportunity_files' :
                  \A r \in opportunity_files'[s] : r.trade_mode = results'[r.id]
  BY DEF ResultsAreWritten, ModeBooked
\* Nothing in a file waits, so no result can come after its record.
<1>1. ASSUME NEW s \in DOMAIN opportunity_files, NEW r \in opportunity_files[s]
      PROVE  r.id \in 0 .. next_id - 1 /\ r.id < next_id - Len(opportunity_buffer)
  <2>1. r \in Record /\ r.id \in Nat /\ s \in FilesOf(r.id)
    BY DEF RecorderTypeOK, Record, FilesOf
  <2>2. next_id \in Nat /\ Len(opportunity_buffer) \in Nat
    BY LenProperties DEF RecorderTypeOK
  <2>3. ~ (r.id >= next_id - Len(opportunity_buffer))
    BY <2>1 DEF WrittenInOrder
  <2> QED
    BY <2>1, <2>2, <2>3
<1>2. CASE RecordOpportunity
  <2>1. /\ next_id' = next_id + 1 /\ next_id \in Nat
        /\ results' = [id \in 0 .. next_id |-> IF id = next_id THEN None ELSE results[id]]
        /\ booked' = booked /\ opportunity_files' = opportunity_files
    BY <1>2 DEF RecordOpportunity, files, RecorderTypeOK
  <2>2. ASSUME NEW id \in 0 .. next_id' - 1
        PROVE  results'[id] = ModeBooked(booked', id)
    <3>1. CASE id = next_id
      <4>1. \A b \in booked : b.id # id
        BY <2>1, <3>1 DEF BookedOnce, RecorderTypeOK
      <4> QED
        BY <2>1, <3>1, <4>1, NotBooked
    <3>2. CASE id # next_id
      BY <1>0, <2>1, <3>2
    <3> QED
      BY <3>1, <3>2
  <2>3. \A s \in DOMAIN opportunity_files :
          \A r \in opportunity_files[s] : r.id \in 0 .. next_id /\ r.id # next_id
    BY <1>1, <2>1
  <2> QED
    BY <1>0, <2>1, <2>2, <2>3
<1>3. ASSUME NEW i \in DOMAIN new_opportunities, NEW m \in TradeModes,
             BookResult(new_opportunities[i], m)
      PROVE  /\ \A id \in 0 .. next_id' - 1 : results'[id] = ModeBooked(booked', id)
             /\ \A s \in DOMAIN opportunity_files' :
                  \A r \in opportunity_files'[s] : r.trade_mode = results'[r.id]
  <2> DEFINE own == new_opportunities[i]
             late == own + MaxInMemoryOpportunities < next_id
             booking == [id |-> own, mode |-> m, aged |-> late]
  <2>1. /\ own \in Nat /\ own < next_id
        /\ own >= next_id - Len(opportunity_buffer)
    <3>1. i \in 1 .. Len(new_opportunities)
      BY LenProperties DEF RecorderTypeOK
    <3>2. own \in Nat
      BY <3>1, ElementOfSeq DEF RecorderTypeOK
    <3>3. phase = "execute"
      BY <1>3 DEF BookResult
    <3> QED
      BY <3>1, <3>2, <3>3 DEF NewOnesWait
  <2>2. /\ booked' = booked \cup {booking}
        /\ next_id' = next_id
        /\ opportunity_files' = opportunity_files
        /\ \A b \in booked : b.id # own
        /\ own \in by_id => results' = [results EXCEPT ![own] = m]
        /\ own \notin by_id => results' = results
    BY <1>3 DEF BookResult, Attach, files
  <2>3. own \in by_id <=> ~late
    <3> DEFINE cap == MaxInMemoryOpportunities
    <3>1. cap \in Nat /\ next_id \in Nat
      BY RecorderConstantsAreTyped DEF RecorderTypeOK
    <3>2. by_id = next_id - (IF next_id < cap THEN next_id ELSE cap) .. next_id - 1
      BY DEF HistoryMatchesIndex
    <3> HIDE DEF own, cap
    <3>3. CASE next_id < cap
      <4>1. by_id = next_id - next_id .. next_id - 1
        BY <3>2, <3>3
      <4>2. own \in by_id /\ ~(own + cap < next_id)
        BY <2>1, <3>1, <3>3, <4>1
      <4> QED
        BY <4>2 DEF cap
    <3>4. CASE ~(next_id < cap)
      <4>1. by_id = next_id - cap .. next_id - 1
        BY <3>2, <3>4
      <4>2. own \in by_id <=> ~(own + cap < next_id)
        BY <2>1, <3>1, <4>1
      <4> QED
        BY <4>2 DEF cap
    <3> QED
      BY <3>3, <3>4
  <2>4. booking.id = own /\ booking.mode = m /\ (booking.aged <=> late)
    OBVIOUS
  <2> HIDE DEF own, late, booking
  <2>5. results \in [0 .. next_id - 1 -> TradeModes \cup {None}]
    BY DEF RecorderTypeOK
  <2>6. own \in 0 .. next_id - 1
    BY <2>1 DEF RecorderTypeOK
  <2>7. ASSUME NEW id \in 0 .. next_id - 1
        PROVE  results'[id] = ModeBooked(booked', id)
    <3>1. ModeBooked(booked', id)
            = IF id # own THEN ModeBooked(booked, id)
              ELSE IF booking.aged THEN None ELSE m
      <4>1. \A c \in booked : c.id # booking.id
        BY <2>2, <2>4
      <4>2. ModeBooked(booked \cup {booking}, id)
              = IF id # booking.id THEN ModeBooked(booked, id)
                ELSE IF booking.aged THEN None ELSE booking.mode
        BY <4>1, BookingDecides
      <4> QED
        BY <2>2, <2>4, <4>2
    <3>2. CASE id # own
      BY <1>0, <2>2, <2>5, <3>1, <3>2
    <3>3. CASE id = own /\ late
      <4>1. results'[id] = results[id]
        BY <2>2, <2>3, <3>3
      <4>2. results[id] = None
        BY <1>0, <2>2, <3>3, NotBooked
      <4> QED
        BY <2>4, <3>1, <3>3, <4>1, <4>2
    <3>4. CASE id = own /\ ~late
      BY <2>2, <2>3, <2>4, <2>5, <3>1, <3>4
    <3> QED
      BY <3>2, <3>3, <3>4
  <2>8. \A s \in DOMAIN opportunity_files :
          \A r \in opportunity_files[s] : r.id \in 0 .. next_id - 1 /\ r.id # own
    <3>1. Len(opportunity_buffer) \in Nat /\ next_id \in Nat
      BY LenProperties DEF RecorderTypeOK
    <3> QED
      BY <1>1, <2>1, <3>1
  <2> QED
    BY <1>0, <2>2, <2>5, <2>7, <2>8
<1>4. CASE FlushOpportunities /\ UNCHANGED <<next_id, results, booked>>
  <2>1. CASE opportunity_buffer = <<>>
    BY <1>0, <1>4, <2>1 DEF FlushOpportunities
  <2>2. CASE opportunity_buffer # <<>>
    <3>1. opportunity_files' = Written(opportunity_files, Records(opportunity_buffer))
      BY <1>4, <2>2 DEF FlushOpportunities
    <3>2. \A r \in Records(opportunity_buffer) : r.trade_mode = results[r.id]
      BY DEF Records
    <3>3. \A s \in DOMAIN opportunity_files' :
            \/ opportunity_files'[s] = Records(opportunity_buffer)
            \/ s \in DOMAIN opportunity_files /\ opportunity_files'[s] = opportunity_files[s]
      BY <3>1 DEF Written
    <3> QED
      BY <1>0, <1>4, <3>2, <3>3
  <2> QED
    BY <2>1, <2>2
<1>5. CASE UNCHANGED <<next_id, results, booked, opportunity_files>>
  BY <1>0, <1>5
<1>6. \/ RecordOpportunity
      \/ \E i \in DOMAIN new_opportunities, m \in TradeModes :
           BookResult(new_opportunities[i], m)
      \/ FlushOpportunities /\ UNCHANGED <<next_id, results, booked>>
      \/ UNCHANGED <<next_id, results, booked, opportunity_files>>
  BY DEF RecNext, recVars, memory, files, BeginTick, BeginExecuting, EndTick, Flush,
         IdleTick, WakeUp, DecayCheck, ShutDown, FinalFlush, Exit, Pass
<1> QED
  BY <1>2, <1>3, <1>4, <1>5, <1>6

-------------------------------------------------------------------------------
\* The decay checks.

\* A check is asleep from its record to its measurement.
LEMMA SleepsStep ==
  ASSUME RecorderTypeOK, SleepsUntilMeasured, [RecNext]_recVars
  PROVE  SleepsUntilMeasured'
<1> USE DEF SleepsUntilMeasured
<1>0. next_id \in Nat /\ \A r \in measured : r.opportunity_id \in Nat
  BY DEF RecorderTypeOK, DecayRecord
<1>1. CASE RecordOpportunity
  <2>1. /\ next_id' = next_id + 1
        /\ checks' = checks \cup Schedule(next_id)
        /\ UNCHANGED <<measured, phase>>
    BY <1>1 DEF RecordOpportunity
  <2>2. \A c \in Schedule(next_id) : c.opportunity_id = next_id
    BY DEF Schedule
  <2>3. \A c \in checks : c.opportunity_id # next_id
    <3> SUFFICES ASSUME NEW c \in checks
                 PROVE  c.opportunity_id # next_id
      OBVIOUS
    <3>1. c.opportunity_id \in Nat /\ c.opportunity_id < next_id
      BY DEF RecorderTypeOK
    <3> QED
      BY <1>0, <3>1
  <2>4. \A b, c \in Schedule(next_id) : b.delay_sec = c.delay_sec => b = c
    BY DEF Schedule
  <2>5. \A d \in Delays : \E c \in Schedule(next_id) : c.delay_sec = d
    <3> SUFFICES ASSUME NEW d \in Delays
                 PROVE  \E c \in Schedule(next_id) : c.delay_sec = d
      OBVIOUS
    <3> DEFINE check == [opportunity_id |-> next_id, delay_sec |-> d, due |-> now + d]
    <3>1. check \in Schedule(next_id)
      BY DEF Schedule
    <3>2. check.delay_sec = d
      OBVIOUS
    <3> QED
      BY <3>1, <3>2
  <2>6. \A c \in checks' :
          /\ c.opportunity_id < next_id'
          /\ [opportunity_id |-> c.opportunity_id, delay_sec |-> c.delay_sec] \notin measured'
    <3>1. ASSUME NEW c \in checks
          PROVE  c.opportunity_id < next_id + 1
      <4>1. c.opportunity_id \in Nat /\ c.opportunity_id < next_id
        BY DEF RecorderTypeOK
      <4> QED
        BY <1>0, <4>1
    <3>2. ASSUME NEW c \in Schedule(next_id)
          PROVE  /\ c.opportunity_id < next_id + 1
                 /\ [opportunity_id |-> c.opportunity_id, delay_sec |-> c.delay_sec] \notin measured
      <4>1. c.opportunity_id = next_id /\ next_id < next_id + 1 /\ ~(next_id < next_id)
        BY <1>0, <2>2
      <4>2. [opportunity_id |-> c.opportunity_id, delay_sec |-> c.delay_sec].opportunity_id
              = c.opportunity_id
        OBVIOUS
      <4> QED
        BY <4>1, <4>2
    <3> QED
      BY <2>1, <3>1, <3>2
  <2>7. \A b, c \in checks' :
          b.opportunity_id = c.opportunity_id /\ b.delay_sec = c.delay_sec => b = c
    BY <2>1, <2>2, <2>3, <2>4
  <2>8. \A r \in measured' : r.opportunity_id < next_id'
    BY <1>0, <2>1
  <2>9. phase' # "ended" =>
          \A id \in 0 .. next_id' - 1, d \in Delays :
            \/ [opportunity_id |-> id, delay_sec |-> d] \in measured'
            \/ \E c \in checks' : c.opportunity_id = id /\ c.delay_sec = d
    <3> SUFFICES ASSUME phase' # "ended", NEW id \in 0 .. next_id' - 1, NEW d \in Delays
                 PROVE  \/ [opportunity_id |-> id, delay_sec |-> d] \in measured'
                        \/ \E c \in checks' : c.opportunity_id = id /\ c.delay_sec = d
      OBVIOUS
    <3>0. id \in 0 .. next_id /\ phase # "ended"
      BY <1>0, <2>1
    <3>1. CASE id = next_id
      BY <2>1, <2>2, <2>5, <3>1
    <3>2. CASE id # next_id
      <4>1. id \in 0 .. next_id - 1
        BY <1>0, <3>0, <3>2
      <4> QED
        BY <2>1, <3>0, <4>1
    <3> QED
      BY <3>1, <3>2
  <2> QED
    BY <2>6, <2>7, <2>8, <2>9
<1>2. ASSUME NEW c \in checks, DecayCheck(c)
      PROVE  SleepsUntilMeasured'
  <2> DEFINE record == [opportunity_id |-> c.opportunity_id, delay_sec |-> c.delay_sec]
  <2>1. /\ checks' = checks \ {c}
        /\ measured' = measured \cup {record}
        /\ UNCHANGED <<next_id, phase>>
    BY <1>2 DEF DecayCheck, memory, loop
  <2>2. /\ record.opportunity_id = c.opportunity_id /\ record.delay_sec = c.delay_sec
        /\ record.opportunity_id < next_id
    OBVIOUS
  <2>3. \A b \in checks \ {c} :
          [opportunity_id |-> b.opportunity_id, delay_sec |-> b.delay_sec] # record
    <3> SUFFICES ASSUME NEW b \in checks \ {c},
                        [opportunity_id |-> b.opportunity_id, delay_sec |-> b.delay_sec] = record
                 PROVE  FALSE
      OBVIOUS
    <3>1. b.opportunity_id = c.opportunity_id /\ b.delay_sec = c.delay_sec
      OBVIOUS
    <3> QED
      BY <3>1
  <2>4. \A id \in 0 .. next_id - 1, d \in Delays :
          c.opportunity_id = id /\ c.delay_sec = d => [opportunity_id |-> id, delay_sec |-> d] = record
    OBVIOUS
  <2> HIDE DEF record
  <2> QED
    BY <2>1, <2>2, <2>3, <2>4
<1>3. CASE Exit
  BY <1>3 DEF Exit, memory
<1>4. CASE UNCHANGED <<next_id, checks, measured>> /\ (phase = "ended" => phase' = "ended")
  BY <1>4
<1>5. \/ RecordOpportunity
      \/ \E c \in checks : DecayCheck(c)
      \/ Exit
      \/ UNCHANGED <<next_id, checks, measured>> /\ (phase = "ended" => phase' = "ended")
  BY DEF RecNext, recVars, memory, decays, loop, BeginTick, BeginExecuting, BookResult, EndTick,
         IdleTick, WakeUp, ShutDown, FinalFlush, Pass
<1> QED
  BY <1>1, <1>2, <1>3, <1>4, <1>5

\* The second in which a tick ends is passed before the next tick ends.
LEMMA DecaysApartStep ==
  ASSUME RecorderTypeOK, DecaysApart, FlushesApart, [RecNext]_recVars
  PROVE  DecaysApart'
<1> USE DEF DecaysApart
<1>0. now \in Nat /\ wake \in Nat /\ PollInterval \in Nat
  BY RecorderConstantsAreTyped DEF RecorderTypeOK
<1>1. CASE EndTick
  <2>1. /\ phase = "execute" /\ wake' = now + PollInterval /\ wake <= wake'
    BY <1>0, <1>1 DEF EndTick, FlushesApart
  <2>2. \A s \in DOMAIN decay_files' : s \in DOMAIN decay_files \/ s = Second
    BY <1>1 DEF EndTick, Flush, FlushDecays, Written
  <2>3. ASSUME NEW s \in DOMAIN decay_files'
        PROVE  \E t \in 0 .. wake' : t + PollInterval <= wake' /\ s = t \div TicksPerSecond
    <3>1. CASE s \in DOMAIN decay_files
      <4>1. PICK t \in 0 .. wake : t + PollInterval <= wake /\ s = t \div TicksPerSecond
        BY <2>1, <3>1
      <4>2. t \in 0 .. wake' /\ t + PollInterval <= wake'
        BY <1>0, <2>1, <4>1
      <4> QED
        BY <4>1, <4>2
    <3>2. CASE s = Second
      <4>1. now \in 0 .. wake' /\ now + PollInterval <= wake'
        BY <1>0, <2>1
      <4> QED
        BY <3>2, <4>1 DEF Second
    <3> QED
      BY <2>2, <3>1, <3>2
  <2> QED
    BY <2>3
<1>2. CASE IdleTick
  <2>1. /\ phase = "detect" /\ wake' \in Nat /\ wake <= wake'
        /\ UNCHANGED decay_files
    BY <1>0, <1>2 DEF IdleTick, files, FlushesApart
  <2>2. ASSUME NEW s \in DOMAIN decay_files
        PROVE  \E t \in 0 .. wake' : t + PollInterval <= wake' /\ s = t \div TicksPerSecond
    <3>1. PICK t \in 0 .. wake : t + PollInterval <= wake /\ s = t \div TicksPerSecond
      BY <2>1
    <3>2. t \in 0 .. wake' /\ t + PollInterval <= wake'
      BY <1>0, <2>1, <3>1
    <3> QED
      BY <3>1, <3>2
  <2> QED
    BY <2>1, <2>2
<1>3. CASE phase' \in {"closing", "ended"}
  BY <1>3
<1>4. CASE UNCHANGED <<decay_files, wake>> /\ phase \notin {"closing", "ended"}
  BY <1>4
<1>5. \/ EndTick
      \/ IdleTick
      \/ phase' \in {"closing", "ended"}
      \/ UNCHANGED <<decay_files, wake>> /\ phase \notin {"closing", "ended"}
  BY DEF RecNext, recVars, files, loop, BeginTick, RecordOpportunity, BeginExecuting, BookResult,
         WakeUp, DecayCheck, ShutDown, FinalFlush, Exit, Pass
<1> QED
  BY <1>1, <1>2, <1>3, <1>4, <1>5

\* A flush at the end of a tick opens a decay file that is not there yet.
LEMMA FreshDecayFile ==
  ASSUME RecorderTypeOK, FlushesApart, DecaysApart, phase = "execute"
  PROVE  Second \notin DOMAIN decay_files
<1> SUFFICES ASSUME NEW s \in DOMAIN decay_files
             PROVE  s # Second
  OBVIOUS
<1>1. PICK t \in 0 .. wake : t + PollInterval <= wake /\ s = t \div TicksPerSecond
  BY DEF DecaysApart
<1>2. now \in Nat /\ t \in Nat /\ t + TicksPerSecond <= now
  BY <1>1, RecorderConstantsAreTyped, TicksAreASecondApart DEF FlushesApart, RecorderTypeOK
<1>3. t \div TicksPerSecond < now \div TicksPerSecond
  BY <1>2, SecondsApart
<1>4. t \div TicksPerSecond \in Int /\ now \div TicksPerSecond \in Int
  BY <1>2, RecorderConstantsAreTyped
<1> QED
  BY <1>1, <1>3, <1>4 DEF Second

\* What is measured goes to the buffer once, and from there to one file.
LEMMA MeasuredStep ==
  ASSUME RecorderTypeOK, FlushesApart, DecaysApart, SleepsUntilMeasured, MeasuredOnce,
         [RecNext]_recVars
  PROVE  MeasuredOnce'
<1> USE DEF MeasuredOnce
<1>0. /\ decay_buffer \in Seq(DecayRecord) /\ Len(decay_buffer) \in Nat
      /\ DOMAIN decay_buffer = 1 .. Len(decay_buffer)
  BY LenProperties DEF RecorderTypeOK
<1>1. ASSUME NEW c \in checks, DecayCheck(c)
      PROVE  MeasuredOnce'
  <2> DEFINE record == [opportunity_id |-> c.opportunity_id, delay_sec |-> c.delay_sec]
             last == Len(decay_buffer) + 1
  <2>1. /\ decay_buffer' = Append(decay_buffer, record)
        /\ measured' = measured \cup {record}
        /\ UNCHANGED <<decay_files, phase>>
    BY <1>1 DEF DecayCheck, files, loop
  <2>2. record \in DecayRecord /\ record \notin measured
    BY DEF RecorderTypeOK, DecayRecord, SleepsUntilMeasured
  <2> HIDE DEF record
  <2>3. /\ Len(decay_buffer') = last
        /\ \A i \in 1 .. Len(decay_buffer) : decay_buffer'[i] = decay_buffer[i]
        /\ decay_buffer'[last] = record
    BY <1>0, <2>1, <2>2, AppendProperties
  <2>4. 1 .. last = (1 .. Len(decay_buffer)) \cup {last}
    BY <1>0
  <2> HIDE DEF last
  <2>5. \A r : CheckedFiles(r)' = CheckedFiles(r)
    BY <2>1 DEF CheckedFiles
  <2>6. \A r : Buffered(r)' <=> Buffered(r) \/ r = record
    BY <2>3, <2>4 DEF Buffered
  <2>7. ~Buffered(record) /\ CheckedFiles(record) = {}
    BY <2>2 DEF Buffered, CheckedFiles
  <2>8. \A i, j \in 1 .. Len(decay_buffer') : decay_buffer'[i] = decay_buffer'[j] => i = j
    BY <2>2, <2>3, <2>4
  <2>9. /\ \A i \in 1 .. Len(decay_buffer') : decay_buffer'[i] \in measured'
        /\ \A s \in DOMAIN decay_files' : decay_files'[s] \subseteq measured'
    BY <2>1, <2>3, <2>4
  <2> QED
    BY <2>1, <2>5, <2>6, <2>7, <2>8, <2>9
<1>2. CASE FlushDecays /\ UNCHANGED measured /\ (phase = "execute" \/ phase' = "closing")
  <2>1. decay_buffer' = <<>> /\ Len(decay_buffer') = 0
    BY <1>2, EmptySeq DEF FlushDecays
  <2>2. \A i : i \notin 1 .. 0
    OBVIOUS
  <2>3. \A r : ~Buffered(r)'
    BY <2>1, <2>2 DEF Buffered
  <2>4. CASE decay_buffer = <<>>
    <3>1. UNCHANGED decay_files /\ \A r : ~Buffered(r)
      BY <1>2, <2>2, <2>4, EmptySeq DEF FlushDecays, Buffered
    <3>2. \A r : CheckedFiles(r)' = CheckedFiles(r)
      BY <3>1 DEF CheckedFiles
    <3> QED
      BY <1>2, <2>1, <2>2, <2>3, <3>1, <3>2
  <2>5. CASE decay_buffer # <<>>
    <3> DEFINE content == {decay_buffer[i] : i \in DOMAIN decay_buffer}
    <3>1. decay_files' = Written(decay_files, content)
      BY <1>2, <2>5 DEF FlushDecays
    <3>2. content \subseteq measured /\ \A r : r \in content <=> Buffered(r)
      BY <1>0 DEF Buffered
    <3> HIDE DEF content
    <3>3. \A s \in DOMAIN decay_files' : decay_files'[s] \subseteq measured'
      BY <1>2, <3>1, <3>2 DEF Written
    <3>4. ASSUME phase = "execute", NEW r \in measured
          PROVE  \E s \in DOMAIN decay_files' : CheckedFiles(r)' = {s}
      <4>1. Second \notin DOMAIN decay_files
        BY <3>4, FreshDecayFile
      <4>2. CheckedFiles(r)' = CheckedFiles(r) \cup {s \in {Second} : r \in content}
        BY <3>1, <4>1 DEF CheckedFiles, Written
      <4>3. DOMAIN decay_files' = DOMAIN decay_files \cup {Second}
        BY <3>1 DEF Written
      <4> QED
        BY <3>2, <3>4, <4>2, <4>3
    <3> QED
      BY <1>2, <2>1, <2>2, <2>3, <3>3, <3>4
  <2> QED
    BY <2>4, <2>5
<1>3. CASE /\ UNCHANGED <<decay_buffer, decay_files, measured>>
           /\ phase \in {"closing", "ended"} => phase' \in {"closing", "ended"}
  <2>1. \A r : CheckedFiles(r)' = CheckedFiles(r) /\ Buffered(r)' = Buffered(r)
    BY <1>3 DEF CheckedFiles, Buffered
  <2> QED
    BY <1>3, <2>1
<1>4. \/ \E c \in checks : DecayCheck(c)
      \/ FlushDecays /\ UNCHANGED measured /\ (phase = "execute" \/ phase' = "closing")
      \/ /\ UNCHANGED <<decay_buffer, decay_files, measured>>
         /\ phase \in {"closing", "ended"} => phase' \in {"closing", "ended"}
  BY DEF RecNext, recVars, decays, files, loop, Flush, BeginTick, RecordOpportunity,
         BeginExecuting, BookResult, EndTick, IdleTick, WakeUp, ShutDown, FinalFlush, Exit, Pass
<1> QED
  BY <1>1, <1>2, <1>3, <1>4

-------------------------------------------------------------------------------
\* Theorems.

\* What is recorded, kept, written and booked stays consistent, for any caps,
\* delays and bounds: the inductive invariant of the recorder.
THEOREM RecorderInvariant == RecSpec => []RecorderInv
<1>1. RecInit => RecorderInv
  <2> SUFFICES ASSUME RecInit PROVE RecorderInv
    OBVIOUS
  <2> USE DEF RecInit
  <2>1. <<>> \in Seq(Nat) /\ <<>> \in Seq(DecayRecord) /\ Len(<<>>) = 0
    BY EmptySeq
  <2>2. RecorderTypeOK
    BY <2>1, RecorderConstantsAreTyped DEF RecorderTypeOK, Phases
  <2>3. HistoryMatchesIndex
    <3>1. next_id - next_id = 0 /\ next_id - 1 = -1 /\ next_id < MaxInMemoryOpportunities
      BY RecorderConstantsAreTyped
    <3>2. [i \in 1 .. 0 |-> next_id - 0 + i - 1] = <<>>
      OBVIOUS
    <3>3. 0 .. -1 = {}
      OBVIOUS
    <3> QED
      BY <3>1, <3>2, <3>3 DEF HistoryMatchesIndex
  <2>4. WrittenInOrder
    BY <2>1 DEF WrittenInOrder, FilesOf
  <2>5. NewOnesWait /\ FlushesApart /\ BookedOnce
    BY <2>1 DEF NewOnesWait, FlushesApart, BookedOnce
  <2>6. ResultsAreWritten
    BY DEF ResultsAreWritten
  <2> QED
    BY <2>2, <2>3, <2>4, <2>5, <2>6 DEF RecorderInv
<1>2. RecorderInv /\ [RecNext]_recVars => RecorderInv'
  BY TypeStep, HistoryStep, WrittenStep, NewOnesStep, ApartStep, BookedStep, ResultsStep
  DEF RecorderInv
<1> QED
  BY <1>1, <1>2, PTL DEF RecSpec

\* The recorder, its files and the loop are well typed.
THEOREM RecorderTypeCorrect == RecSpec => []RecorderTypeOK
<1>1. RecorderInv => RecorderTypeOK
  BY DEF RecorderInv
<1> QED
  BY <1>1, RecorderInvariant, PTL

\* Memory and index hold the latest records, as many as the cap allows, and no
\* others.
THEOREM MemoryIsTheLatest == RecSpec => []HistoryMatchesIndex
<1>1. RecorderInv => HistoryMatchesIndex
  BY DEF RecorderInv
<1> QED
  BY <1>1, RecorderInvariant, PTL

\* No opportunity is lost or written twice, whatever is evicted from memory
\* and wherever the process is shut down.
THEOREM EveryRecordInOneFile == RecSpec => []EveryRecordIsWritten
<1>1. RecorderInv => EveryRecordIsWritten
  <2> SUFFICES ASSUME RecorderInv, NEW id \in 0 .. next_id - 1
               PROVE  Cardinality({i \in DOMAIN opportunity_buffer :
                                     opportunity_buffer[i] = id})
                        + Cardinality(FilesOf(id)) = 1
    BY DEF EveryRecordIsWritten
  <2> DEFINE length == Len(opportunity_buffer)
             places == {i \in DOMAIN opportunity_buffer : opportunity_buffer[i] = id}
  <2>1. /\ length \in Nat /\ next_id \in Nat /\ id \in Nat /\ id < next_id
        /\ DOMAIN opportunity_buffer = 1 .. length
        /\ \A i \in 1 .. length : opportunity_buffer[i] = next_id - length + i - 1
    BY LenProperties DEF RecorderInv, RecorderTypeOK, WrittenInOrder
  <2>2. CASE id < next_id - length
    <3>1. PICK s \in Nat : FilesOf(id) = {s}
      BY <2>1, <2>2 DEF RecorderInv, WrittenInOrder
    <3>2. places = {}
      <4> HIDE DEF length
      <4>1. \A i \in 1 .. length : opportunity_buffer[i] # id
        BY <2>1, <2>2
      <4> QED
        BY <2>1, <4>1
    <3>3. Cardinality(FilesOf(id)) = 1 /\ Cardinality(places) = 0
      BY <3>1, <3>2, FS_Singleton, FS_EmptySet
    <3> QED
      BY <3>3
  <2>3. CASE id >= next_id - length
    <3> DEFINE place == id - (next_id - length) + 1
    <3>1. FilesOf(id) = {}
      BY <2>1, <2>3 DEF RecorderInv, WrittenInOrder
    <3>2. places = {place}
      <4> HIDE DEF length
      <4>1. place \in 1 .. length /\ next_id - length + place - 1 = id
        BY <2>1, <2>3
      <4>2. \A i \in 1 .. length : next_id - length + i - 1 = id <=> i = place
        BY <2>1
      <4>3. \A i \in 1 .. length : opportunity_buffer[i] = id <=> i = place
        BY <2>1, <4>2
      <4> QED
        BY <2>1, <4>1, <4>3
    <3>3. Cardinality(FilesOf(id)) = 0 /\ Cardinality(places) = 1
      BY <3>1, <3>2, FS_Singleton, FS_EmptySet
    <3> QED
      BY <3>3
  <2> QED
    BY <2>1, <2>2, <2>3
<1> QED
  BY <1>1, RecorderInvariant, PTL

\* A record's file shows the result of its own trade, unless the same tick had
\* pushed the record out of memory.
THEOREM ResultsReachTheFile == RecSpec => []ResultsAreWritten
<1>1. RecorderInv => ResultsAreWritten
  BY DEF RecorderInv
<1> QED
  BY <1>1, RecorderInvariant, PTL

\* Until the process shuts down, each opportunity is measured once at each
\* delay, and the measurement is in the buffer or in exactly one file.
THEOREM EveryCheckOnce == RecSpec => []EachCheckOnce
<1> DEFINE Inv == SleepsUntilMeasured /\ MeasuredOnce /\ DecaysApart
<1>1. RecInit => Inv
  <2> SUFFICES ASSUME RecInit PROVE Inv
    OBVIOUS
  <2>1. Len(<<>>) = 0 /\ \A i : i \notin 1 .. 0
    BY EmptySeq
  <2>2. 0 .. next_id - 1 = {}
    BY DEF RecInit
  <2> QED
    BY <2>1, <2>2 DEF RecInit, SleepsUntilMeasured, MeasuredOnce, DecaysApart
<1>2. RecorderInv /\ Inv /\ [RecNext]_recVars => Inv'
  BY SleepsStep, MeasuredStep, DecaysApartStep DEF RecorderInv
<1>3. RecorderInv /\ Inv => EachCheckOnce
  <2> SUFFICES ASSUME RecorderInv, Inv, phase \notin {"closing", "ended"},
                      NEW id \in 0 .. next_id - 1, NEW d \in Delays,
                      NEW check, check = [opportunity_id |-> id, delay_sec |-> d]
               PROVE  Cardinality({c \in checks : c.opportunity_id = id /\ c.delay_sec = d})
                        + Cardinality({i \in DOMAIN decay_buffer : decay_buffer[i] = check})
                        + Cardinality(CheckedFiles(check)) = 1
    BY DEF EachCheckOnce
  <2> DEFINE asleep == {c \in checks : c.opportunity_id = id /\ c.delay_sec = d}
             waiting == {i \in DOMAIN decay_buffer : decay_buffer[i] = check}
  <2>1. DOMAIN decay_buffer = 1 .. Len(decay_buffer)
    BY LenProperties DEF RecorderInv, RecorderTypeOK
  <2>2. CASE check \notin measured
    <3>1. PICK c \in checks : c.opportunity_id = id /\ c.delay_sec = d
      BY <2>2 DEF SleepsUntilMeasured
    <3>2. asleep = {c}
      BY <3>1 DEF SleepsUntilMeasured
    <3>3. waiting = {} /\ CheckedFiles(check) = {}
      BY <2>1, <2>2 DEF MeasuredOnce, CheckedFiles
    <3>4. /\ Cardinality(asleep) = 1
          /\ Cardinality(waiting) = 0 /\ Cardinality(CheckedFiles(check)) = 0
      BY <3>2, <3>3, FS_Singleton, FS_EmptySet
    <3> QED
      BY <3>4
  <2>3. CASE check \in measured
    <3>1. asleep = {}
      BY <2>3 DEF SleepsUntilMeasured
    <3>2. CASE Buffered(check)
      <4>1. PICK i \in 1 .. Len(decay_buffer) : decay_buffer[i] = check
        BY <3>2 DEF Buffered
      <4>2. waiting = {i}
        BY <2>1, <4>1 DEF MeasuredOnce
      <4>3. CheckedFiles(check) = {}
        BY <2>3, <3>2 DEF MeasuredOnce
      <4>4. /\ Cardinality(waiting) = 1
            /\ Cardinality(asleep) = 0 /\ Cardinality(CheckedFiles(check)) = 0
        BY <3>1, <4>2, <4>3, FS_Singleton, FS_EmptySet
      <4> QED
        BY <4>4
    <3>3. CASE ~Buffered(check)
      <4>1. waiting = {}
        BY <2>1, <3>3 DEF Buffered
      <4>2. PICK s : CheckedFiles(check) = {s}
        BY <2>3, <3>3 DEF MeasuredOnce
      <4>3. /\ Cardinality(CheckedFiles(check)) = 1
            /\ Cardinality(asleep) = 0 /\ Cardinality(waiting) = 0
        BY <3>1, <4>1, <4>2, FS_Singleton, FS_EmptySet
      <4> QED
        BY <4>3
    <3> QED
      BY <3>2, <3>3
  <2> QED
    BY <2>2, <2>3
<1> QED
  BY <1>1, <1>2, <1>3, RecorderInvariant, PTL DEF RecSpec
================================================================================

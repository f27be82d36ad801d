------------------------------- MODULE Recorder --------------------------------
(***************************************************************************)
(* analytics/recorder.py, as main.py's loop drives it: a tick records what *)
(* it detected, starts a decay check of each at every delay, attaches the  *)
(* results of its trades and flushes.  The checks wake at any suspension   *)
(* of the loop.  Files are named by the second.                            *)
(*                                                                         *)
(* A record is its id and the mode its result came in with; what a rescan  *)
(* observes is left out.  Time counts in fractions of a second.            *)
(***************************************************************************)
EXTENDS Integers, Sequences, FiniteSets

CONSTANTS
  Delays,                      \* decay_delays
  MaxInMemoryOpportunities,    \* max_in_memory_opportunities
  MaxInMemoryDecayRecords,     \* max_in_memory_decay_records
  TradeModes,                  \* modes a trade's result comes in with
  None,                        \* Python's None
  TicksPerSecond,              \* resolution of the clock
  PollInterval,                \* REST_POLL_INTERVAL_SEC
  MaxPerTick,                  \* bound: opportunities found in one tick
  MaxRecords,                  \* bound: opportunities found in all
  MaxTime                      \* bound: length of a behaviour

ASSUME RecorderConstantsAreTyped ==
  /\ Delays \subseteq Nat \ {0}
  /\ MaxInMemoryOpportunities \in Nat \ {0}
  /\ MaxInMemoryDecayRecords \in Nat \ {0}
  /\ None \notin TradeModes
  /\ TicksPerSecond \in Nat \ {0}
  /\ PollInterval \in Nat \ {0}
  /\ MaxPerTick \in Nat
  /\ MaxRecords \in Nat
  /\ MaxTime \in Nat

\* REST_POLL_INTERVAL_SEC is 2.0: no second sees two ticks.
ASSUME TicksAreASecondApart == PollInterval >= TicksPerSecond

VARIABLES
  next_id,                  \* _next_id
  opportunity_buffer,       \* _opportunity_buffer: the ids of its records
  decay_buffer,             \* _decay_buffer
  all_opportunity_records,  \* the rolling history: the ids of its records
  all_decay_records,        \* the rolling history of decay records
  by_id,                    \* keys of _by_id
  results,                  \* trade_mode of every record made so far
  checks,                   \* decay checks asleep
  opportunity_files,        \* second -> what that file holds
  decay_files,              \* second -> what that file holds
  phase,                    \* where the loop is
  new_opportunities,        \* ids of this tick's opportunities
  wake,                     \* when the loop's sleep ends
  now,                      \* time.time()
  booked,                   \* history: results main passed on, [id, mode, aged]
  measured                  \* history: every decay record made

memory == <<next_id, opportunity_buffer, all_opportunity_records, by_id, results>>
decays == <<decay_buffer, all_decay_records, checks, measured>>
files == <<opportunity_files, decay_files>>
loop == <<phase, new_opportunities, wake>>
recVars == <<memory, decays, files, loop, now, booked>>

Phases == {"detect", "record", "execute", "sleep", "stopping", "closing", "ended"}
Record == [id : Nat, trade_mode : TradeModes \cup {None}]
DecayRecord == [opportunity_id : Nat, delay_sec : Delays]

RecInit ==
  /\ next_id = 0
  /\ opportunity_buffer = <<>>
  /\ decay_buffer = <<>>
  /\ all_opportunity_records = <<>>
  /\ all_decay_records = <<>>
  /\ by_id = {}
  /\ results = [id \in 0 .. -1 |-> None]
  /\ checks = {}
  /\ opportunity_files = [s \in {} |-> {}]
  /\ decay_files = [s \in {} |-> {}]
  /\ phase = "detect"
  /\ new_opportunities = <<>>
  /\ wake = 0
  /\ now = 0
  /\ booked = {}
  /\ measured = {}

\* Mutant: nothing is ever evicted.
RollUnbounded(history, x, cap) == Append(history, x)

\* A bounded deque: append, then pop the oldest if there is one too many.
Roll(history, x, cap) ==
  LET grown == Append(history, x)
  IN IF Len(grown) > cap THEN Tail(grown) ELSE grown

\* Mutant: an evicted record stays in the index.
IndexKeeping(history, index, id) == index \cup {id}

\* The index after the record of this id was appended to the history.
IndexAfter(history, index, id) ==
  IF Len(history) + 1 > MaxInMemoryOpportunities
  THEN (index \cup {id}) \ {Head(Append(history, id))}
  ELSE index \cup {id}

\* main: an active tick starts.  Nothing is awaited before "execute".
BeginTick ==
  /\ phase = "detect"
  /\ phase' = "record"
  /\ new_opportunities' = <<>>
  /\ UNCHANGED <<memory, decays, files, wake, now, booked>>

\* schedule_decay_checks
Schedule(id) ==
  {[opportunity_id |-> id, delay_sec |-> d, due |-> now + d] : d \in Delays}

\* record, then schedule_decay_checks
RecordOpportunity ==
  /\ phase = "record"
  /\ Len(new_opportunities) < MaxPerTick
  /\ next_id < MaxRecords
  /\ next_id' = next_id + 1
  /\ opportunity_buffer' = Append(opportunity_buffer, next_id)
  /\ all_opportunity_records' =
       Roll(all_opportunity_records, next_id, MaxInMemoryOpportunities)
  /\ by_id' = IndexAfter(all_opportunity_records, by_id, next_id)
  /\ results' = [id \in 0 .. next_id |-> IF id = next_id THEN None ELSE results[id]]
  /\ checks' = checks \cup Schedule(next_id)
  /\ new_opportunities' = Append(new_opportunities, next_id)
  /\ UNCHANGED <<decay_buffer, all_decay_records, measured, files, phase,
                 wake, now, booked>>

BeginExecuting ==
  /\ phase = "record"
  /\ phase' = "execute"
  /\ UNCHANGED <<memory, decays, files, new_opportunities, wake, now, booked>>

\* Mutant: look the record up by its position in the history.
AttachByPosition(id, mode) ==
  IF id < Len(all_opportunity_records)
  THEN [results EXCEPT ![all_opportunity_records[id + 1]] = mode]
  ELSE results

\* attach_trade_result
Attach(id, mode) ==
  IF id \in by_id THEN [results EXCEPT ![id] = mode] ELSE results

\* main: a trade of this tick was logged.
BookResult(id, mode) ==
  /\ phase = "execute"
  /\ \A b \in booked : b.id # id
  /\ results' = Attach(id, mode)
  /\ booked' = booked \cup
       {[id |-> id, mode |-> mode, aged |-> id + MaxInMemoryOpportunities < next_id]}
  /\ UNCHANGED <<next_id, opportunity_buffer, all_opportunity_records, by_id,
                 decays, files, loop, now>>

Second == now \div TicksPerSecond

\* What a directory holds after this content was written under this second:
\* opening a file that is already there replaces it.
Written(directory, content) ==
  [s \in DOMAIN directory \cup {Second} |->
     IF s = Second THEN content ELSE directory[s]]

Records(ids) == {[id |-> ids[i], trade_mode |-> results[ids[i]]] : i \in DOMAIN ids}

\* Mutant: what was written is not cleared.
FlushOpportunitiesAgain ==
  /\ opportunity_files' =
       IF opportunity_buffer = <<>> THEN opportunity_files
       ELSE Written(opportunity_files, Records(opportunity_buffer))
  /\ UNCHANGED opportunity_buffer

FlushOpportunities ==
  /\ opportunity_files' =
       IF opportunity_buffer = <<>> THEN opportunity_files
       ELSE Written(opportunity_files, Records(opportunity_buffer))
  /\ opportunity_buffer' = <<>>

\* Mutant: decay records are written with opportunities only.
FlushDecaysOfTheTick ==
  /\ decay_files' =
       IF decay_buffer = <<>> \/ opportunity_buffer = <<>> THEN decay_files
       ELSE Written(decay_files, {decay_buffer[i] : i \in DOMAIN decay_buffer})
  /\ decay_buffer' = <<>>

FlushDecays ==
  /\ decay_files' =
       IF decay_buffer = <<>> THEN decay_files
       ELSE Written(decay_files, {decay_buffer[i] : i \in DOMAIN decay_buffer})
  /\ decay_buffer' = <<>>

Flush == FlushOpportunities /\ FlushDecays

\* The end of an active tick: flush, publish, go to sleep.
EndTick ==
  /\ phase = "execute"
  /\ Flush
  /\ phase' = "sleep"
  /\ wake' = now + PollInterval
  /\ UNCHANGED <<next_id, all_opportunity_records, by_id, results,
                 all_decay_records, checks, measured, new_opportunities, now, booked>>

\* A tick while paused: nothing is detected and nothing flushed.
IdleTick ==
  /\ phase = "detect"
  /\ phase' = "sleep"
  /\ new_opportunities' = <<>>
  /\ wake' = now + PollInterval
  /\ UNCHANGED <<memory, decays, files, now, booked>>

WakeUp ==
  /\ phase = "sleep"
  /\ now >= wake
  /\ phase' = "detect"
  /\ UNCHANGED <<memory, decays, files, new_opportunities, wake, now, booked>>

\* The event loop runs timers in the order they are due.
Sooner(c, other) ==
  \/ c.due < other.due
  \/ c.due = other.due /\ c.opportunity_id < other.opportunity_id

\* _check_after_delay wakes; from "record" to "execute" the loop does not yield.
DecayCheck(c) ==
  LET record == [opportunity_id |-> c.opportunity_id, delay_sec |-> c.delay_sec]
  IN /\ phase \notin {"record", "ended"}
     /\ c.due <= now
     /\ \A other \in checks \ {c} : ~Sooner(other, c)
     /\ checks' = checks \ {c}
     /\ decay_buffer' = Append(decay_buffer, record)
     /\ all_decay_records' = Roll(all_decay_records, record, MaxInMemoryDecayRecords)
     /\ measured' = measured \cup {record}
     /\ UNCHANGED <<memory, files, loop, now, booked>>

\* The loop is cancelled where it is suspended; feeds and dashboard are stopped.
ShutDown ==
  /\ phase \in {"detect", "execute", "sleep"}
  /\ phase' = "stopping"
  /\ UNCHANGED <<memory, decays, files, new_opportunities, wake, now, booked>>

\* The last flush; then the clients are closed.
FinalFlush ==
  /\ phase = "stopping"
  /\ Flush
  /\ phase' = "closing"
  /\ UNCHANGED <<next_id, all_opportunity_records, by_id, results,
                 all_decay_records, checks, measured, new_opportunities,
                 wake, now, booked>>

\* run returns, and asyncio cancels the checks that are still asleep.
Exit ==
  /\ phase = "closing"
  /\ phase' = "ended"
  /\ checks' = {}
  /\ UNCHANGED <<memory, decay_buffer, all_decay_records, measured, files,
                 new_opportunities, wake, now, booked>>

Pass ==
  /\ now < MaxTime
  /\ phase # "record"
  /\ phase # "ended"
  /\ now' = now + 1
  /\ UNCHANGED <<memory, decays, files, loop, booked>>

RecNext ==
  \/ BeginTick
  \/ RecordOpportunity
  \/ BeginExecuting
  \/ \E i \in DOMAIN new_opportunities, mode \in TradeModes :
       BookResult(new_opportunities[i], mode)
  \/ EndTick
  \/ IdleTick
  \/ WakeUp
  \/ \E c \in checks : DecayCheck(c)
  \/ ShutDown
  \/ FinalFlush
  \/ Exit
  \/ Pass

RecSpec == RecInit /\ [][RecNext]_recVars

-------------------------------------------------------------------------------

\* The fields of the recorder, its files and the loop have their types, and the
\* history of decay records stays within its cap.
RecorderTypeOK ==
  /\ next_id \in Nat
  /\ opportunity_buffer \in Seq(Nat)
  /\ decay_buffer \in Seq(DecayRecord)
  /\ all_opportunity_records \in Seq(Nat)
  /\ all_decay_records \in Seq(DecayRecord)
  /\ Len(all_decay_records) <= MaxInMemoryDecayRecords
  /\ by_id \subseteq Nat
  /\ results \in [0 .. next_id - 1 -> TradeModes \cup {None}]
  /\ checks \subseteq [opportunity_id : Nat, delay_sec : Delays, due : Nat]
  /\ phase \in Phases
  /\ new_opportunities \in Seq(Nat)
  /\ wake \in Nat
  /\ now \in Nat
  /\ DOMAIN opportunity_files \subseteq Nat
  /\ \A s \in DOMAIN opportunity_files : opportunity_files[s] \subseteq Record
  /\ DOMAIN decay_files \subseteq Nat
  /\ \A s \in DOMAIN decay_files : decay_files[s] \subseteq DecayRecord
  /\ booked \subseteq [id : Nat, mode : TradeModes, aged : BOOLEAN]
  /\ measured \subseteq DecayRecord

\* What is kept in memory is the latest records, in order, as many as the cap
\* allows, and the index that attach_trade_result looks them up in knows those
\* and no others: it neither misses one still shown nor grows without bound.
HistoryMatchesIndex ==
  LET kept == IF next_id < MaxInMemoryOpportunities
              THEN next_id ELSE MaxInMemoryOpportunities
  IN /\ all_opportunity_records = [i \in 1 .. kept |-> next_id - kept + i - 1]
     /\ by_id = next_id - kept .. next_id - 1

FilesOf(id) ==
  {s \in DOMAIN opportunity_files : \E r \in opportunity_files[s] : r.id = id}

\* Every opportunity recorded is either still to be flushed or in exactly one
\* file, whatever was evicted from memory and however the process ends.
EveryRecordIsWritten ==
  \A id \in 0 .. next_id - 1 :
    LET waiting == {i \in DOMAIN opportunity_buffer : opportunity_buffer[i] = id}
    IN Cardinality(waiting) + Cardinality(FilesOf(id)) = 1

\* The file shows the result of the trade an opportunity led to, of that
\* opportunity and no other: a result comes before its record is written, and
\* is dropped only for a record that the same tick had pushed out of memory.
ResultsAreWritten ==
  /\ \A id \in 0 .. next_id - 1 :
       results[id] = IF \E b \in booked : b.id = id /\ ~b.aged
                     THEN (CHOOSE b \in booked : b.id = id).mode
                     ELSE None
  /\ \A s \in DOMAIN opportunity_files :
       \A r \in opportunity_files[s] : r.trade_mode = results[r.id]

\* What the two rest on.  Ids are flushed in the order they were given out in;
\* what a tick recorded waits until its end; and no two flushes that write
\* opportunities fall into one second, for the loop sleeps in between.
WrittenInOrder ==
  LET waiting == Len(opportunity_buffer)
  IN /\ waiting <= next_id
     /\ \A i \in 1 .. waiting : opportunity_buffer[i] = next_id - waiting + i - 1
     /\ \A id \in Nat : id < next_id - waiting => \E s \in Nat : FilesOf(id) = {s}
     /\ \A id \in Nat : id >= next_id - waiting => FilesOf(id) = {}

NewOnesWait ==
  phase \in {"record", "execute"} =>
    \A i \in 1 .. Len(new_opportunities) :
      /\ new_opportunities[i] < next_id
      /\ new_opportunities[i] >= next_id - Len(opportunity_buffer)

FlushesApart ==
  /\ phase \in {"detect", "record", "execute"} => wake <= now
  /\ opportunity_buffer # <<>> =>
       phase \in {"record", "execute", "stopping"} /\ wake <= now
  /\ phase \notin {"closing", "ended"} =>
       \A s \in DOMAIN opportunity_files :
         \E t \in Nat : t + PollInterval <= wake /\ s = t \div TicksPerSecond

BookedOnce ==
  /\ \A b \in booked : b.id < next_id
  /\ \A b, c \in booked : b.id = c.id => b = c

RecorderInv ==
  /\ RecorderTypeOK
  /\ HistoryMatchesIndex
  /\ WrittenInOrder
  /\ NewOnesWait
  /\ FlushesApart
  /\ BookedOnce
  /\ ResultsAreWritten

CheckedFiles(check) == {s \in DOMAIN decay_files : check \in decay_files[s]}

\* Until the process shuts down, each opportunity is measured once at each
\* delay: the check is asleep, or its result is in the buffer or in one file.
EachCheckOnce ==
  phase \notin {"closing", "ended"} =>
    \A id \in 0 .. next_id - 1 : \A d \in Delays :
      LET check == [opportunity_id |-> id, delay_sec |-> d]
          asleep == {c \in checks : c.opportunity_id = id /\ c.delay_sec = d}
          waiting == {i \in DOMAIN decay_buffer : decay_buffer[i] = check}
      IN Cardinality(asleep) + Cardinality(waiting) + Cardinality(CheckedFiles(check)) = 1

\* What it rests on.  A check sleeps until it is measured, and is not measured
\* again; what was measured waits in the buffer or is in one file, for the
\* decay files of two ticks are a second apart as well.
Buffered(check) == \E i \in 1 .. Len(decay_buffer) : decay_buffer[i] = check

SleepsUntilMeasured ==
  /\ \A c \in checks :
       /\ c.opportunity_id < next_id
       /\ [opportunity_id |-> c.opportunity_id, delay_sec |-> c.delay_sec] \notin measured
  /\ \A b, c \in checks :
       b.opportunity_id = c.opportunity_id /\ b.delay_sec = c.delay_sec => b = c
  /\ \A r \in measured : r.opportunity_id < next_id
  /\ phase # "ended" =>
       \A id \in 0 .. next_id - 1, d \in Delays :
         \/ [opportunity_id |-> id, delay_sec |-> d] \in measured
         \/ \E c \in checks : c.opportunity_id = id /\ c.delay_sec = d

MeasuredOnce ==
  /\ \A i, j \in 1 .. Len(decay_buffer) : decay_buffer[i] = decay_buffer[j] => i = j
  /\ \A i \in 1 .. Len(decay_buffer) : decay_buffer[i] \in measured
  /\ \A s \in DOMAIN decay_files : decay_files[s] \subseteq measured
  /\ phase \notin {"closing", "ended"} =>
       \A r \in measured :
         \/ Buffered(r) /\ CheckedFiles(r) = {}
         \/ ~Buffered(r) /\ \E s \in DOMAIN decay_files : CheckedFiles(r) = {s}

DecaysApart ==
  phase \notin {"closing", "ended"} =>
    \A s \in DOMAIN decay_files :
      \E t \in 0 .. wake : t + PollInterval <= wake /\ s = t \div TicksPerSecond
================================================================================

----------------------------- MODULE VenueProofs -----------------------------
(***************************************************************************)
(* Theorems about VenueClients, for every value of its constants: no       *)
(* closed client is handed out, none is lost, reconnects that follow each  *)
(* other leave the credentials written last, and what stays open at exit   *)
(* is no client of startup's.                                              *)
(***************************************************************************)
EXTENDS VenueClients, TLAPS

-----------------------------------------------------------------------------
(***************************************************************************)
(* What the building blocks of the actions do to each field.               *)
(***************************************************************************)

LEMMA CloseFields ==
  ASSUME sessions \in Seq(Session), NEW s \in DOMAIN sessions
  PROVE  /\ CloseSession(s) \in Seq(Session)
         /\ Len(CloseSession(s)) = Len(sessions)
         /\ DOMAIN CloseSession(s) = DOMAIN sessions
         /\ \A i \in DOMAIN sessions :
              /\ CloseSession(s)[i].venue = sessions[i].venue
              /\ CloseSession(s)[i].key = sessions[i].key
              /\ i # s => CloseSession(s)[i].open = sessions[i].open
         /\ CloseSession(s)[s].open = FALSE
<1>1. sessions \in [1..Len(sessions) -> Session] /\ DOMAIN sessions = 1..Len(sessions)
  OBVIOUS
<1> DEFINE one == [sessions[s] EXCEPT !.open = FALSE]
<1>2. one \in Session
  BY <1>1 DEF Session
<1>3. CloseSession(s) = [sessions EXCEPT ![s] = one]
  BY DEF CloseSession
<1>4. one.venue = sessions[s].venue /\ one.key = sessions[s].key /\ one.open = FALSE
  BY <1>1 DEF Session
<1> HIDE DEF one
<1> QED
  BY <1>1, <1>2, <1>3, <1>4

LEMMA MakeFields ==
  ASSUME NEW made \in Seq(Session), NEW keys \in [Venues -> Keys],
         NEW t \in Tasks, NEW v \in Venues,
         task \in [Tasks -> Task], Make(t, v, made, keys)
  PROVE  /\ sessions' \in Seq(Session)
         /\ DOMAIN sessions' = 1..(Len(made) + 1)
         /\ \A i \in DOMAIN made : i # Len(made) + 1 /\ sessions'[i] = made[i]
         /\ sessions'[Len(made) + 1].venue = v
         /\ sessions'[Len(made) + 1].key = keys[v]
         /\ sessions'[Len(made) + 1].open
         /\ task' \in [Tasks -> Task]
         /\ task'[t].pc = "loading"
         /\ task'[t].venue = v
         /\ task'[t].session = Len(made) + 1
         /\ \A u \in Tasks \ {t} : task'[u] = task[u]
<1> DEFINE one == [venue |-> v, key |-> keys[v], open |-> TRUE]
           held == [pc |-> "loading", venue |-> v, session |-> Len(made) + 1]
<1>1. one \in Session
  BY DEF Session
<1>2. sessions' = Append(made, one)
  BY DEF Make
<1>3. held \in Task
  BY DEF Task, Busy
<1>4. task' = [task EXCEPT ![t] = held]
  BY DEF Make, SetTask
<1>5. /\ one.venue = v /\ one.key = keys[v] /\ one.open
      /\ held.pc = "loading" /\ held.venue = v /\ held.session = Len(made) + 1
  OBVIOUS
<1> HIDE DEF one, held
<1> QED
  BY <1>1, <1>2, <1>3, <1>4, <1>5

LEMMA PcFields ==
  ASSUME task \in [Tasks -> Task], NEW t \in Tasks,
         NEW p \in Busy \cup {"new", "done", "failed", "cancelled"},
         task' = [task EXCEPT ![t].pc = p]
  PROVE  /\ task' \in [Tasks -> Task]
         /\ task'[t].pc = p
         /\ task'[t].venue = task[t].venue
         /\ task'[t].session = task[t].session
         /\ \A u \in Tasks \ {t} : task'[u] = task[u]
<1> DEFINE held == [task[t] EXCEPT !.pc = p]
<1>1. held \in Task
  BY DEF Task
<1>2. task' = [task EXCEPT ![t] = held]
  OBVIOUS
<1>3. held.pc = p /\ held.venue = task[t].venue /\ held.session = task[t].session
  BY DEF Task
<1> HIDE DEF held
<1> QED
  BY <1>1, <1>2, <1>3

LEMMA CancelFields ==
  ASSUME task \in [Tasks -> Task], NEW ts, Cancel(ts)
  PROVE  /\ task' \in [Tasks -> Task]
         /\ \A t \in Tasks :
              /\ task'[t].venue = task[t].venue
              /\ task'[t].session = task[t].session
              /\ task'[t].pc = IF t \in ts /\ task[t].pc \in Busy
                               THEN "cancelled" ELSE task[t].pc
<1>1. ASSUME NEW t \in Tasks
      PROVE  /\ [task[t] EXCEPT !.pc = "cancelled"] \in Task
             /\ [task[t] EXCEPT !.pc = "cancelled"].pc = "cancelled"
             /\ [task[t] EXCEPT !.pc = "cancelled"].venue = task[t].venue
             /\ [task[t] EXCEPT !.pc = "cancelled"].session = task[t].session
  BY DEF Task
<1>2. \A t \in Tasks : task'[t] = IF t \in ts /\ task[t].pc \in Busy
                                  THEN [task[t] EXCEPT !.pc = "cancelled"]
                                  ELSE task[t]
  BY DEF Cancel
<1>3. task' \in [Tasks -> Task]
  BY <1>1 DEF Cancel
<1>4. ASSUME NEW t \in Tasks
      PROVE  /\ task'[t].venue = task[t].venue
             /\ task'[t].session = task[t].session
             /\ task'[t].pc = IF t \in ts /\ task[t].pc \in Busy
                              THEN "cancelled" ELSE task[t].pc
  <2>1. CASE t \in ts /\ task[t].pc \in Busy
    BY <1>1, <1>2, <2>1
  <2>2. CASE ~(t \in ts /\ task[t].pc \in Busy)
    BY <1>2, <2>2
  <2> QED
    BY <2>1, <2>2
<1> QED
  BY <1>3, <1>4


-----------------------------------------------------------------------------
(***************************************************************************)
(* Each kind of step preserves the invariant.                              *)
(***************************************************************************)

LEMMA VenueTypes ==
  ASSUME VenueInv
  PROVE  /\ environ \in [Venues -> Keys]
         /\ sessions \in Seq(Session)
         /\ DOMAIN sessions = 1..Len(sessions) /\ Len(sessions) \in Nat
         /\ clients \in [Venues -> DOMAIN sessions \cup {None}]
         /\ task \in [Tasks -> Task]
         /\ \A t \in Tasks : task[t].pc \in Busy => /\ task[t].venue \in Venues
                                                    /\ task[t].session \in DOMAIN sessions
         /\ None \notin Nat
         /\ \A i \in DOMAIN sessions : sessions[i] \in Session /\ sessions[i].venue \in Venues
         /\ Venues \subseteq Tasks /\ Requests \subseteq Tasks
<1>1. sessions \in Seq(Session)
  BY DEF VenueInv, VenueTypeOK
<1>2. ASSUME NEW i \in DOMAIN sessions
      PROVE  sessions[i] \in Session /\ sessions[i].venue \in Venues
  <2>1. sessions[i] \in Session
    BY <1>1
  <2> QED
    BY <2>1 DEF Session
<1> QED
  BY <1>2, VenueConstantsAreTyped DEF VenueInv, VenueTypeOK, Tasks

\* A step that changes no client and no task, and neither opens the shutdown
\* nor leaves startup.
LEMMA QuietStep ==
  ASSUME VenueInv,
         UNCHANGED <<environ, clients, sessions, task, raced>>,
         VenueTypeOK',
         phase' = phase \/ phase' \in {"running", "aborted", "stopping", "closing"},
         phase \in {"closing", "exited"} => phase' = phase,
         phase' = "connecting" => phase = "connecting",
         phase' # "connecting" => \A v \in Venues : task[v].pc \notin Busy,
         to_close' # {} => phase' = "closing"
  PROVE  VenueInv'
<1>1. TableClientsAreOpen'
  BY DEF VenueInv, TableClientsAreOpen
<1>2. NoClientIsLost'
  BY DEF VenueInv, NoClientIsLost
<1>3. SerialReconnectsAreFresh'
  BY DEF VenueInv, SerialReconnectsAreFresh
<1>4. PhasesInOrder'
  BY DEF VenueInv, PhasesInOrder
<1>5. ClientsAreHeldOnce'
  BY DEF VenueInv, ClientsAreHeldOnce
<1> QED
  BY <1>1, <1>2, <1>3, <1>4, <1>5 DEF VenueInv

\* A connect hands its client over to the table.
LEMMA InstallStep ==
  ASSUME VenueInv, NEW t \in Tasks, task[t].pc \in {"loading", "capturing"},
         Install(t), UNCHANGED <<phase, environ, sessions, to_close, feedVars, raced>>
  PROVE  VenueInv'
<1> DEFINE v == task[t].venue
           s == task[t].session
<1>0. task[t].pc \in Busy
  BY DEF Busy
<1>1. v \in Venues /\ s \in DOMAIN sessions /\ s # None
  BY <1>0, VenueTypes
<1>2. /\ clients' \in [Venues -> DOMAIN sessions \cup {None}]
      /\ clients'[v] = s
      /\ \A w \in Venues \ {v} : clients'[w] = clients[w]
  BY <1>1, VenueTypes DEF Install
<1>3. /\ task' \in [Tasks -> Task]
      /\ task'[t].pc = "done"
      /\ \A u \in Tasks \ {t} : task'[u] = task[u]
  BY PcFields, VenueTypes DEF Install
<1>4. \A u \in Tasks : task'[u].pc \in Busy => u # t /\ task[u].pc \in Busy
  BY <1>3 DEF Busy
<1>5. /\ sessions[s].venue = v
      /\ phase \notin {"closing", "exited"} => sessions[s].open
      /\ v \notin raced => sessions[s].key = environ[v] /\ clients[v] = None
      /\ \A u \in Tasks \ {t} : task[u].pc \in Busy =>
           task[u].session # s /\ (task[u].venue = v => v \in raced)
  BY <1>0 DEF VenueInv, ClientsAreHeldOnce
<1> HIDE DEF v, s
<1>6. VenueTypeOK'
  BY <1>2, <1>3, <1>4 DEF VenueInv, VenueTypeOK, feedVars
<1>7. TableClientsAreOpen'
  BY <1>1, <1>2, <1>3, <1>4, <1>5 DEF VenueInv, TableClientsAreOpen
<1>8. NoClientIsLost'
  <2> SUFFICES ASSUME NEW x \in DOMAIN sessions, sessions[x].open,
                      sessions[x].venue \notin raced, clients'[sessions[x].venue] # x
               PROVE  \E u \in Tasks : /\ task'[u].pc \in Busy \cup {"cancelled"}
                                       /\ task'[u].session = x
    BY DEF NoClientIsLost
  <2>1. x # s
    BY <1>2, <1>5
  <2>2. sessions[x].venue \in Venues
    BY VenueTypes
  <2>3. clients[sessions[x].venue] # x
    BY <1>1, <1>2, <1>5, <2>2, VenueTypes
  <2>4. PICK u \in Tasks : task[u].pc \in Busy \cup {"cancelled"} /\ task[u].session = x
    BY <2>3 DEF VenueInv, NoClientIsLost
  <2> QED
    BY <1>3, <2>1, <2>4 DEF s
<1>9. SerialReconnectsAreFresh'
  BY <1>1, <1>2, <1>5 DEF VenueInv, SerialReconnectsAreFresh
<1>10. PhasesInOrder'
  <2>1. phase = "connecting" => t \in Venues /\ v = t
    BY <1>0 DEF VenueInv, PhasesInOrder, Busy, Tasks, v
  <2> QED
    BY <1>2, <1>3, <1>4, <2>1, VenueTypes DEF VenueInv, PhasesInOrder
<1>11. ClientsAreHeldOnce'
  BY <1>2, <1>3, <1>4, <1>5, VenueTypes DEF VenueInv, ClientsAreHeldOnce
<1> QED
  BY <1>6, <1>7, <1>8, <1>9, <1>10, <1>11 DEF VenueInv

\* A connect goes on to its next request, or to the close of its client.
AdvanceStep(t, p) ==
  /\ task[t].pc = "loading"
  /\ task' = [task EXCEPT ![t].pc = p]
  /\ UNCHANGED <<phase, environ, clients, sessions, to_close, feedVars, raced>>

LEMMA Advance ==
  ASSUME VenueInv, NEW t \in Tasks, NEW p \in {"capturing", "aborting"},
         AdvanceStep(t, p)
  PROVE  VenueInv'
<1>1. /\ task' \in [Tasks -> Task]
      /\ task'[t].pc = p
      /\ task'[t].venue = task[t].venue
      /\ task'[t].session = task[t].session
      /\ \A u \in Tasks \ {t} : task'[u] = task[u]
  BY PcFields, VenueTypes DEF AdvanceStep, Busy
<1>2. task[t].pc = "loading" /\ task[t].pc \in Busy /\ task'[t].pc \in Busy
  BY <1>1 DEF AdvanceStep, Busy
<1>3. \A u \in Tasks : /\ task'[u].pc \in Busy <=> task[u].pc \in Busy
                       /\ task'[u].venue = task[u].venue
                       /\ task'[u].session = task[u].session
                       /\ u # t => task'[u].pc = task[u].pc
  BY <1>1, <1>2
<1>4. VenueTypeOK'
  BY <1>1, <1>3 DEF VenueInv, VenueTypeOK, AdvanceStep, feedVars
<1>5. TableClientsAreOpen'
  BY <1>3 DEF VenueInv, TableClientsAreOpen, AdvanceStep
<1>6. NoClientIsLost'
  BY <1>1, <1>2, <1>3 DEF VenueInv, NoClientIsLost, AdvanceStep
<1>7. SerialReconnectsAreFresh'
  BY DEF VenueInv, SerialReconnectsAreFresh, AdvanceStep
<1>8. PhasesInOrder'
  BY <1>1, <1>2, <1>3, VenueTypes DEF VenueInv, PhasesInOrder, AdvanceStep, Busy
<1>9. ClientsAreHeldOnce'
  BY <1>1, <1>2, <1>3 DEF VenueInv, ClientsAreHeldOnce, AdvanceStep
<1> QED
  BY <1>4, <1>5, <1>6, <1>7, <1>8, <1>9 DEF VenueInv

\* The client of a failed load is closed.
LEMMA AbortedStep ==
  ASSUME VenueInv, NEW t \in Tasks, Aborted(t)
  PROVE  VenueInv'
<1> DEFINE s == task[t].session
<1>1. task[t].pc = "aborting" /\ task[t].pc \in Busy
  BY DEF Aborted, Busy
<1>2. s \in DOMAIN sessions
  BY <1>1, VenueTypes
<1>3. /\ task' \in [Tasks -> Task]
      /\ task'[t].pc = "failed"
      /\ \A u \in Tasks \ {t} : task'[u] = task[u]
  BY PcFields, VenueTypes DEF Aborted
<1>4. \A u \in Tasks : task'[u].pc \in Busy => u # t /\ task[u].pc \in Busy
  BY <1>3 DEF Busy
<1>5. /\ sessions' \in Seq(Session)
      /\ DOMAIN sessions' = DOMAIN sessions
      /\ \A i \in DOMAIN sessions :
           /\ sessions'[i].venue = sessions[i].venue
           /\ sessions'[i].key = sessions[i].key
           /\ i # s => sessions'[i].open = sessions[i].open
      /\ sessions'[s].open = FALSE
  BY <1>2, CloseFields, VenueTypes DEF Aborted
<1>6. \A u \in Tasks \ {t} : task[u].pc \in Busy => task[u].session # s
  BY <1>1 DEF VenueInv, ClientsAreHeldOnce
<1> HIDE DEF s
<1>7. VenueTypeOK'
  BY <1>3, <1>4, <1>5 DEF VenueInv, VenueTypeOK, Aborted, feedVars
<1>8. TableClientsAreOpen'
  BY <1>1, <1>3, <1>4, <1>5, VenueTypes DEF VenueInv, TableClientsAreOpen, Aborted, s
<1>9. NoClientIsLost'
  <2> SUFFICES ASSUME NEW x \in DOMAIN sessions, sessions'[x].open,
                      sessions[x].venue \notin raced, clients[sessions[x].venue] # x
               PROVE  \E u \in Tasks : /\ task'[u].pc \in Busy \cup {"cancelled"}
                                       /\ task'[u].session = x
    BY <1>5 DEF NoClientIsLost, Aborted
  <2>1. x # s /\ sessions[x].open
    BY <1>5
  <2>2. PICK u \in Tasks : task[u].pc \in Busy \cup {"cancelled"} /\ task[u].session = x
    BY <2>1 DEF VenueInv, NoClientIsLost
  <2> QED
    BY <1>3, <2>1, <2>2 DEF s
<1>10. SerialReconnectsAreFresh'
  BY <1>5, VenueTypes DEF VenueInv, SerialReconnectsAreFresh, Aborted
<1>11. PhasesInOrder'
  BY <1>1, <1>3, <1>4, VenueTypes DEF VenueInv, PhasesInOrder, Aborted
<1>12. ClientsAreHeldOnce'
  <2> SUFFICES ASSUME NEW u \in Tasks, task'[u].pc \in Busy
               PROVE  /\ sessions'[task'[u].session].venue = task'[u].venue
                      /\ phase \notin {"closing", "exited"} =>
                           sessions'[task'[u].session].open
                      /\ task'[u].venue \notin raced =>
                           /\ clients[task'[u].venue] = None
                           /\ task'[u].pc \in {"loading", "capturing"} =>
                                sessions'[task'[u].session].key = environ[task'[u].venue]
                      /\ \A w \in Tasks \ {u} : task'[w].pc \in Busy =>
                           /\ task'[w].session # task'[u].session
                           /\ task'[w].venue = task'[u].venue => task'[u].venue \in raced
    BY DEF ClientsAreHeldOnce, Aborted
  <2>1. u # t /\ task[u].pc \in Busy /\ task'[u] = task[u]
    BY <1>3, <1>4
  <2>2. task[u].session \in DOMAIN sessions /\ task[u].session # s
    BY <1>6, <2>1, VenueTypes
  <2>3. \A w \in Tasks \ {u} : task'[w].pc \in Busy =>
          task[w].pc \in Busy /\ task'[w] = task[w]
    BY <1>3, <1>4
  <2> QED
    BY <1>5, <2>1, <2>2, <2>3 DEF VenueInv, ClientsAreHeldOnce
<1> QED
  BY <1>7, <1>8, <1>9, <1>10, <1>11, <1>12 DEF VenueInv

\* close_all closes one more.
LEMMA CloseOneStep ==
  ASSUME VenueInv, NEW s \in to_close, CloseOne(s)
  PROVE  VenueInv'
<1>1. s \in DOMAIN sessions
  BY DEF VenueInv, VenueTypeOK
<1>2. /\ sessions' \in Seq(Session)
      /\ DOMAIN sessions' = DOMAIN sessions
      /\ \A i \in DOMAIN sessions :
           /\ sessions'[i].venue = sessions[i].venue
           /\ sessions'[i].key = sessions[i].key
           /\ sessions'[i].open => sessions[i].open
  BY <1>1, CloseFields, VenueTypes DEF CloseOne
<1>3. phase = "closing"
  BY DEF VenueInv, PhasesInOrder
<1>4. VenueTypeOK'
  BY <1>2 DEF VenueInv, VenueTypeOK, CloseOne, feedVars
<1>5. TableClientsAreOpen'
  BY <1>3 DEF TableClientsAreOpen, CloseOne
<1>6. NoClientIsLost'
  BY <1>2 DEF VenueInv, NoClientIsLost, CloseOne
<1>7. SerialReconnectsAreFresh'
  BY <1>2, VenueTypes DEF VenueInv, SerialReconnectsAreFresh, CloseOne
<1>8. PhasesInOrder'
  BY <1>3 DEF VenueInv, PhasesInOrder, CloseOne
<1>9. ClientsAreHeldOnce'
  BY <1>2, <1>3, VenueTypes DEF VenueInv, ClientsAreHeldOnce, CloseOne
<1> QED
  BY <1>4, <1>5, <1>6, <1>7, <1>8, <1>9 DEF VenueInv

\* What is cancelled keeps its client.
LEMMA CancelStep ==
  ASSUME VenueInv, Abort \/ Exit
  PROVE  VenueInv'
<1>1. PICK ts : Cancel(ts) /\ Venues \subseteq ts
  BY VenueTypes DEF Abort, Exit
<1>2. /\ task' \in [Tasks -> Task]
      /\ \A t \in Tasks :
           /\ task'[t].venue = task[t].venue
           /\ task'[t].session = task[t].session
           /\ task'[t].pc = IF t \in ts /\ task[t].pc \in Busy
                            THEN "cancelled" ELSE task[t].pc
  BY <1>1, CancelFields, VenueTypes
<1>3. /\ \A t \in Tasks : task'[t].pc \in Busy => task'[t].pc = task[t].pc
      /\ \A v \in Venues : task'[v].pc \notin Busy
  BY <1>1, <1>2, VenueTypes DEF Busy
<1>4. /\ UNCHANGED <<environ, clients, sessions, to_close, feedVars, raced>>
      /\ phase \in {"connecting", "closing"}
      /\ phase' = IF phase = "connecting" THEN "aborted" ELSE "exited"
      /\ to_close' = {}
  BY DEF Abort, Exit, VenueInv, PhasesInOrder
<1>5. VenueTypeOK'
  BY <1>2, <1>3, <1>4 DEF VenueInv, VenueTypeOK, feedVars
<1>6. TableClientsAreOpen'
  BY <1>2, <1>3, <1>4 DEF VenueInv, TableClientsAreOpen
<1>7. NoClientIsLost'
  BY <1>2, <1>4 DEF VenueInv, NoClientIsLost
<1>8. SerialReconnectsAreFresh'
  BY <1>4 DEF VenueInv, SerialReconnectsAreFresh
<1>9. PhasesInOrder'
  BY <1>3, <1>4 DEF PhasesInOrder
<1>10. ClientsAreHeldOnce'
  BY <1>2, <1>3, <1>4 DEF VenueInv, ClientsAreHeldOnce
<1> QED
  BY <1>5, <1>6, <1>7, <1>8, <1>9, <1>10 DEF VenueInv

\* A connect or a reconnect makes its client, out of nothing or in place of
\* the one it has just closed.
LEMMA MakeStep ==
  ASSUME VenueInv, NEW t \in Tasks, NEW v \in Venues, NEW made \in Seq(Session),
         Make(t, v, made, environ'),
         environ' \in [Venues -> Keys],
         \A w \in Venues : environ'[w] # environ[w] => w = v /\ clients[v] = None,
         DOMAIN made = DOMAIN sessions,
         \A i \in DOMAIN sessions :
           /\ made[i].venue = sessions[i].venue
           /\ made[i].key = sessions[i].key
           /\ IF task[t].pc = "closing" /\ i = task[t].session
              THEN ~made[i].open ELSE made[i].open = sessions[i].open,
         \/ task[t].pc = "new"
         \/ task[t].pc = "closing" /\ task[t].venue = v,
         raced \subseteq raced', raced' \subseteq raced \cup {v},
         v \notin raced' => /\ clients[v] = None
                            /\ \A u \in Tasks \ {t} :
                                 task[u].pc \in Busy => task[u].venue # v,
         phase = "connecting" => t \in Venues /\ t = v,
         phase # "connecting" => t \notin Venues,
         UNCHANGED <<phase, clients, to_close, feedVars>>
  PROVE  VenueInv'
<1> DEFINE n == Len(made) + 1
<1>0. DOMAIN made = 1..Len(made) /\ Len(made) \in Nat /\ n \in Nat
  OBVIOUS
<1>1. /\ sessions' \in Seq(Session)
      /\ DOMAIN sessions' = DOMAIN sessions \cup {n}
      /\ n \notin DOMAIN sessions
      /\ \A i \in DOMAIN sessions :
           /\ sessions'[i].venue = sessions[i].venue
           /\ sessions'[i].key = sessions[i].key
           /\ IF task[t].pc = "closing" /\ i = task[t].session
              THEN ~sessions'[i].open ELSE sessions'[i].open = sessions[i].open
      /\ sessions'[n].venue = v
      /\ sessions'[n].key = environ'[v]
      /\ sessions'[n].open
  <2>1. /\ sessions' \in Seq(Session)
        /\ DOMAIN sessions' = 1..n
        /\ \A i \in DOMAIN made : i # n /\ sessions'[i] = made[i]
        /\ sessions'[n].venue = v
        /\ sessions'[n].key = environ'[v]
        /\ sessions'[n].open
    BY MakeFields, VenueTypes
  <2>2. 1..n = DOMAIN made \cup {n} /\ n \notin DOMAIN made
    BY <1>0
  <2> HIDE DEF n
  <2> QED
    BY <2>1, <2>2
<1>2. /\ task' \in [Tasks -> Task]
      /\ task'[t].pc = "loading"
      /\ task'[t].venue = v
      /\ task'[t].session = n
      /\ \A u \in Tasks \ {t} : task'[u] = task[u]
  BY MakeFields, VenueTypes
<1>3. "loading" \in Busy /\ "closing" \in Busy /\ "new" \notin Busy
  BY DEF Busy
<1>4. \A w \in Venues : clients[w] # n
  BY <1>0, <1>1, VenueTypes
<1>5. \A u \in Tasks \ {t} : task[u].pc \in Busy =>
        /\ task[u].session # n
        /\ task[t].pc = "closing" => task[u].session # task[t].session
  BY <1>1, <1>3, VenueTypes DEF VenueInv, ClientsAreHeldOnce
<1> HIDE DEF n
<1>6. VenueTypeOK'
  <2>1. \A u \in Tasks : task'[u].pc \in Busy => /\ task'[u].venue \in Venues
                                                 /\ task'[u].session \in DOMAIN sessions'
    BY <1>1, <1>2, VenueTypes
  <2>2. clients' \in [Venues -> DOMAIN sessions' \cup {None}]
    BY <1>1, VenueTypes
  <2>3. to_close' \subseteq DOMAIN sessions' /\ raced' \subseteq Venues
    BY <1>1 DEF VenueInv, VenueTypeOK
  <2> QED
    BY <1>1, <1>2, <2>1, <2>2, <2>3 DEF VenueInv, VenueTypeOK, feedVars
<1>7. TableClientsAreOpen'
  <2> SUFFICES ASSUME phase \notin {"closing", "exited"},
                      NEW w \in Venues, clients[w] # None
               PROVE  /\ sessions'[clients[w]].open
                      /\ sessions'[clients[w]].venue = w
                      /\ \A u \in Tasks : task'[u].pc \in Busy =>
                           task'[u].session # clients[w]
    BY DEF TableClientsAreOpen
  <2>1. clients[w] \in DOMAIN sessions
    BY VenueTypes
  <2>2. /\ sessions[clients[w]].open /\ sessions[clients[w]].venue = w
        /\ \A u \in Tasks : task[u].pc \in Busy => task[u].session # clients[w]
    BY DEF VenueInv, TableClientsAreOpen
  <2>3. ~(task[t].pc = "closing" /\ clients[w] = task[t].session)
    BY <1>3, <2>2
  <2>4. sessions'[clients[w]].open /\ sessions'[clients[w]].venue = w
    <3>1. sessions'[clients[w]].open = sessions[clients[w]].open
      BY <1>1, <2>1, <2>3
    <3> QED
      BY <1>1, <2>1, <2>2, <3>1
  <2>5. ASSUME NEW u \in Tasks, task'[u].pc \in Busy
        PROVE  task'[u].session # clients[w]
    <3>1. CASE u = t
      BY <1>2, <1>4, <3>1
    <3>2. CASE u # t
      BY <1>2, <2>2, <2>5, <3>2
    <3> QED
      BY <3>1, <3>2
  <2> QED
    BY <2>4, <2>5
<1>8. NoClientIsLost'
  <2> SUFFICES ASSUME NEW x \in DOMAIN sessions', sessions'[x].open,
                      sessions'[x].venue \notin raced', clients[sessions'[x].venue] # x
               PROVE  \E u \in Tasks : /\ task'[u].pc \in Busy \cup {"cancelled"}
                                       /\ task'[u].session = x
    BY DEF NoClientIsLost
  <2>1. CASE x = n
    BY <1>2, <1>3, <2>1
  <2>2. CASE x \in DOMAIN sessions
    <3>1. sessions[x].open /\ sessions[x].venue \notin raced /\ clients[sessions[x].venue] # x
      BY <1>1, <2>2
    <3>2. PICK u \in Tasks : task[u].pc \in Busy \cup {"cancelled"} /\ task[u].session = x
      BY <2>2, <3>1 DEF VenueInv, NoClientIsLost
    <3>3. u # t
      BY <1>1, <1>3, <2>2, <3>2
    <3> QED
      BY <1>2, <3>2, <3>3
  <2> QED
    BY <1>1, <2>1, <2>2
<1>9. SerialReconnectsAreFresh'
  BY <1>1, VenueTypes DEF VenueInv, SerialReconnectsAreFresh
<1>10. PhasesInOrder'
  <2>1. CASE phase = "connecting"
    <3>1. t \in Venues /\ t = v /\ t \notin Requests
      BY <2>1, VenueConstantsAreTyped
    <3>2. \A r \in Requests : task'[r].pc = "new"
      BY <1>2, <2>1, <3>1, VenueTypes DEF VenueInv, PhasesInOrder
    <3>3. \A w \in Venues : task'[w].pc = "new" => clients[w] = None
      BY <1>2, <2>1, <3>1, VenueTypes DEF VenueInv, PhasesInOrder
    <3>4. \A w \in Venues : task'[w].pc \in Busy => task'[w].venue = w
      BY <1>2, <2>1, <3>1, VenueTypes DEF VenueInv, PhasesInOrder
    <3>5. to_close' # {} => phase' = "closing"
      BY DEF VenueInv, PhasesInOrder
    <3> QED
      BY <2>1, <3>2, <3>3, <3>4, <3>5 DEF PhasesInOrder
  <2>2. CASE phase # "connecting"
    <3>1. t \notin Venues
      BY <2>2
    <3> QED
      BY <1>2, <2>2, <3>1, VenueTypes DEF VenueInv, PhasesInOrder
  <2> QED
    BY <2>1, <2>2
<1>11. ClientsAreHeldOnce'
  <2>1. ASSUME NEW u \in Tasks \ {t}, task[u].pc \in Busy, task[u].venue \notin raced'
        PROVE  /\ clients[task[u].venue] = None
               /\ environ'[task[u].venue] = environ[task[u].venue]
    BY <2>1, VenueTypes DEF VenueInv, ClientsAreHeldOnce
  <2>2. ASSUME NEW u \in Tasks \ {t}, task[u].pc \in Busy
        PROVE  /\ sessions'[task[u].session].venue = task[u].venue
               /\ sessions'[task[u].session].key = sessions[task[u].session].key
               /\ sessions'[task[u].session].open = sessions[task[u].session].open
    BY <1>1, <1>5, <2>2, VenueTypes DEF VenueInv, ClientsAreHeldOnce
  <2>3. ASSUME NEW u \in Tasks \ {t}, task'[u].pc \in Busy
        PROVE  /\ sessions'[task'[u].session].venue = task'[u].venue
               /\ phase' \notin {"closing", "exited"} => sessions'[task'[u].session].open
               /\ task'[u].venue \notin raced' =>
                    /\ clients'[task'[u].venue] = None
                    /\ task'[u].pc \in {"loading", "capturing"} =>
                         sessions'[task'[u].session].key = environ'[task'[u].venue]
    BY <1>2, <2>1, <2>2, <2>3 DEF VenueInv, ClientsAreHeldOnce
  <2>4. /\ sessions'[task'[t].session].venue = task'[t].venue
        /\ sessions'[task'[t].session].open
        /\ task'[t].venue \notin raced' => clients'[task'[t].venue] = None
        /\ sessions'[task'[t].session].key = environ'[task'[t].venue]
    BY <1>1, <1>2
  <2>5. ASSUME NEW u \in Tasks, NEW w \in Tasks \ {u},
               task'[u].pc \in Busy, task'[w].pc \in Busy
        PROVE  /\ task'[w].session # task'[u].session
               /\ task'[w].venue = task'[u].venue => task'[u].venue \in raced'
    <3>1. CASE u = t
      BY <1>2, <1>5, <2>5, <3>1
    <3>2. CASE w = t
      BY <1>2, <1>5, <2>5, <3>2
    <3>3. CASE u # t /\ w # t
      BY <1>2, <2>5, <3>3 DEF VenueInv, ClientsAreHeldOnce
    <3> QED
      BY <3>1, <3>2, <3>3
  <2> QED
    BY <2>3, <2>4, <2>5 DEF ClientsAreHeldOnce
<1> QED
  BY <1>6, <1>7, <1>8, <1>9, <1>10, <1>11 DEF VenueInv

LEMMA ConnectStarts ==
  ASSUME VenueInv, NEW v \in Venues, Connect(v)
  PROVE  VenueInv'
<1>1. /\ v \in Tasks /\ task[v].pc = "new" /\ clients[v] = None
      /\ \A u \in Tasks \ {v} : task[u].pc \in Busy => task[u].venue # v
  BY VenueTypes DEF Connect, VenueInv, PhasesInOrder, Tasks, Busy
<1> QED
  BY <1>1, MakeStep, VenueTypes DEF Connect

\* A reconnect whose venue is in the table takes the client out of it.
LEMMA TakeOutStep ==
  ASSUME VenueInv, NEW r \in Requests, NEW v \in Venues, NEW key \in Keys,
         Reconnect(r, v, key), clients[v] # None
  PROVE  VenueInv'
<1> DEFINE s == clients[v]
           held == [pc |-> "closing", venue |-> v, session |-> s]
<1>1. /\ r \in Tasks /\ r \notin Venues /\ task[r].pc = "new" /\ task[r].pc \notin Busy
      /\ s \in DOMAIN sessions /\ s # None
      /\ phase \in {"running", "stopping"}
  BY VenueTypes, VenueConstantsAreTyped DEF Reconnect, Served, Busy
<1>2. sessions[s].open /\ sessions[s].venue = v
  BY <1>1 DEF VenueInv, TableClientsAreOpen
<1>3. \A u \in Tasks : task[u].pc \in Busy => task[u].session # s
  BY <1>1 DEF VenueInv, TableClientsAreOpen
<1>4. /\ task' \in [Tasks -> Task]
      /\ task'[r].pc = "closing" /\ task'[r].venue = v /\ task'[r].session = s
      /\ \A u \in Tasks \ {r} : task'[u] = task[u]
  <2>1. held \in Task
    BY <1>1, VenueTypes DEF Task, Busy
  <2>2. task' = [task EXCEPT ![r] = held]
    BY DEF Reconnect, SetTask
  <2>3. held.pc = "closing" /\ held.venue = v /\ held.session = s
    OBVIOUS
  <2> HIDE DEF held
  <2> QED
    BY <1>1, <2>1, <2>2, <2>3, VenueTypes
<1>5. /\ clients' \in [Venues -> DOMAIN sessions \cup {None}]
      /\ clients'[v] = None
      /\ \A w \in Venues \ {v} : clients'[w] = clients[w]
  BY VenueTypes DEF Reconnect
<1>6. /\ environ' \in [Venues -> Keys]
      /\ \A w \in Venues \ {v} : environ'[w] = environ[w]
  BY VenueTypes DEF Reconnect
<1>7. /\ raced \subseteq raced' /\ raced' \subseteq raced \cup {v}
      /\ v \notin raced' => \A u \in Tasks : task[u].pc \in Busy => task[u].venue # v
      /\ UNCHANGED <<sessions, phase, to_close, feedVars>>
  BY DEF Reconnect, BusyOn
<1>8. "closing" \in Busy /\ "closing" \notin {"loading", "capturing"}
  BY DEF Busy
<1> HIDE DEF s
<1>9. VenueTypeOK'
  BY <1>1, <1>4, <1>5, <1>6, <1>7 DEF VenueInv, VenueTypeOK, feedVars
<1>10. TableClientsAreOpen'
  BY <1>2, <1>4, <1>5, <1>7, VenueTypes DEF VenueInv, TableClientsAreOpen, s
<1>11. NoClientIsLost'
  <2> SUFFICES ASSUME NEW x \in DOMAIN sessions, sessions[x].open,
                      sessions[x].venue \notin raced', clients'[sessions[x].venue] # x
               PROVE  \E u \in Tasks : /\ task'[u].pc \in Busy \cup {"cancelled"}
                                       /\ task'[u].session = x
    BY <1>7 DEF NoClientIsLost
  <2>1. CASE x = s
    BY <1>1, <1>4, <1>8, <2>1
  <2>2. CASE x # s
    <3>1. clients[sessions[x].venue] # x /\ sessions[x].venue \notin raced
      BY <1>5, <1>7, <2>2, VenueTypes DEF s
    <3>2. PICK u \in Tasks : task[u].pc \in Busy \cup {"cancelled"} /\ task[u].session = x
      BY <3>1 DEF VenueInv, NoClientIsLost
    <3>3. u # r
      BY <1>1, <3>2
    <3> QED
      BY <1>4, <3>2, <3>3
  <2> QED
    BY <2>1, <2>2
<1>12. SerialReconnectsAreFresh'
  BY <1>5, <1>6, <1>7 DEF VenueInv, SerialReconnectsAreFresh
<1>13. PhasesInOrder'
  BY <1>1, <1>4, <1>7, VenueTypes DEF VenueInv, PhasesInOrder
<1>14. ClientsAreHeldOnce'
  <2>1. ASSUME NEW u \in Tasks \ {r}, task'[u].pc \in Busy
        PROVE  /\ sessions'[task'[u].session].venue = task'[u].venue
               /\ phase' \notin {"closing", "exited"} => sessions'[task'[u].session].open
               /\ task'[u].venue \notin raced' =>
                    /\ clients'[task'[u].venue] = None
                    /\ task'[u].pc \in {"loading", "capturing"} =>
                         sessions'[task'[u].session].key = environ'[task'[u].venue]
    BY <1>4, <1>5, <1>6, <1>7, <2>1, VenueTypes DEF VenueInv, ClientsAreHeldOnce
  <2>2. ASSUME NEW u \in Tasks, NEW w \in Tasks \ {u},
               task'[u].pc \in Busy, task'[w].pc \in Busy
        PROVE  /\ task'[w].session # task'[u].session
               /\ task'[w].venue = task'[u].venue => task'[u].venue \in raced'
    <3>1. CASE u = r \/ w = r
      BY <1>3, <1>4, <1>7, <2>2, <3>1
    <3>2. CASE u # r /\ w # r
      BY <1>4, <1>7, <2>2, <3>2 DEF VenueInv, ClientsAreHeldOnce
    <3> QED
      BY <3>1, <3>2
  <2> QED
    BY <1>2, <1>4, <1>5, <1>7, <1>8, <2>1, <2>2 DEF ClientsAreHeldOnce
<1> QED
  BY <1>9, <1>10, <1>11, <1>12, <1>13, <1>14 DEF VenueInv

\* Otherwise it makes one at once.
LEMMA ReconnectStarts ==
  ASSUME VenueInv, NEW r \in Requests, NEW v \in Venues, NEW key \in Keys,
         Reconnect(r, v, key), clients[v] = None
  PROVE  VenueInv'
<1>1. /\ r \in Tasks /\ r \notin Venues /\ task[r].pc = "new"
      /\ phase # "connecting"
  BY VenueTypes, VenueConstantsAreTyped DEF Reconnect, Served
<1>2. /\ environ' \in [Venues -> Keys]
      /\ \A w \in Venues : environ'[w] # environ[w] => w = v /\ clients[v] = None
  BY VenueTypes DEF Reconnect
<1>3. clients' = clients
  BY VenueTypes DEF Reconnect
<1>4. /\ raced \subseteq raced' /\ raced' \subseteq raced \cup {v}
      /\ v \notin raced' => \A u \in Tasks : task[u].pc \in Busy => task[u].venue # v
      /\ UNCHANGED <<phase, to_close, feedVars>>
  BY DEF Reconnect, BusyOn
<1>5. Make(r, v, sessions, environ')
  BY DEF Reconnect
<1> QED
  BY <1>1, <1>2, <1>3, <1>4, <1>5, MakeStep, VenueTypes

LEMMA ClosedStep ==
  ASSUME VenueInv, NEW t \in Tasks, Closed(t)
  PROVE  VenueInv'
<1> DEFINE v == task[t].venue
           s == task[t].session
           made == CloseSession(s)
<1>1. task[t].pc = "closing" /\ task[t].pc \in Busy
  BY DEF Closed, Busy
<1>2. v \in Venues /\ s \in DOMAIN sessions
  BY <1>1, VenueTypes
<1>3. /\ made \in Seq(Session)
      /\ DOMAIN made = DOMAIN sessions
      /\ \A i \in DOMAIN sessions :
           /\ made[i].venue = sessions[i].venue
           /\ made[i].key = sessions[i].key
           /\ IF task[t].pc = "closing" /\ i = task[t].session
              THEN ~made[i].open ELSE made[i].open = sessions[i].open
  BY <1>1, <1>2, CloseFields, VenueTypes
<1>4. Make(t, v, made, environ') /\ environ' = environ
  BY DEF Closed
<1>5. v \notin raced => /\ clients[v] = None
                       /\ \A u \in Tasks \ {t} : task[u].pc \in Busy => task[u].venue # v
  BY <1>1 DEF VenueInv, ClientsAreHeldOnce
<1>6. /\ phase = "connecting" => t \in Venues /\ t = v
      /\ phase # "connecting" => t \notin Venues
  BY <1>1, <1>2 DEF VenueInv, PhasesInOrder, Busy, Tasks
<1>7. UNCHANGED <<phase, clients, to_close, feedVars, raced>>
  BY DEF Closed
<1>8. environ \in [Venues -> Keys]
  BY VenueTypes
<1>9. task[t].pc = "closing" /\ task[t].venue = v
  BY <1>1
<1> HIDE DEF made, v
<1> QED
  BY <1>2, <1>3, <1>4, <1>5, <1>6, <1>7, <1>8, <1>9, MakeStep

LEMMA ConnectStepKeeps ==
  ASSUME VenueInv, NEW t \in Tasks, ConnectStep(t)
  PROVE  VenueInv'
<1>1. CASE Loaded(t)
  <2>1. task[t].pc = "loading" /\ UNCHANGED <<phase, environ, sessions, to_close, feedVars, raced>>
    BY <1>1 DEF Loaded
  <2>2. CASE Install(t)
    BY <2>1, <2>2, InstallStep
  <2>3. CASE task' = [task EXCEPT ![t].pc = "capturing"] /\ UNCHANGED clients
    <3>1. AdvanceStep(t, "capturing")
      BY <2>1, <2>3 DEF AdvanceStep
    <3> QED
      BY <3>1, Advance
  <2> QED
    BY <1>1, <2>2, <2>3 DEF Loaded
<1>2. CASE LoadFails(t)
  <2>1. AdvanceStep(t, "aborting")
    BY <1>2 DEF LoadFails, AdvanceStep
  <2> QED
    BY <2>1, Advance
<1>3. CASE Captured(t)
  BY <1>3, InstallStep DEF Captured
<1> QED
  BY <1>1, <1>2, <1>3, AbortedStep, ClosedStep DEF ConnectStep

\* The feed, and the steps of run() that touch no client.
LEMMA FeedKeeps ==
  ASSUME VenueInv,
         \/ \E due \in SUBSET Symbols : StartCycle(due)
         \/ \E v \in Venues, s \in Symbols : BeginPoll(v, s)
         \/ \E p \in fetching : EndPoll(p)
         \/ EndCycle
  PROVE  VenueInv'
<1>1. UNCHANGED <<phase, environ, clients, sessions, task, to_close, raced>>
  BY DEF StartCycle, BeginPoll, EndPoll, EndCycle
<1>2. /\ polling' \in {"off", "sleep", "gather"}
      /\ waiting' \subseteq Venues \X Symbols
      /\ fetching' \subseteq Poll
  <2>1. CASE \E due \in SUBSET Symbols : StartCycle(due)
    BY <2>1 DEF StartCycle, VenueInv, VenueTypeOK
  <2>2. ASSUME NEW v \in Venues, NEW s \in Symbols, BeginPoll(v, s)
        PROVE  /\ UNCHANGED polling
               /\ waiting' \subseteq waiting
               /\ fetching' \subseteq Poll
    <3>1. clients[v] # None => [venue |-> v, symbol |-> s, session |-> clients[v]] \in Poll
      BY VenueTypes DEF Poll
    <3> QED
      BY <2>2, <3>1 DEF BeginPoll, VenueInv, VenueTypeOK
  <2>3. CASE (\E p \in fetching : EndPoll(p)) \/ EndCycle
    BY <2>3 DEF EndPoll, EndCycle, VenueInv, VenueTypeOK
  <2> QED
    BY <2>1, <2>2, <2>3 DEF VenueInv, VenueTypeOK
<1>3. VenueTypeOK'
  BY <1>1, <1>2 DEF VenueInv, VenueTypeOK
<1>4. /\ phase' # "connecting" => \A v \in Venues : task[v].pc \notin Busy
      /\ to_close' # {} => phase' = "closing"
  BY <1>1 DEF VenueInv, PhasesInOrder
<1> QED
  BY <1>1, <1>3, <1>4, QuietStep

LEMMA PhaseKeeps ==
  ASSUME VenueInv, Connected \/ Stop \/ CloseAll
  PROVE  VenueInv'
<1>1. UNCHANGED <<environ, clients, sessions, task, raced>>
  BY DEF Connected, Stop, CloseAll
<1>2. /\ phase \notin {"closing", "exited"}
      /\ phase' \in {"running", "aborted", "stopping", "closing"}
      /\ to_close' # {} => phase' = "closing"
  BY DEF Connected, Stop, CloseAll, VenueInv, PhasesInOrder
<1>3. \A v \in Venues : task[v].pc \notin Busy
  BY DEF Connected, Stop, CloseAll, VenueInv, PhasesInOrder, Busy
<1>4. VenueTypeOK'
  <2>1. to_close' \subseteq DOMAIN sessions
    BY VenueTypes DEF Connected, Stop, CloseAll, VenueInv, VenueTypeOK
  <2>2. /\ polling' \in {"off", "sleep", "gather"}
        /\ waiting' \subseteq Venues \X Symbols
        /\ fetching' \subseteq Poll
    BY DEF Connected, Stop, CloseAll, VenueInv, VenueTypeOK, feedVars
  <2> QED
    BY <1>1, <1>2, <2>1, <2>2 DEF VenueInv, VenueTypeOK
<1> QED
  BY <1>1, <1>2, <1>3, <1>4, QuietStep

-----------------------------------------------------------------------------
(***************************************************************************)
(* The invariant, and the theorems.                                        *)
(***************************************************************************)

LEMMA VenueInvInit ==
  VenueInit => VenueInv
<1> SUFFICES ASSUME VenueInit
             PROVE  VenueInv
  OBVIOUS
<1>1. /\ sessions \in Seq(Session) /\ DOMAIN sessions = {}
      /\ \A t \in Tasks : task[t].pc = "new" /\ task[t].pc \notin Busy
      /\ \A v \in Venues : clients[v] = None
      /\ phase = "connecting" /\ to_close = {}
      /\ Venues \subseteq Tasks /\ Requests \subseteq Tasks
  BY DEF VenueInit, Busy, Tasks
<1>2. VenueTypeOK
  BY <1>1 DEF VenueInit, VenueTypeOK, Task
<1> QED
  BY <1>1, <1>2 DEF VenueInv, TableClientsAreOpen, NoClientIsLost,
     SerialReconnectsAreFresh, PhasesInOrder, ClientsAreHeldOnce

LEMMA VenueInvStep ==
  ASSUME VenueInv, [VenueNext]_venueVars
  PROVE  VenueInv'
<1>1. CASE \E v \in Venues : Connect(v)
  BY <1>1, ConnectStarts
<1>2. CASE \E t \in Tasks : ConnectStep(t)
  BY <1>2, ConnectStepKeeps
<1>3. CASE \E r \in Requests, v \in Venues, key \in Keys : Reconnect(r, v, key)
  BY <1>3, TakeOutStep, ReconnectStarts
<1>4. CASE \/ \E due \in SUBSET Symbols : StartCycle(due)
           \/ \E v \in Venues, s \in Symbols : BeginPoll(v, s)
           \/ \E p \in fetching : EndPoll(p)
           \/ EndCycle
  BY <1>4, FeedKeeps
<1>5. CASE Connected \/ Stop \/ CloseAll
  BY <1>5, PhaseKeeps
<1>6. CASE Abort \/ Exit
  BY <1>6, CancelStep
<1>7. CASE \E s \in to_close : CloseOne(s)
  BY <1>7, CloseOneStep
<1>8. CASE UNCHANGED venueVars
  BY <1>8 DEF venueVars, feedVars, VenueInv, VenueTypeOK, TableClientsAreOpen,
     NoClientIsLost, SerialReconnectsAreFresh, PhasesInOrder, ClientsAreHeldOnce
<1> QED
  BY <1>1, <1>2, <1>3, <1>4, <1>5, <1>6, <1>7, <1>8 DEF VenueNext

\* The invariant of the clients holds throughout: _connect_one, reconnect and
\* close_all of core/rest_manager.py keep the table, the clients and the
\* connects under way in step, across every suspension.
THEOREM VenueInvariant ==
  VenueSpec => []VenueInv
<1>1. VenueInit => VenueInv
  BY VenueInvInit
<1>2. VenueInv /\ [VenueNext]_venueVars => VenueInv'
  BY VenueInvStep
<1> QED
  BY <1>1, <1>2, PTL DEF VenueSpec

\* Until close_all runs, a client in the table is open, of its venue, and not
\* being closed: reconnect takes it out of the table before it awaits.
THEOREM NoClosedClient ==
  VenueSpec => []TableClientsAreOpen
<1>1. VenueInv => TableClientsAreOpen
  BY DEF VenueInv
<1> QED
  BY <1>1, VenueInvariant, PTL

\* A client that is open can be closed by somebody, unless two connects of
\* its venue overlapped: _connect_one closes what it does not install.
THEOREM NoLeakWithoutRace ==
  VenueSpec => []NoClientIsLost
<1>1. VenueInv => NoClientIsLost
  BY DEF VenueInv
<1> QED
  BY <1>1, VenueInvariant, PTL

\* Where no two connects overlapped, the client has the credentials written
\* last: set_venue_credentials writes them before it reconnects.
THEOREM LastKeysWin ==
  VenueSpec => []SerialReconnectsAreFresh
<1>1. VenueInv => SerialReconnectsAreFresh
  BY DEF VenueInv
<1> QED
  BY <1>1, VenueInvariant, PTL

-----------------------------------------------------------------------------
(***************************************************************************)
(* What is open at the end.                                                *)
(***************************************************************************)

\* A step of a connect while close_all runs: only requests are under way, and
\* the client of one that is neither closed nor made is held as before.
LEMMA ConnectStepAccounts ==
  ASSUME VenueInv, phase = "closing", UNCHANGED <<phase, to_close, raced>>,
         \A s \in DOMAIN sessions : sessions[s].open => Accounted(s),
         NEW t \in Tasks, ConnectStep(t)
  PROVE  \A s \in DOMAIN sessions' : sessions'[s].open => Accounted(s)'
<1>1. task[t].pc \in Busy
  BY DEF ConnectStep, Loaded, LoadFails, Aborted, Captured, Closed, Busy
<1>2. t \in Requests
  BY <1>1 DEF VenueInv, PhasesInOrder, Tasks
<1>3. task[t].session \in DOMAIN sessions /\ task[t].venue \in Venues
  BY <1>1 DEF VenueInv, VenueTypeOK
<1>4. CASE Loaded(t) \/ LoadFails(t) \/ Captured(t)
  <2>1. PICK p \in Busy \cup {"done"} : task' = [task EXCEPT ![t].pc = p]
    BY <1>4 DEF Loaded, LoadFails, Captured, Install, Busy
  <2>2. /\ task'[t].pc = p /\ task'[t].session = task[t].session
        /\ \A u \in Tasks \ {t} : task'[u] = task[u]
    BY <2>1, VenueTypes, PcFields
  <2>3. UNCHANGED sessions
    BY <1>4 DEF Loaded, LoadFails, Captured
  <2>4. \A u \in Tasks : task[u].pc = "cancelled" => u # t
    BY <1>1 DEF Busy
  <2> QED
    BY <1>2, <2>1, <2>2, <2>3, <2>4 DEF Accounted
<1>5. CASE Aborted(t)
  <2>1. /\ task' = [task EXCEPT ![t].pc = "failed"]
        /\ sessions' = CloseSession(task[t].session)
    BY <1>5 DEF Aborted
  <2>2. \A u \in Tasks \ {t} : task'[u] = task[u]
    BY <2>1, VenueTypes, PcFields
  <2>3. /\ DOMAIN sessions' = DOMAIN sessions
        /\ \A s \in DOMAIN sessions :
             /\ sessions'[s].venue = sessions[s].venue
             /\ sessions'[s].open => s # task[t].session /\ sessions[s].open
    BY <1>3, <2>1, VenueTypes, CloseFields
  <2> QED
    BY <2>2, <2>3 DEF Accounted
<1>6. CASE Closed(t)
  <2> DEFINE made == CloseSession(task[t].session)
  <2>1. Make(t, task[t].venue, made, environ)
    BY <1>6 DEF Closed
  <2>2. /\ made \in Seq(Session)
        /\ DOMAIN made = DOMAIN sessions /\ Len(made) = Len(sessions)
        /\ \A s \in DOMAIN sessions :
             /\ made[s].venue = sessions[s].venue
             /\ made[s].open => s # task[t].session /\ sessions[s].open
    BY <1>3, VenueTypes, CloseFields
  <2> HIDE DEF made
  <2> PICK last : last = Len(made) + 1
    OBVIOUS
  <2>3. /\ DOMAIN sessions' = 1..last
        /\ \A i \in DOMAIN made : i # last /\ sessions'[i] = made[i]
        /\ task'[t].pc = "loading"
        /\ task'[t].session = last
        /\ \A u \in Tasks \ {t} : task'[u] = task[u]
    BY <1>3, <2>1, <2>2, VenueTypes, MakeFields
  <2>4. DOMAIN sessions' = DOMAIN sessions \cup {last}
    BY <2>2, <2>3, VenueTypes
  <2>5. Accounted(last)'
    BY <1>2, <2>3 DEF Accounted, Busy
  <2>6. ASSUME NEW s \in DOMAIN sessions, sessions'[s].open
        PROVE  Accounted(s)'
    <3>1. Accounted(s) /\ s # task[t].session /\ sessions'[s].venue = sessions[s].venue
      BY <2>2, <2>3, <2>6
    <3> QED
      BY <2>3, <3>1 DEF Accounted
  <2> QED
    BY <2>4, <2>5, <2>6
<1> QED
  BY <1>4, <1>5, <1>6 DEF ConnectStep

\* A step keeps what is said of the clients while close_all runs and after.
LEMMA ClosingStep ==
  ASSUME VenueInv, VenueInv', ClosingLeavesFew, [VenueNext]_venueVars
  PROVE  ClosingLeavesFew'
<1>1. CASE CloseAll
  <2>1. /\ phase' = "closing" /\ phase \in {"aborted", "stopping"}
        /\ to_close' = {clients[v] : v \in Venues} \ {None}
        /\ UNCHANGED <<clients, sessions, task, raced>>
    BY <1>1 DEF CloseAll
  <2>2. ASSUME NEW s \in DOMAIN sessions, sessions[s].open
        PROVE  Accounted(s)'
    <3>1. /\ sessions[s].venue \in Venues
          /\ s # None
      BY VenueTypes, VenueConstantsAreTyped DEF Session
    <3>2. \/ sessions[s].venue \in raced
          \/ clients[sessions[s].venue] = s
          \/ \E t \in Tasks : task[t].pc \in Busy \cup {"cancelled"} /\ task[t].session = s
      BY <2>2 DEF VenueInv, NoClientIsLost
    <3>3. \A t \in Tasks : task[t].pc \in Busy => t \in Requests
      BY <2>1 DEF VenueInv, PhasesInOrder, Tasks
    <3> QED
      BY <2>1, <3>1, <3>2, <3>3 DEF Accounted
  <2> QED
    BY <2>1, <2>2 DEF ClosingLeavesFew, ClosedAtExit
<1>2. CASE Exit
  <2>1. /\ phase = "closing" /\ phase' = "exited" /\ to_close = {}
        /\ UNCHANGED <<sessions, raced>>
        /\ Cancel(Tasks)
    BY <1>2 DEF Exit
  <2>2. \A t \in Tasks :
          /\ task'[t].session = task[t].session
          /\ task'[t].pc = IF task[t].pc \in Busy THEN "cancelled" ELSE task[t].pc
    BY <2>1, VenueTypes, CancelFields
  <2>3. "cancelled" \notin Busy
    BY DEF Busy
  <2> QED
    BY <2>1, <2>2, <2>3 DEF ClosingLeavesFew, ClosedAtExit, Accounted
<1>3. CASE phase = "closing" /\ \E s \in to_close : CloseOne(s)
  <2>1. PICK c \in to_close : CloseOne(c)
    BY <1>3
  <2>2. /\ c \in DOMAIN sessions
        /\ sessions' = CloseSession(c) /\ to_close' = to_close \ {c}
        /\ UNCHANGED <<phase, task, raced>>
    BY <2>1 DEF CloseOne, VenueInv, VenueTypeOK
  <2>3. /\ DOMAIN sessions' = DOMAIN sessions
        /\ \A s \in DOMAIN sessions :
             /\ sessions'[s].venue = sessions[s].venue
             /\ sessions'[s].open => s # c /\ sessions[s].open
    BY <2>2, VenueTypes, CloseFields
  <2> QED
    BY <1>3, <2>2, <2>3 DEF ClosingLeavesFew, ClosedAtExit, Accounted
<1>4. CASE phase = "closing" /\ \E t \in Tasks : ConnectStep(t)
  <2>1. UNCHANGED <<phase, to_close, raced>>
    BY <1>4 DEF ConnectStep, Loaded, LoadFails, Aborted, Captured, Closed
  <2> QED
    BY <1>4, <2>1, ConnectStepAccounts DEF ClosingLeavesFew, ClosedAtExit
<1>5. CASE UNCHANGED <<phase, sessions, task, to_close, raced>>
  BY <1>5 DEF ClosingLeavesFew, ClosedAtExit, Accounted
<1>6. CASE phase' \notin {"closing", "exited"}
  BY <1>6 DEF ClosingLeavesFew, ClosedAtExit
<1>7. CASE \/ \E due \in SUBSET Symbols : StartCycle(due)
           \/ \E v \in Venues, s \in Symbols : BeginPoll(v, s)
           \/ \E p \in fetching : EndPoll(p)
           \/ EndCycle
           \/ UNCHANGED venueVars
  BY <1>5, <1>7 DEF StartCycle, BeginPoll, EndPoll, EndCycle, venueVars
<1>8. CASE \/ \E v \in Venues : Connect(v)
           \/ Connected
           \/ \E r \in Requests, v \in Venues, key \in Keys : Reconnect(r, v, key)
           \/ Abort
           \/ Stop
  BY <1>6, <1>8 DEF Connect, Connected, Reconnect, Served, Abort, Stop
<1>9. CASE phase = "exited" /\ \E t \in Tasks : ConnectStep(t)
  BY <1>9 DEF ClosingLeavesFew, ConnectStep, Loaded, LoadFails, Aborted, Captured,
     Closed, Busy
<1>10. CASE phase # "closing" /\ \E s \in to_close : CloseOne(s)
  BY <1>10 DEF VenueInv, PhasesInOrder
<1>11. CASE phase \notin {"closing", "exited"} /\ \E t \in Tasks : ConnectStep(t)
  BY <1>6, <1>11 DEF ConnectStep, Loaded, LoadFails, Aborted, Captured, Closed
<1> QED
  BY <1>1, <1>2, <1>3, <1>4, <1>7, <1>8, <1>9, <1>10, <1>11 DEF VenueNext

\* However run() ends, at startup, in connect_all or under way, close_all leaves
\* no client of startup open that a cancelled connect did not have in hand.
THEOREM StartupLeavesNothingOpen ==
  VenueSpec => []ClosedAtExit
<1>1. VenueInit => ClosingLeavesFew
  BY DEF VenueInit, ClosingLeavesFew, ClosedAtExit
<1>2. VenueInv /\ VenueInv' /\ ClosingLeavesFew /\ [VenueNext]_venueVars
        => ClosingLeavesFew'
  BY ClosingStep
<1>3. ClosingLeavesFew => ClosedAtExit
  BY DEF ClosingLeavesFew
<1> QED
  BY <1>1, <1>2, <1>3, VenueInvariant, PTL DEF VenueSpec
==============================================================================

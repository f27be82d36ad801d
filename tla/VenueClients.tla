---------------------------- MODULE VenueClients -----------------------------
(***************************************************************************)
(* core/rest_manager.py with the poll feed of core/feed_manager.py: the    *)
(* exchange clients, from the connects at startup over the reconnects of   *)
(* the dashboard and the polls that use them to the end of the process.    *)
(*                                                                         *)
(* A connect, a reconnect and a poll suspend at each request and at each   *)
(* close; between two suspensions nothing else runs.  ccxt is taken to     *)
(* know every venue, and closing a client not to raise.                    *)
(***************************************************************************)
EXTENDS Integers, Sequences, FiniteSets

CONSTANTS
  Venues,       \* rest_manager.venue_ids
  Symbols,      \* the symbols the feed polls
  Keys,         \* credentials of a venue
  Requests,     \* bound: the credential requests in a behaviour
  MaxConnects,  \* MAX_CONCURRENT_CONNECTS
  MaxPolls,     \* MAX_CONCURRENT_POLLS
  MinConnected, \* MIN_CONNECTED_VENUES
  None          \* Python's None

ASSUME VenueConstantsAreTyped ==
  /\ MaxConnects \in Nat \ {0}
  /\ MaxPolls \in Nat \ {0}
  /\ MinConnected \in Nat
  /\ Venues \cap Requests = {}
  /\ None \notin Nat \cup Venues

VARIABLES
  phase,     \* how far run() is
  environ,   \* os.environ: the credentials of each venue
  clients,   \* rest_manager.clients: an index into sessions, or None
  sessions,  \* every client ever made, with the credentials it was given
  task,      \* connects and reconnects
  to_close,  \* the clients close_all still waits for
  polling,   \* where poll_loop is
  waiting,   \* polls at the semaphore
  fetching,  \* polls at their request, with the client they use
  raced      \* history: venues of which two connects were under way at once

feedVars == <<polling, waiting, fetching>>
venueVars == <<phase, environ, clients, sessions, task, to_close, feedVars, raced>>

Tasks == Venues \cup Requests

Session == [venue : Venues, key : Keys, open : BOOLEAN]

\* A task holds the client it is closing, loading or capturing from.
Busy == {"closing", "loading", "aborting", "capturing"}

Task ==
  [pc : Busy \cup {"new", "done", "failed", "cancelled"},
   venue : Venues \cup {None}, session : Nat \cup {None}]

Poll == [venue : Venues, symbol : Symbols, session : Nat]

VenueInit ==
  /\ phase = "connecting"
  /\ environ \in [Venues -> Keys]
  /\ clients = [v \in Venues |-> None]
  /\ sessions = <<>>
  /\ task = [t \in Tasks |-> [pc |-> "new", venue |-> None, session |-> None]]
  /\ to_close = {}
  /\ polling = "off"
  /\ waiting = {}
  /\ fetching = {}
  /\ raced = {}

BusyOn(v) == {t \in Tasks : task[t].pc \in Busy /\ task[t].venue = v}

-----------------------------------------------------------------------------
\* _connect_one.

SetTask(t, pc, v, s) ==
  task' = [task EXCEPT ![t] = [pc |-> pc, venue |-> v, session |-> s]]

\* The credentials are read when the client is made.  made are the clients so
\* far, keys the environment now.
Make(t, v, made, keys) ==
  /\ sessions' = Append(made, [venue |-> v, key |-> keys[v], open |-> TRUE])
  /\ SetTask(t, "loading", v, Len(made) + 1)

CloseSession(s) == [sessions EXCEPT ![s].open = FALSE]

Install(t) ==
  /\ clients' = [clients EXCEPT ![task[t].venue] = task[t].session]
  /\ task' = [task EXCEPT ![t].pc = "done"]

\* load_markets answers; the markets are pruned and the fees captured at once.
\* Only some exchanges are then asked for their currencies.
Loaded(t) ==
  /\ task[t].pc = "loading"
  /\ \/ Install(t)
     \/ task' = [task EXCEPT ![t].pc = "capturing"] /\ UNCHANGED clients
  /\ UNCHANGED <<phase, environ, sessions, to_close, feedVars, raced>>

\* Mutant: the client of a failed load is not closed.
LoadFailsUnclosed(t) ==
  /\ task[t].pc = "loading"
  /\ task' = [task EXCEPT ![t].pc = "failed"]
  /\ UNCHANGED <<phase, environ, clients, sessions, to_close, feedVars, raced>>

\* It raises, or does not answer in time.
LoadFails(t) ==
  /\ task[t].pc = "loading"
  /\ task' = [task EXCEPT ![t].pc = "aborting"]
  /\ UNCHANGED <<phase, environ, clients, sessions, to_close, feedVars, raced>>

Aborted(t) ==
  /\ task[t].pc = "aborting"
  /\ sessions' = CloseSession(task[t].session)
  /\ task' = [task EXCEPT ![t].pc = "failed"]
  /\ UNCHANGED <<phase, environ, clients, to_close, feedVars, raced>>

\* fetch_currencies answers or fails; neither fails the connect.
Captured(t) ==
  /\ task[t].pc = "capturing"
  /\ Install(t)
  /\ UNCHANGED <<phase, environ, sessions, to_close, feedVars, raced>>

-----------------------------------------------------------------------------
\* connect_all, and what run() does with its answer.

\* Mutant: a failed connect keeps its place in the semaphore.
SlotsNeverFreed == {v \in Venues : task[v].pc \in Busy \cup {"failed"}}

Connecting == {v \in Venues : task[v].pc \in Busy}

Connect(v) ==
  /\ phase = "connecting"
  /\ task[v].pc = "new"
  /\ Cardinality(Connecting) < MaxConnects
  /\ Make(v, v, sessions, environ)
  /\ UNCHANGED <<phase, environ, clients, to_close, feedVars, raced>>

\* Too few venues, or no symbol listed on enough of them, and run() returns;
\* else the feed starts, and the dashboard is served.
Connected ==
  /\ phase = "connecting"
  /\ \A v \in Venues : task[v].pc \in {"done", "failed"}
  /\ \/ /\ phase' = "aborted"
        /\ UNCHANGED polling
     \/ /\ Cardinality({v \in Venues : task[v].pc = "done"}) >= MinConnected
        /\ phase' = "running"
        /\ polling' = "sleep"
  /\ UNCHANGED <<environ, clients, sessions, task, to_close, waiting, fetching, raced>>

-----------------------------------------------------------------------------
\* set_venue_credentials: write_credentials, then reconnect.

\* The dashboard answers until run() has cancelled it, on its way to close_all.
Served == phase \in {"running", "stopping"}

\* Mutant: the old client stays in the table until it is closed.
ReconnectInPlace(r, v, key) ==
  /\ Served
  /\ task[r].pc = "new"
  /\ environ' = [environ EXCEPT ![v] = key]
  /\ raced' = IF BusyOn(v) = {} THEN raced ELSE raced \cup {v}
  /\ IF clients[v] # None
     THEN SetTask(r, "closing", v, clients[v]) /\ UNCHANGED sessions
     ELSE Make(r, v, sessions, environ')
  /\ UNCHANGED <<phase, clients, to_close, feedVars>>

\* Mutant: the credentials are written after the client is made.
ReconnectThenWrite(r, v, key) ==
  /\ Served
  /\ task[r].pc = "new"
  /\ environ' = [environ EXCEPT ![v] = key]
  /\ raced' = IF BusyOn(v) = {} THEN raced ELSE raced \cup {v}
  /\ clients' = [clients EXCEPT ![v] = None]
  /\ IF clients[v] # None
     THEN SetTask(r, "closing", v, clients[v]) /\ UNCHANGED sessions
     ELSE Make(r, v, sessions, environ)
  /\ UNCHANGED <<phase, to_close, feedVars>>

Reconnect(r, v, key) ==
  /\ Served
  /\ task[r].pc = "new"
  /\ environ' = [environ EXCEPT ![v] = key]
  /\ raced' = IF BusyOn(v) = {} THEN raced ELSE raced \cup {v}
  /\ clients' = [clients EXCEPT ![v] = None]
  /\ IF clients[v] # None
     THEN SetTask(r, "closing", v, clients[v]) /\ UNCHANGED sessions
     ELSE Make(r, v, sessions, environ')
  /\ UNCHANGED <<phase, to_close, feedVars>>

\* The old client is closed, and the new one made in the same breath.
Closed(t) ==
  /\ task[t].pc = "closing"
  /\ Make(t, task[t].venue, CloseSession(task[t].session), environ)
  /\ UNCHANGED <<phase, environ, clients, to_close, feedVars, raced>>

-----------------------------------------------------------------------------
\* poll_loop.

\* Some symbols are due; each is polled on every venue in the table.
StartCycle(due) ==
  /\ polling = "sleep"
  /\ due # {}
  /\ waiting' = {v \in Venues : clients[v] # None} \X due
  /\ polling' = "gather"
  /\ UNCHANGED <<phase, environ, clients, sessions, task, to_close, fetching, raced>>

\* Mutant: the client is not checked to be there.
BeginPollUnchecked(v, s) ==
  /\ <<v, s>> \in waiting
  /\ Cardinality(fetching) < MaxPolls
  /\ waiting' = waiting \ {<<v, s>>}
  /\ fetching' = fetching \cup {[venue |-> v, symbol |-> s, session |-> clients[v]]}
  /\ UNCHANGED <<phase, environ, clients, sessions, task, to_close, polling, raced>>

\* Past the semaphore, the client is looked up again: a reconnect may have
\* taken it since, or its venue may not list the symbol.
BeginPoll(v, s) ==
  /\ <<v, s>> \in waiting
  /\ Cardinality(fetching) < MaxPolls
  /\ waiting' = waiting \ {<<v, s>>}
  /\ \/ UNCHANGED fetching
     \/ /\ clients[v] # None
        /\ fetching' = fetching \cup {[venue |-> v, symbol |-> s, session |-> clients[v]]}
  /\ UNCHANGED <<phase, environ, clients, sessions, task, to_close, polling, raced>>

\* Mutant: gather without return_exceptions; a poll on a closed client raises.
EndPollRaising(p) ==
  /\ p \in fetching
  /\ fetching' = fetching \ {p}
  /\ polling' = IF sessions[p.session].open THEN polling ELSE "off"
  /\ UNCHANGED <<phase, environ, clients, sessions, task, to_close, waiting, raced>>

\* The book is replaced, or the request raised, on a client that a reconnect
\* has closed for one; gather keeps the exception to itself.
EndPoll(p) ==
  /\ p \in fetching
  /\ fetching' = fetching \ {p}
  /\ UNCHANGED <<phase, environ, clients, sessions, task, to_close, polling,
                 waiting, raced>>

EndCycle ==
  /\ polling = "gather"
  /\ waiting = {} /\ fetching = {}
  /\ polling' = "sleep"
  /\ UNCHANGED <<phase, environ, clients, sessions, task, to_close, waiting,
                 fetching, raced>>

-----------------------------------------------------------------------------
\* The finally clause of run().

\* What a cancelled task held, it no longer closes: CancelledError is not an
\* Exception.
Cancel(ts) ==
  task' = [t \in Tasks |-> IF t \in ts /\ task[t].pc \in Busy
                           THEN [task[t] EXCEPT !.pc = "cancelled"] ELSE task[t]]

\* run() is cancelled in connect_all, and the gather cancels the connects.
Abort ==
  /\ phase = "connecting"
  /\ phase' = "aborted"
  /\ Cancel(Venues)
  /\ UNCHANGED <<environ, clients, sessions, to_close, feedVars, raced>>

\* run() is cancelled later, and stops the feed.  Requests go on.
Stop ==
  /\ phase = "running"
  /\ phase' = "stopping"
  /\ polling' = "off"
  /\ waiting' = {}
  /\ fetching' = {}
  /\ UNCHANGED <<environ, clients, sessions, task, to_close, raced>>

\* Mutant: a run() that gives up at startup closes nothing.
CloseAllIfStarted ==
  /\ phase \in {"aborted", "stopping"}
  /\ phase' = "closing"
  /\ to_close' = IF phase = "stopping" THEN {clients[v] : v \in Venues} \ {None} ELSE {}
  /\ UNCHANGED <<environ, clients, sessions, task, feedVars, raced>>

CloseAll ==
  /\ phase \in {"aborted", "stopping"}
  /\ phase' = "closing"
  /\ to_close' = {clients[v] : v \in Venues} \ {None}
  /\ UNCHANGED <<environ, clients, sessions, task, feedVars, raced>>

CloseOne(s) ==
  /\ s \in to_close
  /\ sessions' = CloseSession(s)
  /\ to_close' = to_close \ {s}
  /\ UNCHANGED <<phase, environ, clients, task, feedVars, raced>>

\* run() has returned, and asyncio.run cancels the requests still under way.
Exit ==
  /\ phase = "closing"
  /\ to_close = {}
  /\ phase' = "exited"
  /\ Cancel(Tasks)
  /\ UNCHANGED <<environ, clients, sessions, to_close, feedVars, raced>>

-----------------------------------------------------------------------------
ConnectStep(t) ==
  Loaded(t) \/ LoadFails(t) \/ Aborted(t) \/ Captured(t) \/ Closed(t)

VenueNext ==
  \/ \E v \in Venues : Connect(v)
  \/ \E t \in Tasks : ConnectStep(t)
  \/ Connected
  \/ \E r \in Requests, v \in Venues, key \in Keys : Reconnect(r, v, key)
  \/ \E due \in SUBSET Symbols : StartCycle(due)
  \/ \E v \in Venues, s \in Symbols : BeginPoll(v, s)
  \/ \E p \in fetching : EndPoll(p)
  \/ EndCycle
  \/ Abort
  \/ Stop
  \/ CloseAll
  \/ \E s \in to_close : CloseOne(s)
  \/ Exit

VenueSpec == VenueInit /\ [][VenueNext]_venueVars

\* The event loop runs what is ready.  load_markets and fetch_currencies are
\* under asyncio.timeout, a poll under the timeout of its client.
VenueFairSpec ==
  /\ VenueSpec
  /\ WF_venueVars(\E v \in Venues : Connect(v))
  /\ \A t \in Tasks : WF_venueVars(ConnectStep(t))
  /\ WF_venueVars(Connected)
  /\ WF_venueVars(\E v \in Venues, s \in Symbols : BeginPoll(v, s))
  /\ WF_venueVars(\E p \in fetching : EndPoll(p))
  /\ WF_venueVars(EndCycle)

VenueTypeOK ==
  /\ phase \in {"connecting", "aborted", "running", "stopping", "closing", "exited"}
  /\ environ \in [Venues -> Keys]
  /\ sessions \in Seq(Session)
  /\ clients \in [Venues -> DOMAIN sessions \cup {None}]
  /\ task \in [Tasks -> Task]
  /\ \A t \in Tasks : task[t].pc \in Busy => /\ task[t].venue \in Venues
                                             /\ task[t].session \in DOMAIN sessions
  /\ to_close \subseteq DOMAIN sessions
  /\ polling \in {"off", "sleep", "gather"}
  /\ waiting \subseteq Venues \X Symbols
  /\ fetching \subseteq Poll
  /\ raced \subseteq Venues

-----------------------------------------------------------------------------
\* Properties.

\* Whoever looks a venue up in the table, the executor with an order in hand
\* included, gets an open client of that venue, which no reconnect is closing.
TableClientsAreOpen ==
  phase \notin {"closing", "exited"} =>
    \A v \in Venues : clients[v] # None =>
      /\ sessions[clients[v]].open
      /\ sessions[clients[v]].venue = v
      /\ \A t \in Tasks : task[t].pc \in Busy => task[t].session # clients[v]

\* An open client is in the table, or some task has it, to install or close
\* it, or was cancelled with it.  Only reconnects of one venue that overlap,
\* of which the last to install drops what the first has installed, lose one.
NoClientIsLost ==
  \A s \in DOMAIN sessions : sessions[s].open =>
    \/ sessions[s].venue \in raced
    \/ clients[sessions[s].venue] = s
    \/ \E t \in Tasks : task[t].pc \in Busy \cup {"cancelled"} /\ task[t].session = s

\* Reconnects of a venue that follow each other leave it with the credentials
\* written last.
SerialReconnectsAreFresh ==
  \A v \in Venues \ raced :
    clients[v] # None => sessions[clients[v]].key = environ[v]

\* However run() ends, the connects of startup leave no client open, but the
\* one they were cancelled with; only a request can, cancelled, overlapped or
\* done too late for close_all.
ClosedAtExit ==
  phase = "exited" =>
    \A s \in DOMAIN sessions : sessions[s].open =>
      \/ sessions[s].venue \in raced
      \/ \E t \in Tasks : /\ task[t].session = s
                         /\ \/ task[t].pc = "cancelled"
                            \/ t \in Requests /\ task[t].pc = "done"

\* What the invariants above rest on.  Connects belong to startup, requests to
\* what follows it, and close_all to the end.
PhasesInOrder ==
  /\ phase = "connecting" =>
       /\ \A r \in Requests : task[r].pc = "new"
       /\ \A v \in Venues : task[v].pc = "new" => clients[v] = None
  /\ phase # "connecting" => \A v \in Venues : task[v].pc \notin Busy
  /\ \A v \in Venues : task[v].pc \in Busy => task[v].venue = v
  /\ to_close # {} => phase = "closing"

\* A task's client is of its venue, open as long as it matters and no other
\* task's; unless the venue was raced for, no other task is under way there,
\* the table has no client of it, and the task's has the credentials of now.
ClientsAreHeldOnce ==
  \A t \in Tasks : task[t].pc \in Busy =>
    /\ sessions[task[t].session].venue = task[t].venue
    /\ phase \notin {"closing", "exited"} => sessions[task[t].session].open
    /\ task[t].venue \notin raced =>
         /\ clients[task[t].venue] = None
         /\ task[t].pc \in {"loading", "capturing"} =>
              sessions[task[t].session].key = environ[task[t].venue]
    /\ \A u \in Tasks \ {t} : task[u].pc \in Busy =>
         /\ task[u].session # task[t].session
         /\ task[u].venue = task[t].venue => task[t].venue \in raced

VenueInv ==
  /\ VenueTypeOK
  /\ TableClientsAreOpen
  /\ NoClientIsLost
  /\ SerialReconnectsAreFresh
  /\ PhasesInOrder
  /\ ClientsAreHeldOnce

\* What ClosedAtExit rests on: while close_all runs, an open client is one it
\* waits for, or one that only a request, or a cancelled task, has had; and
\* nothing is under way once run() has returned.
Accounted(s) ==
  \/ sessions[s].venue \in raced
  \/ s \in to_close
  \/ \E t \in Tasks : /\ task[t].session = s
                      /\ \/ task[t].pc = "cancelled"
                         \/ t \in Requests /\ task[t].pc \in Busy \cup {"done"}

ClosingLeavesFew ==
  /\ phase = "closing" =>
       \A s \in DOMAIN sessions : sessions[s].open => Accounted(s)
  /\ phase = "exited" => \A t \in Tasks : task[t].pc \notin Busy
  /\ ClosedAtExit

\* Startup and every reconnect come to an end, whatever the exchanges do.
ConnectsEnd ==
  /\ phase = "connecting" ~> phase # "connecting"
  /\ \A r \in Requests : task[r].pc \in Busy ~> task[r].pc \notin Busy

\* No exchange, and no reconnect under a poll, ends the polling of the others.
PollingGoesOn ==
  phase = "running" /\ polling # "sleep" ~> phase # "running" \/ polling = "sleep"
==============================================================================

------------------------------ MODULE Dashboard ------------------------------
(***************************************************************************)
(* The dashboard's websockets: WsTicketStore and BasicAuthMiddleware       *)
(* (dashboard/auth.py), Broadcaster (dashboard/state.py), the routes of    *)
(* dashboard/server.py that use them, and the page that reconnects         *)
(* (dashboard/static/index.html).                                          *)
(*                                                                         *)
(* GET /api/ws_ticket is a plain def, so FastAPI runs issue in a worker    *)
(* thread while the event loop runs consume: the two interleave at every   *)
(* access to the dictionary.  All the rest runs on the event loop, which   *)
(* does nothing else while it is inside consume, and switches between      *)
(* tasks only where one awaits a send.                                     *)
(***************************************************************************)
EXTENDS Integers, FiniteSets, SequencesExt

CONSTANTS
  Pages,       \* open browser pages
  Bare,        \* those whose browser sends no credentials with a handshake
  Requests,    \* POST requests that change the engine's state, one each
  None,
  TTL,         \* _TICKET_TTL_SEC
  MaxNow,      \* bound: the clock
  MaxFaults,   \* bound: connections lost, and handshakes that arrive twice
  MaxRaces     \* bound: once this many walks have failed, walks overlap no more

ASSUME DashboardConstantsAreTyped ==
  /\ IsFiniteSet(Pages)
  /\ Bare \subseteq Pages
  /\ {TTL, MaxNow, MaxFaults, MaxRaces} \subseteq Nat
  /\ None \notin Pages \cup Nat

VARIABLES
  now,        \* time.time()
  tickets,    \* ticket_store._tickets: from a ticket to its expiry
  walks,      \* who is inside issue or consume, and how far it is
  page,       \* what each page is doing
  presented,  \* the ticket a page connects with, 0 for none
  connection, \* a page's current socket, 0 for none
  shown,      \* the version of the state that a page shows
  sockets,    \* every websocket the server has admitted
  clients,    \* broadcaster._clients
  version,    \* the engine's state: how many requests have changed it
  publishing, \* the publish calls under way
  served,     \* requests that have changed the state
  faults, races  \* counters of what the bounds limit

ticketVars == <<now, tickets, walks, races>>
pageVars == <<page, presented, connection, faults>>
pushVars == <<sockets, clients, shown, version, publishing, served>>
dashVars == <<ticketVars, pageVars, pushVars>>

\* The threads that use the ticket store, and the tasks that publish.
Loop == "event loop"
Threads == Pages \cup {Loop}
Tick == "tick"
Tasks == Requests \cup {Tick}

Walk == [at : {"scan", "delete"}, page : Pages, ticket : Nat, again : BOOLEAN,
         clock : Nat, size : Nat, expired : SUBSET Nat]
Socket == [ticket : Nat, late : BOOLEAN,
           endpoint : {"accepting", "serving", "done"}, up : BOOLEAN]
\* ticket, of one still accepting or serving, and late are history.
Down == {s \in DOMAIN sockets : ~sockets[s].up}
Publish == [event : Nat, at : DOMAIN sockets, rest : Seq(DOMAIN sockets), dead : Seq(Down)]

DashInit ==
  /\ now = 0
  /\ tickets = <<>>
  /\ walks = [w \in Threads |-> None]
  /\ page = [p \in Pages |-> "waiting"]
  /\ presented = [p \in Pages |-> 0]
  /\ connection = [p \in Pages |-> 0]
  /\ shown = [p \in Pages |-> 0]
  /\ sockets = <<>>
  /\ clients = <<>>
  /\ version = 0
  /\ publishing = [k \in Tasks |-> None]
  /\ served = {}
  /\ faults = 0 /\ races = 0

LoopIsFree == walks[Loop] = None

-----------------------------------------------------------------------------
\* _expire: a walk over the dictionary, then one del per expired ticket.

\* On behalf of page p; again marks a handshake that is presented twice.
BeginWalk(w, p, again) ==
  /\ walks[w] = None
  /\ races < MaxRaces \/ \A other \in Threads : walks[other] = None
  /\ walks' = [walks EXCEPT ![w] =
       [at |-> "scan", page |-> p, ticket |-> presented[p], again |-> again,
        clock |-> now, size |-> Cardinality(DOMAIN tickets), expired |-> {}]]

Expired(clock) == {t \in DOMAIN tickets : tickets[t] < clock}

\* A dictionary that has grown or shrunk in the meantime ends the walk with a
\* RuntimeError.
EndScan(w) ==
  /\ walks[w] # None /\ walks[w].at = "scan"
  /\ walks[w].size = Cardinality(DOMAIN tickets)
  /\ walks' = [walks EXCEPT ![w].at = "delete", ![w].expired = Expired(walks[w].clock)]
  /\ UNCHANGED <<now, tickets, races, pageVars, pushVars>>

DeleteExpired(w) ==
  /\ walks[w] # None /\ walks[w].at = "delete"
  /\ walks[w].expired # {}
  /\ LET t == Min(walks[w].expired)
     IN /\ t \in DOMAIN tickets
        /\ tickets' = Restrict(tickets, DOMAIN tickets \ {t})
        /\ walks' = [walks EXCEPT ![w].expired = @ \ {t}]
  /\ UNCHANGED <<now, races, pageVars, pushVars>>

\* RuntimeError, or the KeyError of a del another thread was faster with.
Breaks(w) ==
  /\ walks[w] # None
  /\ \/ walks[w].at = "scan" /\ walks[w].size # Cardinality(DOMAIN tickets)
     \/ /\ walks[w].at = "delete" /\ walks[w].expired # {}
        /\ Min(walks[w].expired) \notin DOMAIN tickets
  /\ walks' = [walks EXCEPT ![w] = None]
  /\ races' = races + 1

Walked(w) ==
  /\ walks[w] # None /\ walks[w].at = "delete" /\ walks[w].expired = {}
  /\ walks' = [walks EXCEPT ![w] = None]

-----------------------------------------------------------------------------
\* A page: it fetches a ticket, opens a socket, and after a close waits and
\* starts again.

FetchTicket(p) ==
  /\ page[p] = "waiting"
  /\ BeginWalk(p, p, FALSE)
  /\ page' = [page EXCEPT ![p] = "fetching"]
  /\ UNCHANGED <<now, tickets, races, presented, connection, faults, pushVars>>

\* token_urlsafe never repeats itself: a number in nobody's hands.
InHands ==
  DOMAIN tickets \cup Range(presented)
    \cup (UNION {walks[w].expired \cup {walks[w].ticket} : w \in {v \in Threads : walks[v] # None}})
    \cup {sockets[s].ticket : s \in DOMAIN sockets}

Fresh == CHOOSE t \in 1..(Cardinality(InHands) + 1) : t \notin InHands

Issue(p) ==
  /\ Walked(p)
  /\ tickets' = [t \in DOMAIN tickets \cup {Fresh} |->
                   IF t = Fresh THEN now + TTL ELSE tickets[t]]
  /\ page' = [page EXCEPT ![p] = "opening"]
  /\ presented' = [presented EXCEPT ![p] = Fresh]
  /\ UNCHANGED <<now, races, connection, faults, pushVars>>

\* Mutant: the page has no catch for a request that fails.
IssueFailsUncaught(p) ==
  /\ Breaks(p)
  /\ UNCHANGED <<now, tickets, pageVars, pushVars>>

\* The request answers 500: the page tries without a ticket.
IssueFails(p) ==
  /\ Breaks(p)
  /\ page' = [page EXCEPT ![p] = "opening"]
  /\ presented' = [presented EXCEPT ![p] = 0]
  /\ UNCHANGED <<now, tickets, connection, faults, pushVars>>

\* The handshake reaches the middleware.
Handshake(p) ==
  /\ page[p] = "opening" /\ connection[p] = 0
  /\ BeginWalk(Loop, p, FALSE)
  /\ UNCHANGED <<now, tickets, races, pageVars, pushVars>>

\* The handshake of a page that is connected already arrives once more.
Replay(p) ==
  /\ page[p] = "open" /\ p \in Bare
  /\ faults < MaxFaults
  /\ BeginWalk(Loop, p, TRUE)
  /\ faults' = faults + 1
  /\ UNCHANGED <<now, tickets, races, page, presented, connection, pushVars>>

\* Mutant: the ticket is looked up and left in the store.
LookUp(t) == tickets

Pop(t) == Restrict(tickets, DOMAIN tickets \ {t})

\* The middleware passes the handshake on, for its ticket or its header, to
\* ws_endpoint, which awaits accept.
Admit ==
  /\ Walked(Loop)
  /\ LET walk == walks[Loop]
         known == walk.ticket \in DOMAIN tickets
     IN /\ known \/ walk.page \notin Bare
        /\ tickets' = Pop(walk.ticket)
        /\ sockets' = Append(sockets,
             [ticket |-> IF known THEN walk.ticket ELSE 0,
              late |-> known /\ tickets[walk.ticket] < walk.clock,
              endpoint |-> "accepting", up |-> TRUE])
        /\ connection' = IF walk.again THEN connection
                         ELSE [connection EXCEPT ![walk.page] = Len(sockets')]
  /\ UNCHANGED <<now, races, page, presented, faults, clients,
                 shown, version, publishing, served>>

\* A page whose handshake is refused sees its socket close.
Closed ==
  IF walks[Loop].again
  THEN UNCHANGED <<page, presented>>
  ELSE /\ page' = [page EXCEPT ![walks[Loop].page] = "waiting"]
       /\ presented' = [presented EXCEPT ![walks[Loop].page] = 0]

Refuse ==
  /\ Walked(Loop)
  /\ walks[Loop].ticket \notin DOMAIN tickets
  /\ walks[Loop].page \in Bare
  /\ Closed
  /\ UNCHANGED <<now, tickets, races, connection, faults, pushVars>>

ConsumeFails ==
  /\ Breaks(Loop)
  /\ Closed
  /\ UNCHANGED <<now, tickets, connection, faults, pushVars>>

\* The connection is lost.  The page notices and sets its timer; the server
\* will notice.
Drop(p) ==
  /\ connection[p] # 0
  /\ faults < MaxFaults
  /\ faults' = faults + 1
  /\ sockets' = [sockets EXCEPT ![connection[p]].up = FALSE]
  /\ connection' = [connection EXCEPT ![p] = 0]
  /\ presented' = [presented EXCEPT ![p] = 0]
  /\ page' = [page EXCEPT ![p] = "waiting"]
  /\ UNCHANGED <<ticketVars, clients, shown, version, publishing, served>>

-----------------------------------------------------------------------------
\* ws_endpoint and Broadcaster.

\* build_snapshot, at this moment.
Snapshot == version

\* What the pages show once event has been written to socket s.
Written(s, event) ==
  [p \in Pages |-> IF connection[p] = s THEN event ELSE shown[p]]

Accept(s) ==
  /\ LoopIsFree
  /\ sockets[s].endpoint = "accepting"
  /\ IF sockets[s].up
     THEN /\ sockets' = [sockets EXCEPT ![s].endpoint = "serving"]
          /\ clients' = Append(clients, s)
          /\ shown' = Written(s, Snapshot)
          /\ page' = [p \in Pages |-> IF connection[p] = s THEN "open" ELSE page[p]]
     ELSE /\ sockets' = [sockets EXCEPT ![s].endpoint = "done", ![s].ticket = 0]
          /\ UNCHANGED <<clients, shown, page>>
  /\ UNCHANGED <<ticketVars, presented, connection, faults, version,
                 publishing, served>>

Unregister(list, s) == RemoveFirst(list, s)

\* receive_text, or the first send, raises: the finally clause unregisters.
EndpointEnds(s) ==
  /\ LoopIsFree
  /\ sockets[s].endpoint = "serving" /\ ~sockets[s].up
  /\ sockets' = [sockets EXCEPT ![s].endpoint = "done", ![s].ticket = 0]
  /\ clients' = Unregister(clients, s)
  /\ UNCHANGED <<ticketVars, pageVars, shown, version, publishing, served>>

\* publish, up to the await of its first send.  The list is copied.
StartPublish(k, event) ==
  /\ publishing[k] = None
  /\ IF clients = <<>>
     THEN UNCHANGED <<publishing, shown>>
     ELSE /\ publishing' = [publishing EXCEPT ![k] =
               [event |-> event, at |-> Head(clients), rest |-> Tail(clients),
                dead |-> <<>>]]
          /\ shown' = Written(Head(clients), event)

\* The requests that change mode, limits, strategies, the emergency stop or
\* whether the engine runs, and the one that reconnects a venue.
Change(r) ==
  /\ LoopIsFree
  /\ r \notin served
  /\ served' = served \cup {r}
  /\ version' = version + 1
  /\ StartPublish(r, Snapshot')
  /\ UNCHANGED <<ticketVars, pageVars, sockets, clients>>

PublishTick ==
  /\ LoopIsFree
  /\ StartPublish(Tick, Snapshot)
  /\ UNCHANGED <<ticketVars, pageVars, sockets, clients, version, served>>

\* Mutant: one client that has gone takes the whole round with it.
DropTheRound(list, dead) == IF dead = <<>> THEN list ELSE <<>>

DropDead(list, dead) == FoldLeft(Unregister, list, dead)

\* A send returns, or raises if the connection is lost, and publish goes on to
\* the next client, or drops the dead ones and is over.
SendReturns(k, raised) ==
  /\ LoopIsFree
  /\ publishing[k] # None
  /\ LET pub == publishing[k]
         dead == IF raised THEN Append(pub.dead, pub.at) ELSE pub.dead
     IN /\ raised => ~sockets[pub.at].up
        /\ IF pub.rest # <<>>
           THEN /\ publishing' = [publishing EXCEPT ![k] =
                     [pub EXCEPT !.at = Head(pub.rest), !.rest = Tail(pub.rest),
                                 !.dead = dead]]
                /\ shown' = Written(Head(pub.rest), pub.event)
                /\ UNCHANGED clients
           ELSE /\ publishing' = [publishing EXCEPT ![k] = None]
                /\ clients' = DropDead(clients, dead)
                /\ UNCHANGED shown
  /\ UNCHANGED <<ticketVars, pageVars, sockets, version, served>>

\* Time matters while there are tickets.
TimePasses ==
  /\ now < MaxNow /\ DOMAIN tickets # {}
  /\ now' = now + 1
  /\ UNCHANGED <<tickets, walks, races, pageVars, pushVars>>

-----------------------------------------------------------------------------
\* One page and the thread that serves it; the handshake inside the middleware.
PageStep(p) ==
  \/ FetchTicket(p)
  \/ EndScan(p)
  \/ DeleteExpired(p)
  \/ Issue(p)
  \/ IssueFails(p)
  \/ Handshake(p)

ConsumeStep ==
  \/ EndScan(Loop)
  \/ DeleteExpired(Loop)
  \/ Admit
  \/ Refuse
  \/ ConsumeFails

EndpointStep(s) == Accept(s) \/ EndpointEnds(s)

DashNext ==
  \/ \E p \in Pages : PageStep(p)
  \/ ConsumeStep
  \/ \E s \in DOMAIN sockets : EndpointStep(s)
  \/ PublishTick
  \/ \E k \in Tasks, raised \in BOOLEAN : SendReturns(k, raised)
  \/ \E p \in Pages : Replay(p)
  \/ \E p \in Pages : Drop(p)
  \/ \E r \in Requests : Change(r)
  \/ TimePasses

\* Threads and the loop run, timers fire, and no send waits for ever: a peer
\* that stops reading fails the server's keepalive pings.  Nothing obliges a
\* connection to break, a handshake to be repeated or a request to come.
DashFairness ==
  /\ \A p \in Pages : WF_dashVars(PageStep(p))
  /\ WF_dashVars(ConsumeStep)
  /\ WF_dashVars(\E s \in DOMAIN sockets : EndpointStep(s))
  /\ WF_dashVars(PublishTick)
  /\ \A k \in Tasks : WF_dashVars(\E raised \in BOOLEAN : SendReturns(k, raised))

DashSpec == DashInit /\ [][DashNext]_dashVars /\ DashFairness

-----------------------------------------------------------------------------
\* Properties.

\* A ticket lets one socket in, once, and only a handshake that arrived before
\* it expired, however issues in worker threads run through the walks and the
\* deletions of a consume.
TicketsAdmitOnce ==
  \A s \in DOMAIN sockets : sockets[s].ticket # 0 =>
    /\ ~sockets[s].late
    /\ \A other \in DOMAIN sockets : sockets[other].ticket = sockets[s].ticket => other = s

\* What it rests on.
TicketTypes ==
  /\ now \in Nat
  /\ tickets \in [DOMAIN tickets -> Nat]
  /\ DOMAIN tickets \subseteq Nat /\ IsFiniteSet(DOMAIN tickets)
  /\ walks \in [Threads -> Walk \cup {None}]
  /\ \A w \in Threads : walks[w] # None => IsFiniteSet(walks[w].expired)
  /\ presented \in [Pages -> Nat]
  /\ sockets \in Seq(Socket)

\* A ticket that let a socket in is in the store no more.
AdmittedAreGone ==
  \A s \in DOMAIN sockets :
    sockets[s].ticket # 0 => sockets[s].ticket \notin DOMAIN tickets

\* A walk that has made its list leaves nothing in the store that had expired
\* when it began, but what is on the list.
ExpiredAreListed ==
  \A w \in Threads : walks[w] # None =>
    /\ walks[w].clock <= now
    /\ walks[w].at = "delete" =>
         \A t \in DOMAIN tickets \ walks[w].expired : walks[w].clock <= tickets[t]

\* The broadcaster's list holds each open socket that is being served, once,
\* and none whose endpoint is over, although a publish that is still waiting
\* for an earlier client and the endpoint itself may both be about to drop it.
ListenersAreServed ==
  /\ IsInjective(clients)
  /\ \A s \in DOMAIN sockets :
       /\ sockets[s].endpoint = "serving" /\ sockets[s].up => s \in ToSet(clients)
       /\ s \in ToSet(clients) => sockets[s].endpoint = "serving"

\* What it rests on: a publish drops only those whose connection is lost, for good.
ListsNameSockets ==
  /\ version \in Nat
  /\ connection \in [Pages -> DOMAIN sockets \cup {0}]
  /\ clients \in Seq(DOMAIN sockets)
  /\ publishing \in [Tasks -> Publish \cup {None}]

\* Once connections stop breaking and requests stop coming, every page comes
\* back, and shows the engine's last state, although publishes overtake each
\* other and a page may have shown an older state after a newer one.
PagesCatchUp == <>[](\A p \in Pages : page[p] = "open" /\ shown[p] = version)
==============================================================================

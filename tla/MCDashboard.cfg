\* Tickets, sockets and publishes, every interleaving.
SPECIFICATION DashSpec
CONSTANTS
  p1 = p1
  p2 = p2
  r1 = r1
  None = None
  Pages <- MCPages
  Bare <- MCBare
  Requests <- MCRequests
  TTL = 0
  MaxNow = 1
  MaxFaults = 1
  MaxRaces = 1
INVARIANTS
  TicketsAdmitOnce
  ListenersAreServed
PROPERTY
  PagesCatchUp

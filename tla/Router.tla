------------------------------- MODULE Router --------------------------------
(***************************************************************************)
(* execution/router.py over execution/inventory.py: which of a tick's      *)
(* opportunities get their inventory reserved, and what becomes of a       *)
(* reservation once the executor has decided.                              *)
(*                                                                         *)
(* No method of the two classes awaits, so each is one action.             *)
(***************************************************************************)
EXTENDS Trading, SequencesExt

CONSTANTS
  Openings,   \* the balances set_balance may be given, per account
  MaxFills    \* bound: trades settled in a behaviour

Accounts == Venues \X Assets

Balance == [free : Nat, locked : Nat]

Reservation == [account : Accounts, amount : Nat]

ASSUME RouterConstantsAreTyped ==
  /\ Openings \subseteq [Accounts -> Nat]
  /\ MaxFills \in Nat

\* Opportunities are made of floats and of configured venues and assets, and
\* None is not a list.
ASSUME DetectionsAreFinite ==
  /\ IsFiniteSet(Opportunities)
  /\ None \notin Seq(Reservation)

VARIABLES
  inv,          \* inventory._balances
  reservations, \* opportunity.detail["_reservations"], None if absent
  to_execute,   \* what main still has to hand to the executor this tick
  deposited,    \* history: what set_balance has put into each account
  fills         \* history: the opportunities settled, oldest first

routerVars == <<inv, reservations, to_execute, deposited, fills>>

-----------------------------------------------------------------------------
\* InventoryManager.

\* What a leg takes from which account, and what it pays into which.
SpentAccount(leg) ==
  <<leg.venue_id, IF leg.side = "buy" THEN leg.quote ELSE leg.base>>

SpentAmount(leg) == IF leg.side = "buy" THEN leg.price * leg.size ELSE leg.size

ReceivedAccount(leg) ==
  <<leg.venue_id, IF leg.side = "buy" THEN leg.base ELSE leg.quote>>

ReceivedAmount(leg) == IF leg.side = "buy" THEN leg.size ELSE leg.price * leg.size

\* Mutant: what is locked already counts as available.
CountsLocked(book, r) ==
  book[r.account].free + book[r.account].locked >= r.amount

CanReserve(book, r) == book[r.account].free >= r.amount

ReserveBalance(book, r) ==
  [book EXCEPT ![r.account] = [free |-> @.free - r.amount,
                               locked |-> @.locked + r.amount]]

ReleaseBalance(book, r) ==
  LET amount == Min({r.amount, book[r.account].locked})
  IN [book EXCEPT ![r.account] = [free |-> @.free + amount,
                                  locked |-> @.locked - amount]]

SettleBalance(book, r) ==
  [book EXCEPT ![r.account].locked = Max({0, @ - r.amount})]

CreditBalance(book, account, amount) ==
  [book EXCEPT ![account].free = @ + amount]

\* The loops of release_reservations and settle_reservations.
ReleaseAll(book, rs) == FoldLeft(ReleaseBalance, book, rs)

SettleAll(book, rs) == FoldLeft(SettleBalance, book, rs)

-----------------------------------------------------------------------------
\* Router.select.

\* One leg of the inner loop; a leg after a refused one is not looked at.
ReserveLeg(attempt, leg) ==
  LET r == [account |-> SpentAccount(leg), amount |-> SpentAmount(leg)]
  IN IF ~attempt.ok \/ r.amount = 0 THEN attempt
     ELSE IF ~CanReserve(attempt.inv, r) THEN [attempt EXCEPT !.ok = FALSE]
     ELSE [attempt EXCEPT !.inv = ReserveBalance(@, r),
                          !.reserved = Append(@, r)]

ReserveLegs(book, o) ==
  FoldLeft(ReserveLeg, [ok |-> TRUE, inv |-> book, reserved |-> <<>>], o.legs)

\* Mutant: the legs reserved before a refused one are not rolled back.
ConsiderWithoutRollback(sofar, o) ==
  LET attempt == ReserveLegs(sofar.inv, o)
  IN IF attempt.ok
     THEN [inv |-> attempt.inv,
           reservations |-> [sofar.reservations EXCEPT ![o] = attempt.reserved],
           accepted |-> Append(sofar.accepted, o)]
     ELSE [sofar EXCEPT !.inv = attempt.inv]

\* Accept an opportunity with all its legs, or roll back those it got.
Consider(sofar, o) ==
  LET attempt == ReserveLegs(sofar.inv, o)
  IN IF attempt.ok
     THEN [inv |-> attempt.inv,
           reservations |-> [sofar.reservations EXCEPT ![o] = attempt.reserved],
           accepted |-> Append(sofar.accepted, o)]
     ELSE [sofar EXCEPT
             !.inv = ReleaseAll(attempt.inv, attempt.reserved)]

NoReservations == [o \in Opportunities |-> None]

ExpectedValue(o) == o.net_profit_pct * o.max_size_usd

\* Mutant: the candidates as the strategies found them.
Unsorted(candidates) == SetToSeqs(candidates)

\* The orders sorted() may leave the candidates in: descending, ties as found.
Rankings(candidates) ==
  {order \in SetToSeqs(candidates) :
     \A i, j \in DOMAIN order :
       i < j => ExpectedValue(order[i]) >= ExpectedValue(order[j])}

\* Each tick detects new objects, which carry no reservation.
Selection(book, order) ==
  FoldLeft(Consider,
           [inv |-> book, reservations |-> NoReservations, accepted |-> <<>>],
           order)

Select(order) ==
  /\ to_execute = <<>>
  /\ inv' = Selection(inv, order).inv
  /\ reservations' = Selection(inv, order).reservations
  /\ to_execute' = Selection(inv, order).accepted
  /\ UNCHANGED <<deposited, fills>>

\* main does not call select in monitor mode.
Bypass(order) ==
  /\ to_execute = <<>>
  /\ reservations' = NoReservations
  /\ to_execute' = order
  /\ UNCHANGED <<inv, deposited, fills>>

-----------------------------------------------------------------------------
\* After the executor has handled the head of to_execute.

CreditLeg(book, leg) ==
  IF leg.size = 0 THEN book
  ELSE CreditBalance(book, ReceivedAccount(leg), ReceivedAmount(leg))

CreditAll(book, o) == FoldLeft(CreditLeg, book, o.legs)

Resolve(o) ==
  /\ to_execute # <<>>
  /\ o = Head(to_execute)
  /\ to_execute' = Tail(to_execute)
  /\ reservations' = [reservations EXCEPT ![o] = None]

HasReservations(o) == reservations[o] \notin {None, <<>>}

\* Mutant: the credit does not ask whether anything was reserved.
SettleAnything(o) ==
  LET rs == IF reservations[o] = None THEN <<>> ELSE reservations[o]
  IN /\ Resolve(o)
     /\ Len(fills) < MaxFills
     /\ inv' = CreditAll(SettleAll(inv, rs), o)
     /\ fills' = IF HasReservations(o) THEN Append(fills, o) ELSE fills
     /\ UNCHANGED deposited

\* Settling what was never reserved is a no-op.
SettleFill(o) ==
  /\ Resolve(o)
  /\ IF HasReservations(o)
     THEN /\ Len(fills) < MaxFills
          /\ inv' = CreditAll(SettleAll(inv, reservations[o]), o)
          /\ fills' = Append(fills, o)
     ELSE UNCHANGED <<inv, fills>>
  /\ UNCHANGED deposited

\* Mutant: the reservation of a rejected trade is dropped, not released.
DropUnfilled(o) ==
  /\ Resolve(o)
  /\ UNCHANGED <<inv, deposited, fills>>

ReleaseUnfilled(o) ==
  /\ Resolve(o)
  /\ inv' = IF reservations[o] = None THEN inv
            ELSE ReleaseAll(inv, reservations[o])
  /\ UNCHANGED <<deposited, fills>>

-----------------------------------------------------------------------------
\* Inventory is seeded, or its balances fetched, between ticks.  set_balance
\* forgets what was locked.
SetBalances(accounts, amounts) ==
  /\ to_execute = <<>>
  /\ inv' = [a \in Accounts |-> IF a \in accounts
                                THEN [free |-> amounts[a], locked |-> 0]
                                ELSE inv[a]]
  /\ deposited' = [a \in Accounts |->
                     deposited[a] + (inv'[a].free + inv'[a].locked)
                                  - (inv[a].free + inv[a].locked)]
  /\ UNCHANGED <<reservations, to_execute, fills>>

RouterInit ==
  /\ deposited \in Openings \cup {[a \in Accounts |-> 0]}
  /\ inv = [a \in Accounts |-> [free |-> deposited[a], locked |-> 0]]
  /\ reservations = NoReservations
  /\ to_execute = <<>>
  /\ fills = <<>>

RouterNext ==
  \/ \E candidates \in SUBSET Opportunities :
       \E order \in Rankings(candidates) : Select(order)
  \/ \E candidates \in SUBSET Opportunities :
       \E order \in SetToSeqs(candidates) : Bypass(order)
  \/ \E o \in Opportunities : SettleFill(o)
  \/ \E o \in Opportunities : ReleaseUnfilled(o)
  \/ \E accounts \in SUBSET Accounts, amounts \in Openings :
       SetBalances(accounts, amounts)

RouterSpec == RouterInit /\ [][RouterNext]_routerVars

RouterTypeOK ==
  /\ inv \in [Accounts -> Balance]
  /\ reservations \in [Opportunities -> Seq(Reservation) \cup {None}]
  /\ to_execute \in Seq(Opportunities)
  /\ deposited \in [Accounts -> Int]
  /\ fills \in Seq(Opportunities)

-----------------------------------------------------------------------------
\* Properties.

\* A sum over a list has a summand for each of its members, 0 where another
\* account is concerned.
ReservedOn(a, rs) ==
  SumFunction([i \in DOMAIN rs |-> IF rs[i].account = a THEN rs[i].amount ELSE 0])

SpentOn(a, o) ==
  SumFunction([i \in LegIndices(o) |->
                 IF SpentAccount(o.legs[i]) = a THEN SpentAmount(o.legs[i]) ELSE 0])

ReceivedOn(a, o) ==
  SumFunction([i \in LegIndices(o) |->
                 IF ReceivedAccount(o.legs[i]) = a THEN ReceivedAmount(o.legs[i]) ELSE 0])

OpenOn(a) ==
  SumFunction([o \in Opportunities |->
                 IF reservations[o] = None THEN 0 ELSE ReservedOn(a, reservations[o])])

Total(a) == inv[a].free + inv[a].locked

\* Every locked unit belongs to one opportunity the executor has yet to
\* decide on: a tick that rolls back, rejects, skips and settles in any mix
\* neither strands a lock nor releases another trade's.
LockedMatchesReservations ==
  \A a \in Accounts : inv[a].locked = OpenOn(a)

\* Between ticks nothing is locked, so balance is never starved away.
NothingStaysLocked ==
  to_execute = <<>> => \A a \in Accounts : inv[a].locked = 0

\* Over the whole run the accounts add up: what was put in, less what every
\* settled trade spent, plus what it received.  The clamps of release and
\* settle never absorb anything, and no account is overdrawn.
AccountsAddUp ==
  \A a \in Accounts :
    /\ inv[a].free >= 0 /\ inv[a].locked >= 0
    /\ Total(a) + SumFunction([n \in DOMAIN fills |-> SpentOn(a, fills[n])])
         = deposited[a] + SumFunction([n \in DOMAIN fills |-> ReceivedOn(a, fills[n])])

\* A reservation belongs to a trade main has yet to handle, of which there is
\* one each, and covers exactly what its legs spend.
ReservationsCoverTrades ==
  /\ \A o \in Opportunities : reservations[o] # None =>
       /\ o \in ToSet(to_execute)
       /\ \A a \in Accounts : ReservedOn(a, reservations[o]) = SpentOn(a, o)
  /\ \A i, j \in DOMAIN to_execute : i # j => to_execute[i] # to_execute[j]

\* The conjunction every step preserves.
RouterInv ==
  /\ RouterTypeOK
  /\ ReservationsCoverTrades
  /\ LockedMatchesReservations
  /\ AccountsAddUp

\* An opportunity that is passed over could not have been funded from what
\* the better ranked ones leave: a failed attempt takes nothing from those
\* after it, and no worse one is preferred.
GreedyByValue ==
  to_execute = <<>> =>
    \A candidates \in SUBSET Opportunities : \A order \in Rankings(candidates) :
      LET accepted == ToSet(Selection(inv, order).accepted)
          better(i) == {order[j] : j \in {k \in DOMAIN order :
            \/ ExpectedValue(order[k]) > ExpectedValue(order[i])
            \/ ExpectedValue(order[k]) = ExpectedValue(order[i]) /\ k < i}}
      IN \A i \in DOMAIN order : order[i] \notin accepted =>
           \E a \in Accounts :
             SpentOn(a, order[i])
               + SumFunctionOnSet([o \in Opportunities |-> SpentOn(a, o)],
                                  accepted \cap better(i))
               > inv[a].free

==============================================================================

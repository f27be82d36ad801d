---------------------------- MODULE EngineProofs -----------------------------
(***************************************************************************)
(* Theorems about Engine and Router, for every value of their constants.   *)
(*                                                                         *)
(* First Router: what a tick's loops over legs and reservations do to      *)
(* every account, and from that the ledger and the order in which          *)
(* opportunities are funded.  Then Engine: the loop runs the executor as   *)
(* Executor.tla says, so what ExecutorProofs shows holds in it, the loop's *)
(* own invariants, and the books as the loop keeps them.                   *)
(***************************************************************************)
EXTENDS Engine, ExecutorProofs

INSTANCE FoldTheorems WITH op <- +

Reserving == INSTANCE FoldTheorems WITH op <- ReserveLeg
Releasing == INSTANCE FoldTheorems WITH op <- ReleaseBalance
Settling == INSTANCE FoldTheorems WITH op <- SettleBalance
Crediting == INSTANCE FoldTheorems WITH op <- CreditLeg
Choosing == INSTANCE FoldTheorems WITH op <- Consider

Books == [Accounts -> Balance]

-----------------------------------------------------------------------------
(***************************************************************************)
(* The summands of what is spent, received and reserved on an account.     *)
(***************************************************************************)

Held(a, rs) == [i \in DOMAIN rs |-> IF rs[i].account = a THEN rs[i].amount ELSE 0]

Spent(a, o) ==
  [i \in LegIndices(o) |->
     IF SpentAccount(o.legs[i]) = a THEN SpentAmount(o.legs[i]) ELSE 0]

Received(a, o) ==
  [i \in LegIndices(o) |->
     IF ReceivedAccount(o.legs[i]) = a THEN ReceivedAmount(o.legs[i]) ELSE 0]

LEMMA LegAmounts ==
  ASSUME NEW leg \in Leg
  PROVE  /\ SpentAccount(leg) \in Accounts
         /\ SpentAmount(leg) \in Nat
         /\ ReceivedAccount(leg) \in Accounts
         /\ ReceivedAmount(leg) \in Nat
         /\ leg.size = 0 => ReceivedAmount(leg) = 0
<1>1. /\ leg.venue_id \in Venues /\ leg.base \in Assets /\ leg.quote \in Assets
      /\ leg.price \in Nat /\ leg.size \in Nat
  BY DEF Leg
<1>2. leg.price * leg.size \in Nat
  BY <1>1
<1>3. leg.size = 0 => leg.price * leg.size = 0
  BY <1>1
<1> QED
  BY <1>1, <1>2, <1>3
  DEF SpentAccount, SpentAmount, ReceivedAccount, ReceivedAmount, Accounts

LEMMA LegsOf ==
  ASSUME NEW o \in Opportunities
  PROVE  /\ Len(o.legs) \in Nat
         /\ DOMAIN o.legs = 1..Len(o.legs)
         /\ LegIndices(o) = 1..Len(o.legs)
         /\ \A i \in 1..Len(o.legs) : o.legs[i] \in Leg
<1>1. o.legs \in Seq(Leg)
  BY OpportunitiesAreTyped DEF OpportunityRecord
<1> QED
  BY <1>1 DEF LegIndices

LEMMA SpentTyped ==
  ASSUME NEW o \in Opportunities, NEW a
  PROVE  /\ \A i \in 1..Len(o.legs) : Spent(a, o)[i] \in Nat
         /\ SpentOn(a, o) = SumFunctionOnSet(Spent(a, o), 1..Len(o.legs))
         /\ SpentOn(a, o) \in Nat
<1>1. \A i \in 1..Len(o.legs) : Spent(a, o)[i] \in Nat
  BY LegsOf, LegAmounts DEF Spent
<1>2. SpentOn(a, o) = SumFunctionOnSet(Spent(a, o), 1..Len(o.legs))
  BY LegsOf DEF SpentOn, Spent, SumFunction
<1>3. Len(o.legs) \in 0..Len(o.legs) /\ Len(o.legs) \in Nat
  BY LegsOf
<1> QED
  BY <1>1, <1>2, <1>3, SumPrefixes

LEMMA ReceivedTyped ==
  ASSUME NEW o \in Opportunities, NEW a
  PROVE  /\ \A i \in 1..Len(o.legs) : Received(a, o)[i] \in Nat
         /\ ReceivedOn(a, o) = SumFunctionOnSet(Received(a, o), 1..Len(o.legs))
         /\ ReceivedOn(a, o) \in Nat
<1>1. \A i \in 1..Len(o.legs) : Received(a, o)[i] \in Nat
  BY LegsOf, LegAmounts DEF Received
<1>2. ReceivedOn(a, o) = SumFunctionOnSet(Received(a, o), 1..Len(o.legs))
  BY LegsOf DEF ReceivedOn, Received, SumFunction
<1>3. Len(o.legs) \in 0..Len(o.legs) /\ Len(o.legs) \in Nat
  BY LegsOf
<1> QED
  BY <1>1, <1>2, <1>3, SumPrefixes

LEMMA HeldTyped ==
  ASSUME NEW rs \in Seq(Reservation), NEW a
  PROVE  /\ \A i \in 1..Len(rs) : Held(a, rs)[i] \in Nat
         /\ ReservedOn(a, rs) = SumFunctionOnSet(Held(a, rs), 1..Len(rs))
         /\ ReservedOn(a, rs) \in Nat
<1>1. Len(rs) \in Nat /\ Len(rs) \in 0..Len(rs) /\ DOMAIN rs = 1..Len(rs)
  OBVIOUS
<1>2. \A i \in 1..Len(rs) : Held(a, rs)[i] \in Nat
  <2> SUFFICES ASSUME NEW i \in 1..Len(rs)
               PROVE  Held(a, rs)[i] \in Nat
    OBVIOUS
  <2>1. rs[i] \in Reservation
    OBVIOUS
  <2>2. rs[i].amount \in Nat
    BY <2>1 DEF Reservation
  <2>3. Held(a, rs)[i] = IF rs[i].account = a THEN rs[i].amount ELSE 0
    BY <1>1 DEF Held
  <2> QED
    BY <2>2, <2>3
<1>3. ReservedOn(a, rs) = SumFunctionOnSet(Held(a, rs), 1..Len(rs))
  BY <1>1 DEF ReservedOn, Held, SumFunction
<1> QED
  BY <1>1, <1>2, <1>3, SumPrefixes

LEMMA HeldNothing ==
  ASSUME NEW a
  PROVE  ReservedOn(a, <<>>) = 0
<1>1. <<>> \in Seq(Reservation) /\ Len(<<>>) = 0
  OBVIOUS
<1>2. ReservedOn(a, <<>>) = SumFunctionOnSet(Held(a, <<>>), 1..0)
  BY <1>1, HeldTyped
<1>3. 1..0 = {}
  OBVIOUS
<1> QED
  BY <1>2, <1>3, SumEmpty

LEMMA HeldOneMore ==
  ASSUME NEW rs \in Seq(Reservation), NEW r \in Reservation, NEW a
  PROVE  ReservedOn(a, Append(rs, r))
           = ReservedOn(a, rs) + (IF r.account = a THEN r.amount ELSE 0)
<1> DEFINE n == Len(rs)
           f == Held(a, rs)
           g == Held(a, Append(rs, r))
<1>1. Append(rs, r) \in Seq(Reservation) /\ Len(Append(rs, r)) = n + 1 /\ n \in Nat
  OBVIOUS
<1>2. \A i \in 1..n : f[i] \in Int
  BY HeldTyped
<1>3. \A i \in 1..n : g[i] = f[i]
  BY DEF Held
<1>4. g[n + 1] = IF r.account = a THEN r.amount ELSE 0
  BY DEF Held
<1>5. g[n + 1] \in Int
  BY <1>4 DEF Reservation
<1>6. SumFunctionOnSet(g, 1..(n + 1)) = SumFunctionOnSet(f, 1..n) + g[n + 1]
  <2> HIDE DEF n, f, g
  <2> QED
    BY <1>1, <1>2, <1>3, <1>5, SumExtend
<1>7. ReservedOn(a, Append(rs, r)) = SumFunctionOnSet(g, 1..(n + 1))
  BY <1>1, HeldTyped
<1>8. ReservedOn(a, rs) = SumFunctionOnSet(f, 1..n)
  BY HeldTyped
<1> QED
  BY <1>4, <1>6, <1>7, <1>8

-----------------------------------------------------------------------------
(***************************************************************************)
(* InventoryManager, one balance at a time.                                *)
(***************************************************************************)

LEMMA MinOfTwo ==
  ASSUME NEW x \in Nat, NEW y \in Nat, x <= y
  PROVE  Min({x, y}) = x
BY DEF Min

LEMMA MaxOfTwo ==
  ASSUME NEW x \in Int, x >= 0
  PROVE  Max({0, x}) = x
BY DEF Max

\* A reservation the account can afford.
LEMMA ReserveEffect ==
  ASSUME NEW book \in Books, NEW r \in Reservation, CanReserve(book, r)
  PROVE  /\ ReserveBalance(book, r) \in Books
         /\ \A a \in Accounts :
              LET amount == IF r.account = a THEN r.amount ELSE 0
              IN /\ ReserveBalance(book, r)[a].free = book[a].free - amount
                 /\ ReserveBalance(book, r)[a].locked = book[a].locked + amount
<1>1. r.account \in Accounts /\ r.amount \in Nat
  BY DEF Reservation
<1>2. \A a \in Accounts : book[a].free \in Nat /\ book[a].locked \in Nat
  BY DEF Books, Balance
<1> DEFINE b == [free |-> book[r.account].free - r.amount,
                 locked |-> book[r.account].locked + r.amount]
<1>3. b \in Balance
  BY <1>1, <1>2 DEF Balance, CanReserve
<1>4. ReserveBalance(book, r) = [book EXCEPT ![r.account] = b]
  BY DEF ReserveBalance
<1>5. ReserveBalance(book, r) \in Books
  <2> HIDE DEF b
  <2> QED
    BY <1>1, <1>3, <1>4 DEF Books
<1>6. \A a \in Accounts :
        ReserveBalance(book, r)[a] = IF r.account = a THEN b ELSE book[a]
  <2> HIDE DEF b
  <2> QED
    BY <1>1, <1>4 DEF Books
<1> QED
  BY <1>2, <1>5, <1>6

\* Releasing no more than is locked: the clamp does nothing.
LEMMA ReleaseEffect ==
  ASSUME NEW book \in Books, NEW r \in Reservation, r.amount <= book[r.account].locked
  PROVE  /\ ReleaseBalance(book, r) \in Books
         /\ \A a \in Accounts :
              LET amount == IF r.account = a THEN r.amount ELSE 0
              IN /\ ReleaseBalance(book, r)[a].free = book[a].free + amount
                 /\ ReleaseBalance(book, r)[a].locked = book[a].locked - amount
<1>1. r.account \in Accounts /\ r.amount \in Nat
  BY DEF Reservation
<1>2. \A a \in Accounts : book[a].free \in Nat /\ book[a].locked \in Nat
  BY DEF Books, Balance
<1> DEFINE b == [free |-> book[r.account].free + r.amount,
                 locked |-> book[r.account].locked - r.amount]
<1>3. b \in Balance
  BY <1>1, <1>2 DEF Balance
<1>4. ReleaseBalance(book, r) = [book EXCEPT ![r.account] = b]
  <2>1. Min({r.amount, book[r.account].locked}) = r.amount
    BY <1>1, <1>2, MinOfTwo
  <2> QED
    BY <2>1 DEF ReleaseBalance
<1>5. ReleaseBalance(book, r) \in Books
  <2> HIDE DEF b
  <2> QED
    BY <1>1, <1>3, <1>4 DEF Books
<1>6. \A a \in Accounts :
        ReleaseBalance(book, r)[a] = IF r.account = a THEN b ELSE book[a]
  <2> HIDE DEF b
  <2> QED
    BY <1>1, <1>4 DEF Books
<1> QED
  BY <1>2, <1>5, <1>6

\* Settling no more than is locked: the clamp does nothing.
LEMMA SettleEffect ==
  ASSUME NEW book \in Books, NEW r \in Reservation, r.amount <= book[r.account].locked
  PROVE  /\ SettleBalance(book, r) \in Books
         /\ \A a \in Accounts :
              LET amount == IF r.account = a THEN r.amount ELSE 0
              IN /\ SettleBalance(book, r)[a].free = book[a].free
                 /\ SettleBalance(book, r)[a].locked = book[a].locked - amount
<1>1. r.account \in Accounts /\ r.amount \in Nat
  BY DEF Reservation
<1>2. \A a \in Accounts : book[a].free \in Nat /\ book[a].locked \in Nat
  BY DEF Books, Balance
<1> DEFINE b == [free |-> book[r.account].free,
                 locked |-> book[r.account].locked - r.amount]
<1>3. b \in Balance
  BY <1>1, <1>2 DEF Balance
<1>4. SettleBalance(book, r) = [book EXCEPT ![r.account] = b]
  <2>1. Max({0, book[r.account].locked - r.amount}) = book[r.account].locked - r.amount
    <3>1. /\ book[r.account].locked - r.amount \in Int
          /\ book[r.account].locked - r.amount >= 0
      BY <1>1, <1>2
    <3> QED
      BY <3>1, MaxOfTwo
  <2>2. [book[r.account] EXCEPT !.locked = book[r.account].locked - r.amount] = b
    BY <1>1 DEF Books, Balance
  <2> QED
    BY <2>1, <2>2 DEF SettleBalance
<1>5. SettleBalance(book, r) \in Books
  <2> HIDE DEF b
  <2> QED
    BY <1>1, <1>3, <1>4 DEF Books
<1>6. \A a \in Accounts :
        SettleBalance(book, r)[a] = IF r.account = a THEN b ELSE book[a]
  <2> HIDE DEF b
  <2> QED
    BY <1>1, <1>4 DEF Books
<1> QED
  BY <1>2, <1>5, <1>6

LEMMA CreditEffect ==
  ASSUME NEW book \in Books, NEW leg \in Leg
  PROVE  /\ CreditLeg(book, leg) \in Books
         /\ \A a \in Accounts :
              LET amount == IF ReceivedAccount(leg) = a THEN ReceivedAmount(leg) ELSE 0
              IN /\ CreditLeg(book, leg)[a].free = book[a].free + amount
                 /\ CreditLeg(book, leg)[a].locked = book[a].locked
<1>1. /\ ReceivedAccount(leg) \in Accounts /\ ReceivedAmount(leg) \in Nat
      /\ leg.size = 0 => ReceivedAmount(leg) = 0
  BY LegAmounts
<1>2. \A a \in Accounts : book[a].free \in Nat /\ book[a].locked \in Nat
  BY DEF Books, Balance
<1> DEFINE to == ReceivedAccount(leg)
           amount == ReceivedAmount(leg)
           b == [free |-> book[to].free + amount, locked |-> book[to].locked]
<1>3. b \in Balance
  BY <1>1, <1>2 DEF Balance
<1>4. CASE leg.size = 0
  BY <1>1, <1>2, <1>4 DEF CreditLeg
<1>5. CASE leg.size # 0
  <2>1. CreditLeg(book, leg) = [book EXCEPT ![to] = b]
    <3>1. [book[to] EXCEPT !.free = book[to].free + amount] = b
      BY <1>1 DEF Books, Balance
    <3> QED
      BY <1>5, <3>1 DEF CreditLeg, CreditBalance
  <2>2. CreditLeg(book, leg) \in Books
    <3> HIDE DEF b, to
    <3> QED
      BY <1>1, <1>3, <2>1 DEF Books, to
  <2>3. \A a \in Accounts : CreditLeg(book, leg)[a] = IF to = a THEN b ELSE book[a]
    <3> HIDE DEF b
    <3> QED
      BY <1>1, <2>1 DEF Books
  <2> QED
    BY <1>2, <2>2, <2>3
<1> QED
  BY <1>4, <1>5

-----------------------------------------------------------------------------
(***************************************************************************)
(* The loops over reservations and legs.                                   *)
(***************************************************************************)

\* What the first reservations on a list come to.
HeldUpTo(a, rs, i) == SumFunctionOnSet(Held(a, rs), 1..i)

LEMMA HeldParts ==
  ASSUME NEW rs \in Seq(Reservation), NEW a
  PROVE  /\ ReservedOn(a, rs) = HeldUpTo(a, rs, Len(rs))
         /\ HeldUpTo(a, rs, 0) = 0
         /\ \A i \in 0..Len(rs) : /\ HeldUpTo(a, rs, i) \in Nat
                                /\ HeldUpTo(a, rs, i) <= ReservedOn(a, rs)
         /\ \A i \in 1..Len(rs) :
              HeldUpTo(a, rs, i)
                = HeldUpTo(a, rs, i - 1) + (IF rs[i].account = a THEN rs[i].amount ELSE 0)
<1> DEFINE n == Len(rs)
<1>1. n \in Nat
  OBVIOUS
<1>2. \A i \in 1..n : Held(a, rs)[i] = IF rs[i].account = a THEN rs[i].amount ELSE 0
  BY DEF Held
<1>3. \A i \in 1..n : Held(a, rs)[i] \in Nat
  BY HeldTyped
<1>4. ReservedOn(a, rs) = SumFunctionOnSet(Held(a, rs), 1..n)
  BY HeldTyped
<1> HIDE DEF n
<1>5. /\ SumFunctionOnSet(Held(a, rs), 1..0) = 0
      /\ \A i \in 0..n :
           /\ SumFunctionOnSet(Held(a, rs), 1..i) \in Nat
           /\ SumFunctionOnSet(Held(a, rs), 1..i) <= SumFunctionOnSet(Held(a, rs), 1..n)
      /\ \A i \in 1..n : SumFunctionOnSet(Held(a, rs), 1..i)
           = SumFunctionOnSet(Held(a, rs), 1..(i - 1)) + Held(a, rs)[i]
  BY <1>1, <1>3, SumPrefixes
<1> QED
  BY <1>2, <1>4, <1>5 DEF HeldUpTo, n

\* What the first legs of an opportunity spend.
SpentUpTo(a, o, i) == SumFunctionOnSet(Spent(a, o), 1..i)

LEMMA SpentParts ==
  ASSUME NEW o \in Opportunities, NEW a
  PROVE  /\ SpentOn(a, o) = SpentUpTo(a, o, Len(o.legs))
         /\ SpentUpTo(a, o, 0) = 0
         /\ \A i \in 0..Len(o.legs) : /\ SpentUpTo(a, o, i) \in Nat
                                /\ SpentUpTo(a, o, i) <= SpentOn(a, o)
         /\ \A i \in 1..Len(o.legs) :
              SpentUpTo(a, o, i)
                = SpentUpTo(a, o, i - 1) + (IF SpentAccount(o.legs[i]) = a THEN SpentAmount(o.legs[i]) ELSE 0)
<1> DEFINE n == Len(o.legs)
<1>1. n \in Nat
  BY LegsOf
<1>2. \A i \in 1..n : Spent(a, o)[i] = IF SpentAccount(o.legs[i]) = a THEN SpentAmount(o.legs[i]) ELSE 0
  BY LegsOf DEF Spent
<1>3. \A i \in 1..n : Spent(a, o)[i] \in Nat
  BY SpentTyped
<1>4. SpentOn(a, o) = SumFunctionOnSet(Spent(a, o), 1..n)
  BY SpentTyped
<1> HIDE DEF n
<1>5. /\ SumFunctionOnSet(Spent(a, o), 1..0) = 0
      /\ \A i \in 0..n :
           /\ SumFunctionOnSet(Spent(a, o), 1..i) \in Nat
           /\ SumFunctionOnSet(Spent(a, o), 1..i) <= SumFunctionOnSet(Spent(a, o), 1..n)
      /\ \A i \in 1..n : SumFunctionOnSet(Spent(a, o), 1..i)
           = SumFunctionOnSet(Spent(a, o), 1..(i - 1)) + Spent(a, o)[i]
  BY <1>1, <1>3, SumPrefixes
<1> QED
  BY <1>2, <1>4, <1>5 DEF SpentUpTo, n

\* What the first legs of an opportunity receive.
ReceivedUpTo(a, o, i) == SumFunctionOnSet(Received(a, o), 1..i)

LEMMA ReceivedParts ==
  ASSUME NEW o \in Opportunities, NEW a
  PROVE  /\ ReceivedOn(a, o) = ReceivedUpTo(a, o, Len(o.legs))
         /\ ReceivedUpTo(a, o, 0) = 0
         /\ \A i \in 0..Len(o.legs) : /\ ReceivedUpTo(a, o, i) \in Nat
                                /\ ReceivedUpTo(a, o, i) <= ReceivedOn(a, o)
         /\ \A i \in 1..Len(o.legs) :
              ReceivedUpTo(a, o, i)
                = ReceivedUpTo(a, o, i - 1) + (IF ReceivedAccount(o.legs[i]) = a THEN ReceivedAmount(o.legs[i]) ELSE 0)
<1> DEFINE n == Len(o.legs)
<1>1. n \in Nat
  BY LegsOf
<1>2. \A i \in 1..n : Received(a, o)[i] = IF ReceivedAccount(o.legs[i]) = a THEN ReceivedAmount(o.legs[i]) ELSE 0
  BY LegsOf DEF Received
<1>3. \A i \in 1..n : Received(a, o)[i] \in Nat
  BY ReceivedTyped
<1>4. ReceivedOn(a, o) = SumFunctionOnSet(Received(a, o), 1..n)
  BY ReceivedTyped
<1> HIDE DEF n
<1>5. /\ SumFunctionOnSet(Received(a, o), 1..0) = 0
      /\ \A i \in 0..n :
           /\ SumFunctionOnSet(Received(a, o), 1..i) \in Nat
           /\ SumFunctionOnSet(Received(a, o), 1..i) <= SumFunctionOnSet(Received(a, o), 1..n)
      /\ \A i \in 1..n : SumFunctionOnSet(Received(a, o), 1..i)
           = SumFunctionOnSet(Received(a, o), 1..(i - 1)) + Received(a, o)[i]
  BY <1>1, <1>3, SumPrefixes
<1> QED
  BY <1>2, <1>4, <1>5 DEF ReceivedUpTo, n

\* Releasing a list of reservations that is locked gives back its sum.
LEMMA ReleaseAllEffect ==
  ASSUME NEW book \in Books, NEW rs \in Seq(Reservation),
         \A a \in Accounts : ReservedOn(a, rs) <= book[a].locked
  PROVE  /\ ReleaseAll(book, rs) \in Books
         /\ \A a \in Accounts :
              /\ ReleaseAll(book, rs)[a].free = book[a].free + ReservedOn(a, rs)
              /\ ReleaseAll(book, rs)[a].locked = book[a].locked - ReservedOn(a, rs)
<1> DEFINE n == Len(rs)
<1>1. n \in Nat /\ n \in 0..n /\ DOMAIN rs = 1..n /\ \A i \in 1..n : rs[i] \in Reservation
  OBVIOUS
<1>2. PICK acc : /\ acc[0] = book
                 /\ \A i \in 1..n : acc[i] = ReleaseBalance(acc[i - 1], rs[i])
                 /\ ReleaseAll(book, rs) = acc[n]
  <2>1. ReleaseAll(book, rs) = Releasing!Folded(book, rs)
    BY DEF ReleaseAll, Releasing!Folded, FoldLeft, MapThenFoldSet, Max
  <2> HIDE DEF n
  <2>2. \E acc : /\ acc[0] = book
                 /\ \A i \in 1..n : acc[i] = ReleaseBalance(acc[i - 1], rs[i])
                 /\ Releasing!Folded(book, rs) = acc[n]
    BY <1>1, Releasing!FoldSteps, SMTT(30)
  <2> QED
    BY <2>1, <2>2
<1> DEFINE Moved(i) ==
             /\ acc[i] \in Books
             /\ \A a \in Accounts :
                  /\ acc[i][a].free = book[a].free + HeldUpTo(a, rs, i)
                  /\ acc[i][a].locked = book[a].locked - HeldUpTo(a, rs, i)
           moved == {i \in 0..n : Moved(i)}
<1>3. \A a \in Accounts : book[a].free \in Nat /\ book[a].locked \in Nat
  BY DEF Books, Balance
<1>4. 0 \in moved
  BY <1>1, <1>2, <1>3, HeldParts
<1>5. ASSUME NEW i \in 1..n, i - 1 \in moved
      PROVE  i \in moved
  <2> DEFINE r == rs[i]
             before == acc[i - 1]
  <2>1. /\ r \in Reservation /\ r.account \in Accounts /\ r.amount \in Nat
        /\ i \in 0..n /\ i - 1 \in 0..n
    BY <1>1 DEF Reservation
  <2>2. Moved(i - 1)
    BY <1>5
  <2>3. \A a \in Accounts :
          /\ HeldUpTo(a, rs, i) = HeldUpTo(a, rs, i - 1) + (IF r.account = a THEN r.amount ELSE 0)
          /\ HeldUpTo(a, rs, i - 1) \in Nat
          /\ HeldUpTo(a, rs, i) \in Nat
          /\ HeldUpTo(a, rs, i) <= ReservedOn(a, rs)
          /\ ReservedOn(a, rs) \in Nat
    BY <2>1, HeldParts, HeldTyped
  <2>4. before \in Books /\ r.amount <= before[r.account].locked
    <3>1. /\ before[r.account].locked = book[r.account].locked - HeldUpTo(r.account, rs, i - 1)
          /\ HeldUpTo(r.account, rs, i) = HeldUpTo(r.account, rs, i - 1) + r.amount
          /\ HeldUpTo(r.account, rs, i) <= book[r.account].locked
      BY <1>3, <2>1, <2>2, <2>3
    <3> QED
      BY <1>3, <2>1, <2>2, <2>3, <3>1
  <2>5. acc[i] = ReleaseBalance(before, r)
    BY <1>2
  <2> HIDE DEF r, before
  <2>6. /\ acc[i] \in Books
        /\ \A a \in Accounts :
             LET amount == IF r.account = a THEN r.amount ELSE 0
             IN /\ acc[i][a].free = before[a].free + amount
                /\ acc[i][a].locked = before[a].locked - amount
    BY <2>1, <2>4, <2>5, ReleaseEffect
  <2>7. ASSUME NEW a \in Accounts
        PROVE  /\ acc[i][a].free = book[a].free + HeldUpTo(a, rs, i)
               /\ acc[i][a].locked = book[a].locked - HeldUpTo(a, rs, i)
    <3> DEFINE amount == IF r.account = a THEN r.amount ELSE 0
    <3>1. /\ acc[i][a].free = before[a].free + amount
          /\ acc[i][a].locked = before[a].locked - amount
      BY <2>6
    <3>2. /\ before[a].free = book[a].free + HeldUpTo(a, rs, i - 1)
          /\ before[a].locked = book[a].locked - HeldUpTo(a, rs, i - 1)
      BY <2>2 DEF before
    <3>3. /\ HeldUpTo(a, rs, i) = HeldUpTo(a, rs, i - 1) + amount
          /\ HeldUpTo(a, rs, i - 1) \in Nat /\ amount \in Nat
          /\ book[a].free \in Nat /\ book[a].locked \in Nat
      BY <1>3, <2>1, <2>3
    <3> QED
      BY <3>1, <3>2, <3>3
  <2> QED
    BY <2>1, <2>6, <2>7
<1>6. n \in moved
  <2> HIDE DEF n, moved
  <2> QED
    BY <1>1, <1>4, <1>5, InductionTo
<1> QED
  BY <1>2, <1>6, HeldParts

\* Settling one takes its sum out of what is locked.
LEMMA SettleAllEffect ==
  ASSUME NEW book \in Books, NEW rs \in Seq(Reservation),
         \A a \in Accounts : ReservedOn(a, rs) <= book[a].locked
  PROVE  /\ SettleAll(book, rs) \in Books
         /\ \A a \in Accounts :
              /\ SettleAll(book, rs)[a].free = book[a].free
              /\ SettleAll(book, rs)[a].locked = book[a].locked - ReservedOn(a, rs)
<1> DEFINE n == Len(rs)
<1>1. n \in Nat /\ n \in 0..n /\ DOMAIN rs = 1..n /\ \A i \in 1..n : rs[i] \in Reservation
  OBVIOUS
<1>2. PICK acc : /\ acc[0] = book
                 /\ \A i \in 1..n : acc[i] = SettleBalance(acc[i - 1], rs[i])
                 /\ SettleAll(book, rs) = acc[n]
  <2>1. SettleAll(book, rs) = Settling!Folded(book, rs)
    BY DEF SettleAll, Settling!Folded, FoldLeft, MapThenFoldSet, Max
  <2> HIDE DEF n
  <2>2. \E acc : /\ acc[0] = book
                 /\ \A i \in 1..n : acc[i] = SettleBalance(acc[i - 1], rs[i])
                 /\ Settling!Folded(book, rs) = acc[n]
    BY <1>1, Settling!FoldSteps, SMTT(30)
  <2> QED
    BY <2>1, <2>2
<1> DEFINE Moved(i) ==
             /\ acc[i] \in Books
             /\ \A a \in Accounts :
                  /\ acc[i][a].free = book[a].free
                  /\ acc[i][a].locked = book[a].locked - HeldUpTo(a, rs, i)
           moved == {i \in 0..n : Moved(i)}
<1>3. \A a \in Accounts : book[a].free \in Nat /\ book[a].locked \in Nat
  BY DEF Books, Balance
<1>4. 0 \in moved
  BY <1>1, <1>2, <1>3, HeldParts
<1>5. ASSUME NEW i \in 1..n, i - 1 \in moved
      PROVE  i \in moved
  <2> DEFINE r == rs[i]
             before == acc[i - 1]
  <2>1. /\ r \in Reservation /\ r.account \in Accounts /\ r.amount \in Nat
        /\ i \in 0..n /\ i - 1 \in 0..n
    BY <1>1 DEF Reservation
  <2>2. Moved(i - 1)
    BY <1>5
  <2>3. \A a \in Accounts :
          /\ HeldUpTo(a, rs, i) = HeldUpTo(a, rs, i - 1) + (IF r.account = a THEN r.amount ELSE 0)
          /\ HeldUpTo(a, rs, i - 1) \in Nat
          /\ HeldUpTo(a, rs, i) \in Nat
          /\ HeldUpTo(a, rs, i) <= ReservedOn(a, rs)
          /\ ReservedOn(a, rs) \in Nat
    BY <2>1, HeldParts, HeldTyped
  <2>4. before \in Books /\ r.amount <= before[r.account].locked
    <3>1. /\ before[r.account].locked = book[r.account].locked - HeldUpTo(r.account, rs, i - 1)
          /\ HeldUpTo(r.account, rs, i) = HeldUpTo(r.account, rs, i - 1) + r.amount
          /\ HeldUpTo(r.account, rs, i) <= book[r.account].locked
      BY <1>3, <2>1, <2>2, <2>3
    <3> QED
      BY <1>3, <2>1, <2>2, <2>3, <3>1
  <2>5. acc[i] = SettleBalance(before, r)
    BY <1>2
  <2> HIDE DEF r, before
  <2>6. /\ acc[i] \in Books
        /\ \A a \in Accounts :
             LET amount == IF r.account = a THEN r.amount ELSE 0
             IN /\ acc[i][a].free = before[a].free
                /\ acc[i][a].locked = before[a].locked - amount
    BY <2>1, <2>4, <2>5, SettleEffect
  <2>7. ASSUME NEW a \in Accounts
        PROVE  /\ acc[i][a].free = book[a].free
               /\ acc[i][a].locked = book[a].locked - HeldUpTo(a, rs, i)
    <3> DEFINE amount == IF r.account = a THEN r.amount ELSE 0
    <3>1. /\ acc[i][a].free = before[a].free
          /\ acc[i][a].locked = before[a].locked - amount
      BY <2>6
    <3>2. /\ before[a].free = book[a].free
          /\ before[a].locked = book[a].locked - HeldUpTo(a, rs, i - 1)
      BY <2>2 DEF before
    <3>3. /\ HeldUpTo(a, rs, i) = HeldUpTo(a, rs, i - 1) + amount
          /\ HeldUpTo(a, rs, i - 1) \in Nat /\ amount \in Nat
          /\ book[a].free \in Nat /\ book[a].locked \in Nat
      BY <1>3, <2>1, <2>3
    <3> QED
      BY <3>1, <3>2, <3>3
  <2> QED
    BY <2>1, <2>6, <2>7
<1>6. n \in moved
  <2> HIDE DEF n, moved
  <2> QED
    BY <1>1, <1>4, <1>5, InductionTo
<1> QED
  BY <1>2, <1>6, HeldParts

\* Crediting a fill adds what its legs receive.
LEMMA CreditAllEffect ==
  ASSUME NEW book \in Books, NEW o \in Opportunities
  PROVE  /\ CreditAll(book, o) \in Books
         /\ \A a \in Accounts :
              /\ CreditAll(book, o)[a].free = book[a].free + ReceivedOn(a, o)
              /\ CreditAll(book, o)[a].locked = book[a].locked
<1> DEFINE n == Len(o.legs)
<1>1. /\ n \in Nat /\ n \in 0..n /\ DOMAIN o.legs = 1..n
      /\ \A i \in 1..n : o.legs[i] \in Leg
  BY LegsOf
<1>2. PICK acc : /\ acc[0] = book
                 /\ \A i \in 1..n : acc[i] = CreditLeg(acc[i - 1], o.legs[i])
                 /\ CreditAll(book, o) = acc[n]
  <2>1. CreditAll(book, o) = Crediting!Folded(book, o.legs)
    BY DEF CreditAll, Crediting!Folded, FoldLeft, MapThenFoldSet, Max
  <2> DEFINE seq == o.legs
  <2> HIDE DEF n, seq
  <2>2. \E acc : /\ acc[0] = book
                 /\ \A i \in 1..n : acc[i] = CreditLeg(acc[i - 1], seq[i])
                 /\ Crediting!Folded(book, seq) = acc[n]
    <3>1. DOMAIN seq = 1..n
      BY <1>1 DEF seq
    <3> QED
      BY <1>1, <3>1, Crediting!FoldSteps, SMTT(30)
  <2> QED
    BY <2>1, <2>2 DEF seq
<1> DEFINE Moved(i) ==
             /\ acc[i] \in Books
             /\ \A a \in Accounts :
                  /\ acc[i][a].free = book[a].free + ReceivedUpTo(a, o, i)
                  /\ acc[i][a].locked = book[a].locked
           moved == {i \in 0..n : Moved(i)}
<1>3. \A a \in Accounts : book[a].free \in Nat /\ book[a].locked \in Nat
  BY DEF Books, Balance
<1>4. 0 \in moved
  BY <1>1, <1>2, <1>3, ReceivedParts
<1>5. ASSUME NEW i \in 1..n, i - 1 \in moved
      PROVE  i \in moved
  <2> DEFINE leg == o.legs[i]
             before == acc[i - 1]
  <2>1. leg \in Leg /\ i \in 0..n /\ i - 1 \in 0..n
    BY <1>1
  <2>2. Moved(i - 1)
    BY <1>5
  <2>3. \A a \in Accounts :
          /\ ReceivedUpTo(a, o, i) = ReceivedUpTo(a, o, i - 1)
               + (IF ReceivedAccount(leg) = a THEN ReceivedAmount(leg) ELSE 0)
          /\ ReceivedUpTo(a, o, i - 1) \in Nat
    BY <2>1, ReceivedParts
  <2>4. before \in Books /\ acc[i] = CreditLeg(before, leg)
    BY <1>2, <2>2
  <2> HIDE DEF leg, before
  <2>5. /\ acc[i] \in Books
        /\ \A a \in Accounts :
             LET amount == IF ReceivedAccount(leg) = a THEN ReceivedAmount(leg) ELSE 0
             IN /\ acc[i][a].free = before[a].free + amount
                /\ acc[i][a].locked = before[a].locked
    BY <2>1, <2>4, CreditEffect
  <2>6. ASSUME NEW a \in Accounts
        PROVE  /\ acc[i][a].free = book[a].free + ReceivedUpTo(a, o, i)
               /\ acc[i][a].locked = book[a].locked
    <3> DEFINE amount == IF ReceivedAccount(leg) = a THEN ReceivedAmount(leg) ELSE 0
    <3>1. /\ acc[i][a].free = before[a].free + amount
          /\ acc[i][a].locked = before[a].locked
      BY <2>5
    <3>2. /\ before[a].free = book[a].free + ReceivedUpTo(a, o, i - 1)
          /\ before[a].locked = book[a].locked
      BY <2>2 DEF before
    <3>3. /\ ReceivedUpTo(a, o, i) = ReceivedUpTo(a, o, i - 1) + amount
          /\ ReceivedUpTo(a, o, i - 1) \in Nat /\ amount \in Nat
          /\ book[a].free \in Nat
      BY <1>3, <2>1, <2>3, LegAmounts
    <3> QED
      BY <3>1, <3>2, <3>3
  <2> QED
    BY <2>1, <2>5, <2>6
<1>6. n \in moved
  <2> HIDE DEF n, moved
  <2> QED
    BY <1>1, <1>4, <1>5, InductionTo
<1> QED
  BY <1>2, <1>6, ReceivedParts

-----------------------------------------------------------------------------
(***************************************************************************)
(* Reserving an opportunity's legs, and giving up on one.                  *)
(***************************************************************************)

Attempt == [ok : BOOLEAN, inv : Books, reserved : Seq(Reservation)]

LegReservation(leg) == [account |-> SpentAccount(leg), amount |-> SpentAmount(leg)]

LEMMA RefusedAttempt ==
  ASSUME NEW t \in Attempt, NEW x
  PROVE  [t EXCEPT !.ok = x] = [ok |-> x, inv |-> t.inv, reserved |-> t.reserved]
BY DEF Attempt

LEMMA ExtendedAttempt ==
  ASSUME NEW t \in Attempt, NEW x, NEW y
  PROVE  [t EXCEPT !.inv = x, !.reserved = y] = [ok |-> t.ok, inv |-> x, reserved |-> y]
<1> DEFINE u == [t EXCEPT !.inv = x]
<1>1. u = [ok |-> t.ok, inv |-> x, reserved |-> t.reserved]
  BY DEF Attempt
<1>2. u \in [ok : BOOLEAN, inv : {x}, reserved : Seq(Reservation)]
  BY <1>1 DEF Attempt
<1>3. [t EXCEPT !.inv = x, !.reserved = y] = [u EXCEPT !.reserved = y]
  OBVIOUS
<1> HIDE DEF u
<1>4. [u EXCEPT !.reserved = y] = [ok |-> u.ok, inv |-> u.inv, reserved |-> y]
  BY <1>2
<1> QED
  BY <1>1, <1>3, <1>4

\* The three ways a leg can go.
LEMMA ReserveLegEffect ==
  ASSUME NEW attempt \in Attempt, NEW leg \in Leg
  PROVE  LET r == LegReservation(leg)
         IN /\ r \in Reservation
            /\ ~attempt.ok \/ r.amount = 0 => ReserveLeg(attempt, leg) = attempt
            /\ attempt.ok /\ r.amount # 0 /\ ~CanReserve(attempt.inv, r) =>
                 ReserveLeg(attempt, leg)
                   = [ok |-> FALSE, inv |-> attempt.inv, reserved |-> attempt.reserved]
            /\ attempt.ok /\ r.amount # 0 /\ CanReserve(attempt.inv, r) =>
                 ReserveLeg(attempt, leg)
                   = [ok |-> TRUE, inv |-> ReserveBalance(attempt.inv, r),
                      reserved |-> Append(attempt.reserved, r)]
<1> DEFINE r == LegReservation(leg)
<1>1. r \in Reservation
  BY LegAmounts DEF Reservation, LegReservation
<1>2. ReserveLeg(attempt, leg) =
        IF ~attempt.ok \/ r.amount = 0 THEN attempt
        ELSE IF ~CanReserve(attempt.inv, r) THEN [attempt EXCEPT !.ok = FALSE]
        ELSE [attempt EXCEPT !.inv = ReserveBalance(attempt.inv, r),
                             !.reserved = Append(attempt.reserved, r)]
  BY DEF ReserveLeg, LegReservation
<1> HIDE DEF r
<1>3. [attempt EXCEPT !.ok = FALSE]
        = [ok |-> FALSE, inv |-> attempt.inv, reserved |-> attempt.reserved]
  <2> DEFINE no == FALSE
  <2> HIDE DEF no
  <2>1. [attempt EXCEPT !.ok = no]
          = [ok |-> no, inv |-> attempt.inv, reserved |-> attempt.reserved]
    BY RefusedAttempt
  <2> QED
    BY <2>1 DEF no
<1>4. attempt.ok =>
        [attempt EXCEPT !.inv = ReserveBalance(attempt.inv, r),
                        !.reserved = Append(attempt.reserved, r)]
        = [ok |-> TRUE, inv |-> ReserveBalance(attempt.inv, r),
           reserved |-> Append(attempt.reserved, r)]
  <2>1. [attempt EXCEPT !.inv = ReserveBalance(attempt.inv, r),
                        !.reserved = Append(attempt.reserved, r)]
        = [ok |-> attempt.ok, inv |-> ReserveBalance(attempt.inv, r),
           reserved |-> Append(attempt.reserved, r)]
    BY ExtendedAttempt
  <2>2. attempt.ok => attempt.ok = TRUE
    BY DEF Attempt
  <2> QED
    BY <2>1, <2>2
<1>5. /\ r \in Reservation
      /\ ~attempt.ok \/ r.amount = 0 => ReserveLeg(attempt, leg) = attempt
      /\ attempt.ok /\ r.amount # 0 /\ ~CanReserve(attempt.inv, r) =>
           ReserveLeg(attempt, leg)
             = [ok |-> FALSE, inv |-> attempt.inv, reserved |-> attempt.reserved]
      /\ attempt.ok /\ r.amount # 0 /\ CanReserve(attempt.inv, r) =>
           ReserveLeg(attempt, leg)
             = [ok |-> TRUE, inv |-> ReserveBalance(attempt.inv, r),
                reserved |-> Append(attempt.reserved, r)]
  BY <1>1, <1>2, <1>3, <1>4
<1> QED
  BY <1>5 DEF r

\* What an attempt has taken is what it has recorded, on every account; while
\* it succeeds that is what the legs so far spend, and it fails only if the
\* legs together spend more than an account has free.
Faithful(attempt, book, o, i) ==
  /\ attempt \in Attempt
  /\ \A a \in Accounts :
       /\ attempt.inv[a].free = book[a].free - ReservedOn(a, attempt.reserved)
       /\ attempt.inv[a].locked = book[a].locked + ReservedOn(a, attempt.reserved)
  /\ attempt.ok => \A a \in Accounts : ReservedOn(a, attempt.reserved) = SpentUpTo(a, o, i)
  /\ ~attempt.ok => \E a \in Accounts : SpentOn(a, o) > book[a].free

LEMMA FaithfulLeg ==
  ASSUME NEW book \in Books, NEW o \in Opportunities, NEW i \in 1..Len(o.legs),
         NEW before, Faithful(before, book, o, i - 1)
  PROVE  Faithful(ReserveLeg(before, o.legs[i]), book, o, i)
<1> DEFINE leg == o.legs[i]
           r == LegReservation(leg)
           after == ReserveLeg(before, leg)
<1>1. leg \in Leg /\ before \in Attempt
  BY LegsOf DEF Faithful
<1>2. /\ i \in 0..Len(o.legs) /\ i - 1 \in 0..Len(o.legs)
      /\ \A a \in Accounts : book[a].free \in Nat /\ book[a].locked \in Nat
  BY LegsOf DEF Books, Balance
<1>3. \A a \in Accounts :
        /\ SpentUpTo(a, o, i) = SpentUpTo(a, o, i - 1) + (IF r.account = a THEN r.amount ELSE 0)
        /\ SpentUpTo(a, o, i - 1) \in Nat
        /\ SpentUpTo(a, o, i) \in Nat
        /\ SpentUpTo(a, o, i) <= SpentOn(a, o)
        /\ SpentOn(a, o) \in Nat
  BY <1>2, SpentParts, SpentTyped DEF LegReservation
<1>4. /\ r \in Reservation
      /\ ~before.ok \/ r.amount = 0 => after = before
      /\ before.ok /\ r.amount # 0 /\ ~CanReserve(before.inv, r) =>
           after = [ok |-> FALSE, inv |-> before.inv, reserved |-> before.reserved]
      /\ before.ok /\ r.amount # 0 /\ CanReserve(before.inv, r) =>
           after = [ok |-> TRUE, inv |-> ReserveBalance(before.inv, r),
                    reserved |-> Append(before.reserved, r)]
  <2> HIDE DEF leg
  <2> QED
    BY <1>1, ReserveLegEffect
<1>5. r.account \in Accounts /\ r.amount \in Nat
  BY <1>4 DEF Reservation
<1>6. /\ before.ok \in BOOLEAN /\ before.inv \in Books /\ before.reserved \in Seq(Reservation)
      /\ \A a \in Accounts : ReservedOn(a, before.reserved) \in Nat
  BY <1>1, HeldTyped DEF Attempt
<1> SUFFICES Faithful(after, book, o, i)
  OBVIOUS
<1> HIDE DEF leg, r, after
<1>7. CASE ~before.ok
  BY <1>4, <1>7 DEF Faithful
<1>8. CASE before.ok /\ r.amount = 0
  <2>1. after = before
    BY <1>4, <1>8
  <2>2. \A a \in Accounts : SpentUpTo(a, o, i) = SpentUpTo(a, o, i - 1)
    BY <1>3, <1>8
  <2> QED
    BY <2>1, <2>2 DEF Faithful
<1>9. CASE before.ok /\ r.amount # 0 /\ ~CanReserve(before.inv, r)
  <2>1. /\ after.ok = FALSE /\ after.inv = before.inv /\ after.reserved = before.reserved
        /\ after \in Attempt
    <3>1. after = [ok |-> FALSE, inv |-> before.inv, reserved |-> before.reserved]
      BY <1>4, <1>9
    <3> QED
      BY <1>6, <3>1 DEF Attempt
  <2>2. SpentOn(r.account, o) > book[r.account].free
    <3>1. before.inv[r.account].free = book[r.account].free - ReservedOn(r.account, before.reserved)
      BY <1>5 DEF Faithful
    <3>2. ReservedOn(r.account, before.reserved) = SpentUpTo(r.account, o, i - 1)
      BY <1>5, <1>9 DEF Faithful
    <3>3. before.inv[r.account].free < r.amount
      <4>1. before.inv[r.account].free \in Nat
        BY <1>5, <1>6 DEF Books, Balance
      <4> QED
        BY <1>5, <1>9, <4>1 DEF CanReserve
    <3>4. /\ SpentUpTo(r.account, o, i) = SpentUpTo(r.account, o, i - 1) + r.amount
          /\ SpentUpTo(r.account, o, i) <= SpentOn(r.account, o)
          /\ SpentUpTo(r.account, o, i) \in Nat /\ SpentOn(r.account, o) \in Nat
          /\ SpentUpTo(r.account, o, i - 1) \in Nat /\ book[r.account].free \in Nat
      BY <1>2, <1>3, <1>5
    <3> QED
      BY <1>5, <3>1, <3>2, <3>3, <3>4
  <2> QED
    BY <1>5, <2>1, <2>2 DEF Faithful
<1>10. CASE before.ok /\ r.amount # 0 /\ CanReserve(before.inv, r)
  <2>1. /\ after.ok /\ after.inv = ReserveBalance(before.inv, r)
        /\ after.reserved = Append(before.reserved, r)
    BY <1>4, <1>10
  <2>2. /\ after.inv \in Books
        /\ \A a \in Accounts :
             LET amount == IF r.account = a THEN r.amount ELSE 0
             IN /\ after.inv[a].free = before.inv[a].free - amount
                /\ after.inv[a].locked = before.inv[a].locked + amount
    BY <1>4, <1>6, <1>10, <2>1, ReserveEffect
  <2>3. after \in Attempt
    <3> DEFINE x == ReserveBalance(before.inv, r)
               y == Append(before.reserved, r)
    <3>1. x \in Books /\ y \in Seq(Reservation)
      BY <1>4, <1>6, <2>1, <2>2
    <3>2. after = [ok |-> TRUE, inv |-> x, reserved |-> y]
      BY <1>4, <1>10
    <3> HIDE DEF x, y
    <3> QED
      BY <3>1, <3>2 DEF Attempt
  <2>4. ASSUME NEW a \in Accounts
        PROVE  /\ ReservedOn(a, after.reserved) = SpentUpTo(a, o, i)
               /\ after.inv[a].free = book[a].free - ReservedOn(a, after.reserved)
               /\ after.inv[a].locked = book[a].locked + ReservedOn(a, after.reserved)
    <3> DEFINE amount == IF r.account = a THEN r.amount ELSE 0
    <3>1. ReservedOn(a, after.reserved) = ReservedOn(a, before.reserved) + amount
      BY <1>4, <1>6, <2>1, HeldOneMore
    <3>2. /\ after.inv[a].free = before.inv[a].free - amount
          /\ after.inv[a].locked = before.inv[a].locked + amount
      BY <2>2
    <3>3. /\ before.inv[a].free = book[a].free - ReservedOn(a, before.reserved)
          /\ before.inv[a].locked = book[a].locked + ReservedOn(a, before.reserved)
          /\ ReservedOn(a, before.reserved) = SpentUpTo(a, o, i - 1)
      BY <1>10 DEF Faithful
    <3>4. /\ SpentUpTo(a, o, i) = SpentUpTo(a, o, i - 1) + amount
          /\ SpentUpTo(a, o, i - 1) \in Nat /\ amount \in Nat
          /\ book[a].free \in Nat /\ book[a].locked \in Nat
      BY <1>2, <1>3, <1>5
    <3> HIDE DEF amount
    <3> QED
      BY <3>1, <3>2, <3>3, <3>4
  <2> QED
    BY <2>1, <2>3, <2>4 DEF Faithful
<1> QED
  BY <1>6, <1>7, <1>8, <1>9, <1>10

\* An attempt succeeds exactly when every account can pay for all the legs
\* together, and then has recorded what each account pays.
LEMMA ReserveLegsEffect ==
  ASSUME NEW book \in Books, NEW o \in Opportunities
  PROVE  LET attempt == ReserveLegs(book, o)
         IN /\ Faithful(attempt, book, o, Len(o.legs))
            /\ attempt.ok =>
                 \A a \in Accounts : /\ ReservedOn(a, attempt.reserved) = SpentOn(a, o)
                                     /\ SpentOn(a, o) <= book[a].free
<1> DEFINE n == Len(o.legs)
           seq == o.legs
           base == [ok |-> TRUE, inv |-> book, reserved |-> <<>>]
           attempt == ReserveLegs(book, o)
<1>1. n \in Nat /\ n \in 0..n /\ DOMAIN seq = 1..n
  BY LegsOf
<1>2. PICK acc : /\ acc[0] = base
                 /\ \A i \in 1..n : acc[i] = ReserveLeg(acc[i - 1], seq[i])
                 /\ attempt = acc[n]
  <2>1. attempt = Reserving!Folded(base, seq)
    BY DEF ReserveLegs, Reserving!Folded, FoldLeft, MapThenFoldSet, Max
  <2> HIDE DEF n, seq, base, attempt
  <2>2. \E acc : /\ acc[0] = base
                 /\ \A i \in 1..n : acc[i] = ReserveLeg(acc[i - 1], seq[i])
                 /\ Reserving!Folded(base, seq) = acc[n]
    BY <1>1, Reserving!FoldSteps, SMTT(30)
  <2> QED
    BY <2>1, <2>2
<1> DEFINE faithful == {i \in 0..n : Faithful(acc[i], book, o, i)}
<1>3. 0 \in faithful
  <2>1. base \in Attempt /\ base.ok /\ base.inv = book /\ base.reserved = <<>>
    BY DEF Attempt
  <2>2. \A a \in Accounts :
          /\ ReservedOn(a, <<>>) = 0 /\ SpentUpTo(a, o, 0) = 0
          /\ book[a].free \in Nat /\ book[a].locked \in Nat
    BY HeldNothing, SpentParts DEF Books, Balance
  <2> HIDE DEF base
  <2>3. Faithful(base, book, o, 0)
    BY <2>1, <2>2 DEF Faithful
  <2> QED
    BY <1>1, <1>2, <2>3
<1>4. ASSUME NEW i \in 1..n, i - 1 \in faithful
      PROVE  i \in faithful
  <2>1. Faithful(acc[i - 1], book, o, i - 1) /\ i \in 0..n
    BY <1>1, <1>4
  <2>2. acc[i] = ReserveLeg(acc[i - 1], o.legs[i])
    BY <1>2
  <2>3. Faithful(ReserveLeg(acc[i - 1], o.legs[i]), book, o, i)
    BY <2>1, FaithfulLeg
  <2> QED
    BY <2>1, <2>2, <2>3
<1>5. n \in faithful
  <2> HIDE DEF n, faithful
  <2> QED
    BY <1>1, <1>3, <1>4, InductionTo
<1>6. Faithful(attempt, book, o, n)
  BY <1>2, <1>5
<1>7. ASSUME attempt.ok, NEW a \in Accounts
      PROVE  /\ ReservedOn(a, attempt.reserved) = SpentOn(a, o)
             /\ SpentOn(a, o) <= book[a].free
  <2>1. ReservedOn(a, attempt.reserved) = SpentOn(a, o)
    BY <1>6, <1>7, SpentParts DEF Faithful
  <2>2. attempt.inv[a].free = book[a].free - SpentOn(a, o) /\ attempt.inv[a].free \in Nat
    BY <1>6, <2>1 DEF Faithful, Attempt, Books, Balance
  <2>3. SpentOn(a, o) \in Nat /\ book[a].free \in Nat
    BY SpentTyped DEF Books, Balance
  <2> QED
    BY <2>1, <2>2, <2>3
<1> QED
  BY <1>6, <1>7

-----------------------------------------------------------------------------
(***************************************************************************)
(* Choosing among a tick's opportunities.                                  *)
(***************************************************************************)

Choice ==
  [inv : Books, reservations : [Opportunities -> Seq(Reservation) \cup {None}],
   accepted : Seq(Opportunities)]

LEMMA SameBook ==
  ASSUME NEW b \in Books, NEW c \in Books,
         \A a \in Accounts : b[a].free = c[a].free /\ b[a].locked = c[a].locked
  PROVE  b = c
<1>1. ASSUME NEW a \in Accounts
      PROVE  b[a] = c[a]
  BY DEF Books, Balance
<1> QED
  BY <1>1 DEF Books

\* An opportunity is accepted with its whole cost reserved, or nothing of it
\* stays behind and some account was too short for it.
LEMMA ConsiderEffect ==
  ASSUME NEW sofar \in Choice, NEW o \in Opportunities
  PROVE  \/ /\ Consider(sofar, o) = sofar
            /\ \E a \in Accounts : SpentOn(a, o) > sofar.inv[a].free
         \/ \E book \in Books, rs \in Seq(Reservation) :
              /\ Consider(sofar, o)
                   = [inv |-> book,
                      reservations |-> [sofar.reservations EXCEPT ![o] = rs],
                      accepted |-> Append(sofar.accepted, o)]
              /\ \A a \in Accounts :
                   /\ ReservedOn(a, rs) = SpentOn(a, o)
                   /\ book[a].free = sofar.inv[a].free - SpentOn(a, o)
                   /\ book[a].locked = sofar.inv[a].locked + SpentOn(a, o)
<1> DEFINE attempt == ReserveLegs(sofar.inv, o)
<1>1. sofar.inv \in Books
  BY DEF Choice
<1>2. /\ Faithful(attempt, sofar.inv, o, Len(o.legs))
      /\ attempt.ok => \A a \in Accounts : ReservedOn(a, attempt.reserved) = SpentOn(a, o)
  BY <1>1, ReserveLegsEffect
<1>3. Consider(sofar, o) =
        IF attempt.ok
        THEN [inv |-> attempt.inv,
              reservations |-> [sofar.reservations EXCEPT ![o] = attempt.reserved],
              accepted |-> Append(sofar.accepted, o)]
        ELSE [sofar EXCEPT !.inv = ReleaseAll(attempt.inv, attempt.reserved)]
  BY DEF Consider
<1> HIDE DEF attempt
<1>4. attempt.inv \in Books /\ attempt.reserved \in Seq(Reservation) /\ attempt.ok \in BOOLEAN
  BY <1>2 DEF Faithful, Attempt
<1>5. CASE attempt.ok
  <2>1. \A a \in Accounts :
          /\ ReservedOn(a, attempt.reserved) = SpentOn(a, o)
          /\ attempt.inv[a].free = sofar.inv[a].free - SpentOn(a, o)
          /\ attempt.inv[a].locked = sofar.inv[a].locked + SpentOn(a, o)
    BY <1>2, <1>5 DEF Faithful
  <2>2. Consider(sofar, o)
          = [inv |-> attempt.inv,
             reservations |-> [sofar.reservations EXCEPT ![o] = attempt.reserved],
             accepted |-> Append(sofar.accepted, o)]
    BY <1>3, <1>5
  <2> QED
    BY <1>4, <2>1, <2>2
<1>6. CASE ~attempt.ok
  <2> DEFINE back == ReleaseAll(attempt.inv, attempt.reserved)
  <2>1. \A a \in Accounts :
          /\ attempt.inv[a].free = sofar.inv[a].free - ReservedOn(a, attempt.reserved)
          /\ attempt.inv[a].locked = sofar.inv[a].locked + ReservedOn(a, attempt.reserved)
          /\ ReservedOn(a, attempt.reserved) \in Nat
          /\ sofar.inv[a].free \in Nat /\ sofar.inv[a].locked \in Nat
    BY <1>1, <1>2, <1>4, HeldTyped DEF Faithful, Books, Balance
  <2>2. \A a \in Accounts : ReservedOn(a, attempt.reserved) <= attempt.inv[a].locked
    BY <2>1
  <2>3. /\ back \in Books
        /\ \A a \in Accounts :
             /\ back[a].free = attempt.inv[a].free + ReservedOn(a, attempt.reserved)
             /\ back[a].locked = attempt.inv[a].locked - ReservedOn(a, attempt.reserved)
    BY <1>4, <2>2, ReleaseAllEffect
  <2> HIDE DEF back
  <2>4. \A a \in Accounts :
          back[a].free = sofar.inv[a].free /\ back[a].locked = sofar.inv[a].locked
    BY <2>1, <2>3
  <2>5. back = sofar.inv
    BY <1>1, <2>3, <2>4, SameBook
  <2>6. Consider(sofar, o) = [sofar EXCEPT !.inv = back]
    BY <1>3, <1>6 DEF back
  <2>7. [sofar EXCEPT !.inv = sofar.inv] = sofar
    BY DEF Choice
  <2>8. \E a \in Accounts : SpentOn(a, o) > sofar.inv[a].free
    BY <1>2, <1>6 DEF Faithful
  <2> QED
    BY <2>5, <2>6, <2>7, <2>8
<1> QED
  BY <1>4, <1>5, <1>6

-----------------------------------------------------------------------------
(***************************************************************************)
(* A whole selection.                                                      *)
(***************************************************************************)

\* What a set of opportunities spends on an account.
Cost(a, S) == SumFunctionOnSet([o \in Opportunities |-> SpentOn(a, o)], S)

LEMMA CostFacts ==
  ASSUME NEW S \in SUBSET Opportunities, NEW a
  PROVE  /\ Cost(a, {}) = 0
         /\ Cost(a, S) \in Nat
         /\ \A o \in Opportunities \ S : Cost(a, S \cup {o}) = Cost(a, S) + SpentOn(a, o)
<1> DEFINE f == [o \in Opportunities |-> SpentOn(a, o)]
<1>1. IsFiniteSet(S)
  BY DetectionsAreFinite, FS_Subset
<1>2. /\ \A o \in Opportunities : f[o] = SpentOn(a, o) /\ f[o] \in Int /\ f[o] >= 0
      /\ \A o \in S : f[o] \in Int /\ f[o] >= 0
  BY SpentTyped
<1> HIDE DEF f
<1>3. SumFunctionOnSet(f, S) \in Int /\ SumFunctionOnSet(f, S) >= 0
  BY <1>1, <1>2, SumType
<1>4. ASSUME NEW o \in Opportunities \ S
      PROVE  SumFunctionOnSet(f, S \cup {o}) = SumFunctionOnSet(f, S) + SpentOn(a, o)
  <2>1. o \notin S /\ f[o] = SpentOn(a, o) /\ f[o] \in Int /\ \A y \in S : f[y] \in Int
    BY <1>2
  <2>2. SumFunctionOnSet(f, S \cup {o}) = SumFunctionOnSet(f, S) + f[o]
    BY <1>1, <2>1, SumInsert
  <2> QED
    BY <2>1, <2>2
<1> QED
  BY <1>3, <1>4, SumEmpty DEF Cost, f

LEMMA RangeOfAppend ==
  ASSUME NEW s \in Seq(Opportunities), NEW o \in Opportunities
  PROVE  ToSet(Append(s, o)) = ToSet(s) \cup {o}
<1>1. /\ Append(s, o) \in Seq(Opportunities) /\ Len(Append(s, o)) = Len(s) + 1
      /\ Len(s) \in Nat /\ DOMAIN s = 1..Len(s) /\ DOMAIN Append(s, o) = 1..(Len(s) + 1)
      /\ \A i \in 1..Len(s) : Append(s, o)[i] = s[i]
      /\ Append(s, o)[Len(s) + 1] = o
  OBVIOUS
<1>2. ToSet(s) = {s[i] : i \in 1..Len(s)}
  BY <1>1 DEF ToSet
<1>3. ToSet(Append(s, o)) = {Append(s, o)[i] : i \in 1..(Len(s) + 1)}
  BY <1>1 DEF ToSet
<1> QED
  BY <1>1, <1>2, <1>3

NoRepeats(s) == \A i, j \in DOMAIN s : i # j => s[i] # s[j]

\* After k of the order's opportunities: those accepted are among them, each
\* with its whole cost reserved, and every one passed over costs more than
\* those accepted before it have left on some account.
Selected(s, book, order, k) ==
  /\ s \in Choice
  /\ ToSet(s.accepted) \subseteq {order[j] : j \in 1..k}
  /\ NoRepeats(s.accepted)
  /\ \A o \in Opportunities :
       /\ s.reservations[o] # None <=> o \in ToSet(s.accepted)
       /\ s.reservations[o] # None =>
            \A a \in Accounts : ReservedOn(a, s.reservations[o]) = SpentOn(a, o)
  /\ \A a \in Accounts :
       /\ s.inv[a].free = book[a].free - Cost(a, ToSet(s.accepted))
       /\ s.inv[a].locked = book[a].locked + Cost(a, ToSet(s.accepted))
  /\ \A i \in 1..k : order[i] \notin ToSet(s.accepted) =>
       \E a \in Accounts :
         SpentOn(a, order[i])
           + Cost(a, ToSet(s.accepted) \cap {order[j] : j \in 1..(i - 1)}) > book[a].free

LEMMA SelectedStep ==
  ASSUME NEW n \in Nat, NEW order \in [1..n -> Opportunities], NoRepeats(order),
         NEW book \in Books, NEW k \in 1..n, NEW s, Selected(s, book, order, k - 1)
  PROVE  Selected(Consider(s, order[k]), book, order, k)
<1> DEFINE o == order[k]
           T == ToSet(s.accepted)
           next == Consider(s, o)
           first(i) == {order[j] : j \in 1..i}
<1>1. o \in Opportunities /\ s \in Choice
  BY DEF Selected
<1>2. /\ s.inv \in Books /\ s.accepted \in Seq(Opportunities)
      /\ s.reservations \in [Opportunities -> Seq(Reservation) \cup {None}]
  BY <1>1 DEF Choice
<1>3. T \in SUBSET Opportunities
  BY <1>2 DEF ToSet
<1>4. o \notin first(k - 1)
  BY DEF NoRepeats
<1>5. T \subseteq first(k - 1) /\ o \notin T
  BY <1>4 DEF Selected
<1>6. first(k - 1) \subseteq first(k) /\ o \in first(k)
  OBVIOUS
<1>7. \A a \in Accounts :
        /\ s.inv[a].free = book[a].free - Cost(a, T)
        /\ s.inv[a].locked = book[a].locked + Cost(a, T)
        /\ book[a].free \in Nat /\ book[a].locked \in Nat
        /\ Cost(a, T) \in Nat /\ SpentOn(a, o) \in Nat
        /\ Cost(a, T \cup {o}) = Cost(a, T) + SpentOn(a, o)
  BY <1>1, <1>3, <1>5, CostFacts, SpentTyped DEF Selected, Books, Balance
<1>8. \A i \in 1..(k - 1) : order[i] \notin T =>
        \E a \in Accounts : SpentOn(a, order[i]) + Cost(a, T \cap first(i - 1)) > book[a].free
  BY DEF Selected
<1>9. \A i \in 1..k : i = k \/ i \in 1..(k - 1)
  OBVIOUS
<1>10. CASE /\ next = s
            /\ \E a \in Accounts : SpentOn(a, o) > s.inv[a].free
  <2>1. T \cap first(k - 1) = T
    BY <1>5
  <2>2. \E a \in Accounts : SpentOn(a, o) + Cost(a, T \cap first(k - 1)) > book[a].free
    <3>1. PICK a \in Accounts : SpentOn(a, o) > s.inv[a].free
      BY <1>10
    <3>2. SpentOn(a, o) + Cost(a, T) > book[a].free
      BY <1>7, <3>1
    <3> QED
      BY <2>1, <3>2
  <2>3. \A i \in 1..k : order[i] \notin T =>
          \E a \in Accounts : SpentOn(a, order[i]) + Cost(a, T \cap first(i - 1)) > book[a].free
    <3> HIDE DEF T, first
    <3> QED
      BY <1>8, <1>9, <2>2
  <2>4. T \subseteq first(k)
    BY <1>5, <1>6
  <2>5. Selected(s, book, order, k)
    BY <2>3, <2>4 DEF Selected
  <2> QED
    BY <1>10, <2>5
<1>11. CASE \E b \in Books, rs \in Seq(Reservation) :
              /\ next = [inv |-> b,
                         reservations |-> [s.reservations EXCEPT ![o] = rs],
                         accepted |-> Append(s.accepted, o)]
              /\ \A a \in Accounts :
                   /\ ReservedOn(a, rs) = SpentOn(a, o)
                   /\ b[a].free = s.inv[a].free - SpentOn(a, o)
                   /\ b[a].locked = s.inv[a].locked + SpentOn(a, o)
  <2>1. PICK b \in Books, rs \in Seq(Reservation) :
          /\ next = [inv |-> b,
                     reservations |-> [s.reservations EXCEPT ![o] = rs],
                     accepted |-> Append(s.accepted, o)]
          /\ \A a \in Accounts :
               /\ ReservedOn(a, rs) = SpentOn(a, o)
               /\ b[a].free = s.inv[a].free - SpentOn(a, o)
               /\ b[a].locked = s.inv[a].locked + SpentOn(a, o)
    BY <1>11
  <2> HIDE DEF next, o
  <2> DEFINE R == [s.reservations EXCEPT ![o] = rs]
             A == Append(s.accepted, o)
  <2>2. next.inv = b /\ next.reservations = R /\ next.accepted = A
    BY <2>1
  <2>3. /\ R \in [Opportunities -> Seq(Reservation) \cup {None}]
        /\ \A p \in Opportunities : R[p] = IF p = o THEN rs ELSE s.reservations[p]
    BY <1>1, <1>2, <2>1
  <2>4. A \in Seq(Opportunities) /\ ToSet(A) = T \cup {o}
    BY <1>1, <1>2, RangeOfAppend
  <2>5. next \in Choice
    <3> HIDE DEF R, A
    <3> QED
      BY <2>1, <2>3, <2>4 DEF Choice, R, A
  <2>6. NoRepeats(A)
    <3>1. /\ Len(s.accepted) \in Nat /\ DOMAIN s.accepted = 1..Len(s.accepted)
          /\ DOMAIN A = 1..(Len(s.accepted) + 1)
          /\ \A i \in 1..Len(s.accepted) : A[i] = s.accepted[i] /\ s.accepted[i] \in T
          /\ A[Len(s.accepted) + 1] = o
      BY <1>1, <1>2 DEF ToSet
    <3>2. \A i, j \in 1..Len(s.accepted) : i # j => s.accepted[i] # s.accepted[j]
      BY <3>1 DEF Selected, NoRepeats
    <3> HIDE DEF A, T
    <3> SUFFICES ASSUME NEW i \in 1..(Len(s.accepted) + 1),
                        NEW j \in 1..(Len(s.accepted) + 1), i # j
                 PROVE  A[i] # A[j]
      BY <3>1 DEF NoRepeats
    <3>3. /\ i = Len(s.accepted) + 1 \/ i \in 1..Len(s.accepted)
          /\ j = Len(s.accepted) + 1 \/ j \in 1..Len(s.accepted)
      <4> DEFINE m == Len(s.accepted)
      <4>1. m \in Nat /\ i \in 1..(m + 1) /\ j \in 1..(m + 1)
        BY <3>1
      <4> HIDE DEF m
      <4>2. (i = m + 1 \/ i \in 1..m) /\ (j = m + 1 \/ j \in 1..m)
        BY <4>1
      <4> QED
        BY <4>2 DEF m
    <3>4. o \notin T
      BY <1>5
    <3> QED
      BY <3>1, <3>2, <3>3, <3>4
  <2>7. ASSUME NEW p \in Opportunities
        PROVE  /\ R[p] # None <=> p \in T \cup {o}
               /\ R[p] # None => \A a \in Accounts : ReservedOn(a, R[p]) = SpentOn(a, p)
    <3>1. rs # None
      BY <2>1, DetectionsAreFinite
    <3>2. /\ s.reservations[p] # None <=> p \in T
          /\ s.reservations[p] # None =>
               \A a \in Accounts : ReservedOn(a, s.reservations[p]) = SpentOn(a, p)
      BY DEF Selected
    <3>3. CASE p = o
      BY <2>1, <2>3, <3>1, <3>3
    <3>4. CASE p # o
      BY <2>3, <3>2, <3>4
    <3> QED
      BY <3>3, <3>4
  <2>8. \A a \in Accounts :
          /\ b[a].free = book[a].free - Cost(a, T \cup {o})
          /\ b[a].locked = book[a].locked + Cost(a, T \cup {o})
    <3> SUFFICES ASSUME NEW a \in Accounts
                 PROVE  /\ b[a].free = book[a].free - Cost(a, T \cup {o})
                        /\ b[a].locked = book[a].locked + Cost(a, T \cup {o})
      OBVIOUS
    <3>1. /\ b[a].free = s.inv[a].free - SpentOn(a, o)
          /\ b[a].locked = s.inv[a].locked + SpentOn(a, o)
      BY <2>1
    <3> HIDE DEF T
    <3>2. /\ s.inv[a].free = book[a].free - Cost(a, T)
          /\ s.inv[a].locked = book[a].locked + Cost(a, T)
          /\ book[a].free \in Nat /\ book[a].locked \in Nat
          /\ Cost(a, T) \in Nat /\ SpentOn(a, o) \in Nat
          /\ Cost(a, T \cup {o}) = Cost(a, T) + SpentOn(a, o)
      BY <1>7
    <3> QED
      BY <3>1, <3>2
  <2>9. ASSUME NEW i \in 1..k, order[i] \notin T \cup {o}
        PROVE  \E a \in Accounts :
                 SpentOn(a, order[i]) + Cost(a, (T \cup {o}) \cap first(i - 1)) > book[a].free
    <3>1. i \in 1..(k - 1) /\ order[i] \notin T
      BY <1>9, <2>9 DEF o
    <3>2. first(i - 1) \subseteq first(k - 1)
      BY <3>1
    <3>3. (T \cup {o}) \cap first(i - 1) = T \cap first(i - 1)
      BY <1>4, <3>2
    <3> QED
      BY <1>8, <3>1, <3>3
  <2>10. T \cup {o} \subseteq first(k)
    BY <1>5, <1>6
  <2> HIDE DEF T
  <2>11. Selected(next, book, order, k)
    BY <2>2, <2>4, <2>5, <2>6, <2>7, <2>8, <2>9, <2>10 DEF Selected
  <2> QED
    BY <2>11 DEF next, o
<1> QED
  BY <1>1, <1>10, <1>11, ConsiderEffect

LEMMA ChoosingSteps ==
  ASSUME NEW base \in Choice, NEW n \in Nat,
         NEW order \in [1..n -> Opportunities], DOMAIN order = 1..n
  PROVE  \E acc :
           /\ acc[0] = base
           /\ \A i \in 1..n : acc[i] = Consider(acc[i - 1], order[i])
           /\ Choosing!Folded(base, order) = acc[n]
BY Choosing!FoldSteps, SMTT(30)

LEMMA SelectionEffect ==
  ASSUME NEW n \in Nat, NEW order \in [1..n -> Opportunities], NoRepeats(order),
         NEW book \in Books
  PROVE  Selected(Selection(book, order), book, order, n)
<1> DEFINE base == [inv |-> book, reservations |-> NoReservations, accepted |-> <<>>]
           result == Selection(book, order)
<1>1. n \in 0..n /\ DOMAIN order = 1..n /\ n \in Nat
  OBVIOUS
<1>2. PICK acc : /\ acc[0] = base
                 /\ \A i \in 1..n : acc[i] = Consider(acc[i - 1], order[i])
                 /\ result = acc[n]
  <2>1. result = Choosing!Folded(base, order)
    BY DEF Selection, Choosing!Folded, FoldLeft, MapThenFoldSet, Max
  <2>3. base \in Choice
    BY DEF Choice, NoReservations
  <2> HIDE DEF base, result
  <2>2. \E acc : /\ acc[0] = base
                 /\ \A i \in 1..n : acc[i] = Consider(acc[i - 1], order[i])
                 /\ Choosing!Folded(base, order) = acc[n]
    BY <1>1, <2>3, ChoosingSteps
  <2> QED
    BY <2>1, <2>2
<1> DEFINE done == {k \in 0..n : Selected(acc[k], book, order, k)}
<1>3. 0 \in done
  <2>1. base \in Choice /\ base.inv = book /\ base.accepted = <<>>
        /\ \A o \in Opportunities : base.reservations[o] = None
    BY DEF Choice, NoReservations
  <2>2. ToSet(<<>>) = {} /\ NoRepeats(<<>>) /\ 1..0 = {}
    BY DEF ToSet, NoRepeats
  <2>3. \A a \in Accounts : /\ Cost(a, {}) = 0
                            /\ book[a].free \in Nat /\ book[a].locked \in Nat
    BY CostFacts DEF Books, Balance
  <2> HIDE DEF base
  <2>4. Selected(base, book, order, 0)
    <3>1. ToSet(base.accepted) = {} /\ NoRepeats(base.accepted)
      BY <2>1, <2>2
    <3>2. \A a \in Accounts :
            /\ base.inv[a].free = book[a].free - Cost(a, {})
            /\ base.inv[a].locked = book[a].locked + Cost(a, {})
      BY <2>1, <2>3
    <3>3. \A i \in 1..0 : FALSE
      BY <2>2
    <3> QED
      BY <2>1, <3>1, <3>2, <3>3 DEF Selected
  <2> QED
    BY <1>1, <1>2, <2>4
<1>4. ASSUME NEW k \in 1..n, k - 1 \in done
      PROVE  k \in done
  <2>1. Selected(acc[k - 1], book, order, k - 1) /\ k \in 0..n
    BY <1>1, <1>4
  <2>2. Selected(Consider(acc[k - 1], order[k]), book, order, k)
    BY <2>1, SelectedStep
  <2> QED
    BY <1>2, <2>1, <2>2
<1>5. n \in done
  <2> HIDE DEF done
  <2> QED
    BY <1>1, <1>3, <1>4, InductionTo
<1> QED
  BY <1>2, <1>5

-----------------------------------------------------------------------------
(***************************************************************************)
(* The sums the invariants are about.                                      *)
(***************************************************************************)

\* What a tick's reservations hold on an account.
Open(a, rs) ==
  SumFunctionOnSet([o \in Opportunities |->
                      IF rs[o] = None THEN 0 ELSE ReservedOn(a, rs[o])],
                   Opportunities)

ReservationMaps == [Opportunities -> Seq(Reservation) \cup {None}]

LEMMA OpenIsOpenOn ==
  ASSUME NEW a
  PROVE  OpenOn(a) = Open(a, reservations)
BY DEF OpenOn, Open, SumFunction

LEMMA OpenTyped ==
  ASSUME NEW rs \in ReservationMaps, NEW a
  PROVE  Open(a, rs) \in Nat
<1> DEFINE f == [o \in Opportunities |->
                   IF rs[o] = None THEN 0 ELSE ReservedOn(a, rs[o])]
<1>1. \A o \in Opportunities : f[o] \in Int /\ f[o] >= 0
  BY HeldTyped DEF ReservationMaps
<1>2. Open(a, rs) = SumFunctionOnSet(f, Opportunities)
  BY DEF Open
<1> HIDE DEF f
<1> QED
  BY <1>1, <1>2, DetectionsAreFinite, SumType

\* One opportunity's reservation removed.
LEMMA OpenWithout ==
  ASSUME NEW rs \in ReservationMaps, NEW o \in Opportunities, NEW a
  PROVE  LET left == [rs EXCEPT ![o] = None]
             held == IF rs[o] = None THEN 0 ELSE ReservedOn(a, rs[o])
         IN /\ left \in ReservationMaps
            /\ Open(a, left) = Open(a, rs) - held
            /\ held \in Nat
            /\ held <= Open(a, rs)
<1> DEFINE left == [rs EXCEPT ![o] = None]
           held == IF rs[o] = None THEN 0 ELSE ReservedOn(a, rs[o])
           f == [p \in Opportunities |->
                   IF rs[p] = None THEN 0 ELSE ReservedOn(a, rs[p])]
           g == [p \in Opportunities |->
                   IF left[p] = None THEN 0 ELSE ReservedOn(a, left[p])]
<1>1. left \in ReservationMaps /\ left[o] = None
      /\ \A p \in Opportunities \ {o} : left[p] = rs[p]
  BY DEF ReservationMaps
<1>2. /\ \A p \in Opportunities : f[p] \in Int
      /\ f[o] = held /\ held \in Nat
  BY HeldTyped DEF ReservationMaps
<1>3. Open(a, rs) = SumFunctionOnSet(f, Opportunities)
  BY DEF Open
<1>4. Open(a, left) = SumFunctionOnSet(g, Opportunities)
  BY DEF Open
<1> HIDE DEF left
<1>5. g[o] = 0 /\ \A p \in Opportunities \ {o} : g[p] = f[p]
  BY <1>1
<1> HIDE DEF f, g, held
<1>6. Open(a, left) = Open(a, rs) - held
  <2>1. SumFunctionOnSet(g, Opportunities)
          = SumFunctionOnSet(f, Opportunities) + (g[o] - f[o])
    BY <1>2, <1>5, DetectionsAreFinite, SumChange
  <2>2. Open(a, rs) \in Nat
    BY OpenTyped
  <2> QED
    BY <1>2, <1>3, <1>4, <1>5, <2>1, <2>2
<1>7. Open(a, left) \in Nat /\ Open(a, rs) \in Nat
  BY <1>1, OpenTyped
<1>8. held <= Open(a, rs)
  BY <1>2, <1>6, <1>7
<1> QED
  BY <1>1, <1>2, <1>6, <1>8 DEF left, held

LEMMA OpenNothing ==
  ASSUME NEW rs, \A o \in Opportunities : rs[o] = None, NEW a
  PROVE  Open(a, rs) = 0
<1> DEFINE f == [o \in Opportunities |->
                   IF rs[o] = None THEN 0 ELSE ReservedOn(a, rs[o])]
<1>1. \A o \in Opportunities : f[o] = 0
  OBVIOUS
<1>2. Open(a, rs) = SumFunctionOnSet(f, Opportunities)
  BY DEF Open
<1> HIDE DEF f
<1> QED
  BY <1>1, <1>2, DetectionsAreFinite, SumZero

\* Reservations that cover a set of opportunities hold what these cost.
LEMMA OpenIsCost ==
  ASSUME NEW rs \in ReservationMaps, NEW T \in SUBSET Opportunities, NEW a,
         \A o \in Opportunities :
           /\ rs[o] # None <=> o \in T
           /\ rs[o] # None => ReservedOn(a, rs[o]) = SpentOn(a, o)
  PROVE  Open(a, rs) = Cost(a, T)
<1> DEFINE f == [o \in Opportunities |->
                   IF rs[o] = None THEN 0 ELSE ReservedOn(a, rs[o])]
           g == [o \in Opportunities |-> SpentOn(a, o)]
<1>1. /\ \A o \in Opportunities : f[o] \in Int
      /\ \A o \in Opportunities \ T : f[o] = 0
      /\ \A o \in T : f[o] = g[o]
  BY SpentTyped
<1>2. Open(a, rs) = SumFunctionOnSet(f, Opportunities)
  BY DEF Open
<1>3. Cost(a, T) = SumFunctionOnSet(g, T)
  BY DEF Cost
<1>4. IsFiniteSet(T)
  BY DetectionsAreFinite, FS_Subset
<1> HIDE DEF f, g
<1>5. SumFunctionOnSet(f, Opportunities) = SumFunctionOnSet(f, T)
  BY <1>1, DetectionsAreFinite, SumOutside
<1>6. SumFunctionOnSet(f, T) = SumFunctionOnSet(g, T)
  BY <1>1, <1>4, SumEqual
<1> QED
  BY <1>2, <1>3, <1>5, <1>6

\* What the trades settled so far spent, and received, on an account.
Paid(a, fs) == SumFunctionOnSet([n \in DOMAIN fs |-> SpentOn(a, fs[n])], DOMAIN fs)

Earned(a, fs) == SumFunctionOnSet([n \in DOMAIN fs |-> ReceivedOn(a, fs[n])], DOMAIN fs)

LEMMA PaidTyped ==
  ASSUME NEW fs \in Seq(Opportunities), NEW a
  PROVE  Paid(a, fs) \in Int /\ Earned(a, fs) \in Int
<1> DEFINE f == [n \in DOMAIN fs |-> SpentOn(a, fs[n])]
           g == [n \in DOMAIN fs |-> ReceivedOn(a, fs[n])]
           S == DOMAIN fs
<1>1. IsFiniteSet(S)
  <2>1. S = 1..Len(fs) /\ Len(fs) \in Nat
    OBVIOUS
  <2> QED
    BY <2>1, FS_Interval
<1>2. \A n \in S : f[n] \in Int /\ g[n] \in Int
  <2> SUFFICES ASSUME NEW n \in S
               PROVE  f[n] \in Int /\ g[n] \in Int
    OBVIOUS
  <2>1. fs[n] \in Opportunities
    OBVIOUS
  <2> QED
    BY <2>1, SpentTyped, ReceivedTyped
<1>3. Paid(a, fs) = SumFunctionOnSet(f, S) /\ Earned(a, fs) = SumFunctionOnSet(g, S)
  BY DEF Paid, Earned
<1> HIDE DEF f, g, S
<1>4. SumFunctionOnSet(f, S) \in Int
  BY <1>1, <1>2, SumType
<1>5. SumFunctionOnSet(g, S) \in Int
  BY <1>1, <1>2, SumType
<1> QED
  BY <1>3, <1>4, <1>5

LEMMA PaidNothing ==
  ASSUME NEW a
  PROVE  Paid(a, <<>>) = 0 /\ Earned(a, <<>>) = 0
<1>1. DOMAIN <<>> = {}
  OBVIOUS
<1> QED
  BY <1>1, SumEmpty DEF Paid, Earned

LEMMA PaidOneMore ==
  ASSUME NEW fs \in Seq(Opportunities), NEW o \in Opportunities, NEW a
  PROVE  /\ Paid(a, Append(fs, o)) = Paid(a, fs) + SpentOn(a, o)
         /\ Earned(a, Append(fs, o)) = Earned(a, fs) + ReceivedOn(a, o)
<1> DEFINE n == Len(fs)
           more == Append(fs, o)
           f == [i \in DOMAIN fs |-> SpentOn(a, fs[i])]
           f2 == [i \in DOMAIN more |-> SpentOn(a, more[i])]
           g == [i \in DOMAIN fs |-> ReceivedOn(a, fs[i])]
           g2 == [i \in DOMAIN more |-> ReceivedOn(a, more[i])]
<1>1. /\ n \in Nat /\ DOMAIN fs = 1..n /\ DOMAIN more = 1..(n + 1)
      /\ more[n + 1] = o
      /\ \A i \in 1..n : more[i] = fs[i] /\ fs[i] \in Opportunities
  OBVIOUS
<1>2. /\ Paid(a, fs) = SumFunctionOnSet(f, 1..n)
      /\ Earned(a, fs) = SumFunctionOnSet(g, 1..n)
      /\ Paid(a, more) = SumFunctionOnSet(f2, 1..(n + 1))
      /\ Earned(a, more) = SumFunctionOnSet(g2, 1..(n + 1))
  BY <1>1 DEF Paid, Earned
<1> HIDE DEF n, more
<1>3. n + 1 \in 1..(n + 1) /\ \A i \in 1..n : i \in 1..(n + 1)
  BY <1>1
<1>4. /\ \A i \in 1..n : f[i] \in Int /\ f2[i] = f[i]
      /\ \A i \in 1..n : g[i] \in Int /\ g2[i] = g[i]
      /\ f2[n + 1] = SpentOn(a, o) /\ f2[n + 1] \in Int
      /\ g2[n + 1] = ReceivedOn(a, o) /\ g2[n + 1] \in Int
  BY <1>1, <1>3, SpentTyped, ReceivedTyped
<1> HIDE DEF f, f2, g, g2
<1>5. SumFunctionOnSet(f2, 1..(n + 1)) = SumFunctionOnSet(f, 1..n) + f2[n + 1]
  BY <1>1, <1>4, SumExtend
<1>6. SumFunctionOnSet(g2, 1..(n + 1)) = SumFunctionOnSet(g, 1..n) + g2[n + 1]
  BY <1>1, <1>4, SumExtend
<1> QED
  BY <1>2, <1>4, <1>5, <1>6 DEF more

-----------------------------------------------------------------------------
(***************************************************************************)
(* What is in order, and what the head of a list leaves behind.            *)
(***************************************************************************)

LEMMA OrderFacts ==
  ASSUME NEW candidates \in SUBSET Opportunities, NEW order \in SetToSeqs(candidates)
  PROVE  \E n \in Nat : /\ order \in [1..n -> Opportunities]
                        /\ DOMAIN order = 1..n
                        /\ order \in Seq(Opportunities)
                        /\ NoRepeats(order)
                        /\ ToSet(order) \subseteq candidates
<1> DEFINE n == Cardinality(candidates)
<1>1. n \in Nat
  BY DetectionsAreFinite, FS_Subset, FS_CardinalityType
<1>2. /\ order \in [1..n -> candidates]
      /\ \A i, j \in 1..n : i # j => order[i] # order[j]
  BY DEF SetToSeqs
<1> HIDE DEF n
<1>3. order \in [1..n -> Opportunities] /\ DOMAIN order = 1..n
  BY <1>2
<1>4. order \in Seq(Opportunities)
  BY <1>1, <1>3
<1>5. NoRepeats(order)
  BY <1>2, <1>3 DEF NoRepeats
<1>6. ToSet(order) \subseteq candidates
  BY <1>2 DEF ToSet
<1> QED
  BY <1>1, <1>3, <1>4, <1>5, <1>6

LEMMA TailFacts ==
  ASSUME NEW s \in Seq(Opportunities), s # <<>>, NoRepeats(s)
  PROVE  /\ Head(s) \in Opportunities
         /\ Tail(s) \in Seq(Opportunities)
         /\ ToSet(Tail(s)) = ToSet(s) \ {Head(s)}
         /\ NoRepeats(Tail(s))
<1> DEFINE n == Len(s)
           t == Tail(s)
<1>1. /\ n \in Nat /\ n >= 1 /\ DOMAIN s = 1..n
      /\ Head(s) = s[1] /\ s[1] \in Opportunities
      /\ t \in Seq(Opportunities) /\ Len(t) = n - 1 /\ DOMAIN t = 1..(n - 1)
      /\ \A i \in 1..(n - 1) : t[i] = s[i + 1]
  OBVIOUS
<1> HIDE DEF n, t
<1>2. NoRepeats(t)
  <2> SUFFICES ASSUME NEW i \in 1..(n - 1), NEW j \in 1..(n - 1), i # j
               PROVE  t[i] # t[j]
    BY <1>1 DEF NoRepeats
  <2>1. i + 1 \in DOMAIN s /\ j + 1 \in DOMAIN s /\ i + 1 # j + 1
    BY <1>1
  <2> QED
    BY <1>1, <2>1 DEF NoRepeats
<1>3. ASSUME NEW x \in ToSet(t)
      PROVE  x \in ToSet(s) \ {Head(s)}
  <2>1. PICK i \in 1..(n - 1) : x = t[i]
    BY <1>1, <1>3 DEF ToSet
  <2>2. i + 1 \in DOMAIN s /\ 1 \in DOMAIN s /\ i + 1 # 1 /\ x = s[i + 1]
    BY <1>1, <2>1
  <2> QED
    BY <1>1, <2>2 DEF NoRepeats, ToSet
<1>4. ASSUME NEW x \in ToSet(s), x # Head(s)
      PROVE  x \in ToSet(t)
  <2>1. PICK i \in 1..n : x = s[i]
    BY <1>1, <1>4 DEF ToSet
  <2>2. i - 1 \in 1..(n - 1) /\ (i - 1) + 1 = i
    BY <1>1, <1>4, <2>1
  <2>3. x = t[i - 1]
    BY <1>1, <2>1, <2>2
  <2> QED
    BY <1>1, <2>2, <2>3 DEF ToSet
<1> QED
  BY <1>1, <1>2, <1>3, <1>4 DEF t

-----------------------------------------------------------------------------
(***************************************************************************)
(* The router's steps.                                                     *)
(***************************************************************************)

\* The two ledger invariants, with the sums by their names.
Accounted ==
  \A a \in Accounts :
    /\ inv[a].locked = Open(a, reservations)
    /\ inv[a].free + inv[a].locked + Paid(a, fills) = deposited[a] + Earned(a, fills)

Steady == RouterTypeOK /\ ReservationsCoverTrades /\ Accounted

LEMMA RouterInvIsSteady == RouterInv <=> Steady
<1> SUFFICES ASSUME RouterTypeOK
             PROVE  LockedMatchesReservations /\ AccountsAddUp <=> Accounted
  BY DEF RouterInv, Steady
<1>1. \A a \in Accounts : OpenOn(a) = Open(a, reservations)
  BY OpenIsOpenOn
<1>2. \A a : SumFunction([n \in DOMAIN fills |-> SpentOn(a, fills[n])]) = Paid(a, fills)
  BY DEF Paid, SumFunction
<1>3. \A a : SumFunction([n \in DOMAIN fills |-> ReceivedOn(a, fills[n])]) = Earned(a, fills)
  BY DEF Earned, SumFunction
<1>4. \A a \in Accounts : inv[a].free >= 0 /\ inv[a].locked >= 0
  BY DEF RouterTypeOK, Balance
<1> QED
  BY <1>1, <1>2, <1>3, <1>4
  DEF LockedMatchesReservations, AccountsAddUp, Accounted, Total

LEMMA TypedBooks ==
  RouterTypeOK => /\ inv \in Books
                  /\ reservations \in ReservationMaps
                  /\ \A a \in Accounts : inv[a].free \in Nat /\ inv[a].locked \in Nat
BY DEF RouterTypeOK, Books, ReservationMaps, Balance

\* Between ticks no reservation is left, so nothing is locked.
LEMMA NothingOpen ==
  ASSUME Steady, to_execute = <<>>
  PROVE  /\ \A o \in Opportunities : reservations[o] = None
         /\ \A a \in Accounts : inv[a].locked = 0
<1>1. ToSet(to_execute) = {}
  BY DEF ToSet
<1>2. \A o \in Opportunities : reservations[o] = None
  BY <1>1 DEF Steady, ReservationsCoverTrades
<1> QED
  BY <1>2, OpenNothing DEF Steady, Accounted

LEMMA RouterInitSteady == RouterInit => Steady
<1> SUFFICES ASSUME RouterInit
             PROVE  Steady
  OBVIOUS
<1>1. deposited \in [Accounts -> Nat]
  BY RouterConstantsAreTyped DEF RouterInit
<1>2. /\ inv = [a \in Accounts |-> [free |-> deposited[a], locked |-> 0]]
      /\ reservations = NoReservations /\ to_execute = <<>> /\ fills = <<>>
  BY DEF RouterInit
<1>3. \A a \in Accounts : inv[a] = [free |-> deposited[a], locked |-> 0]
  BY <1>2
<1>4. inv \in [Accounts -> Balance]
  <2>1. \A a \in Accounts : [free |-> deposited[a], locked |-> 0] \in Balance
    BY <1>1 DEF Balance
  <2> QED
    BY <1>2, <2>1
<1>5. RouterTypeOK
  BY <1>1, <1>2, <1>4 DEF RouterTypeOK, NoReservations
<1>6. \A o \in Opportunities : reservations[o] = None
  BY <1>2 DEF NoReservations
<1>7. ReservationsCoverTrades
  BY <1>2, <1>6 DEF ReservationsCoverTrades
<1>8. Accounted
  <2> SUFFICES ASSUME NEW a \in Accounts
               PROVE  /\ inv[a].locked = Open(a, reservations)
                      /\ inv[a].free + inv[a].locked + Paid(a, fills)
                           = deposited[a] + Earned(a, fills)
    BY DEF Accounted
  <2>1. Open(a, reservations) = 0
    BY <1>6, OpenNothing
  <2>2. Paid(a, fills) = 0 /\ Earned(a, fills) = 0
    BY <1>2, PaidNothing
  <2>3. inv[a] = [free |-> deposited[a], locked |-> 0] /\ deposited[a] \in Nat
    BY <1>1, <1>3
  <2>4. inv[a].free = deposited[a] /\ inv[a].locked = 0
    BY <2>3
  <2> QED
    BY <2>1, <2>2, <2>3, <2>4
<1> QED
  BY <1>5, <1>7, <1>8 DEF Steady

LEMMA SelectSteady ==
  ASSUME Steady, NEW candidates \in SUBSET Opportunities,
         NEW order \in SetToSeqs(candidates), Select(order)
  PROVE  Steady'
<1> DEFINE s == Selection(inv, order)
           T == ToSet(s.accepted)
<1>1. PICK n \in Nat : order \in [1..n -> Opportunities] /\ NoRepeats(order)
  BY OrderFacts
<1>2. inv \in Books /\ RouterTypeOK
  BY TypedBooks DEF Steady
<1>3. Selected(s, inv, order, n)
  BY <1>1, <1>2, SelectionEffect
<1>4. /\ to_execute = <<>>
      /\ inv' = s.inv /\ reservations' = s.reservations /\ to_execute' = s.accepted
      /\ deposited' = deposited /\ fills' = fills
  BY DEF Select
<1> HIDE DEF s
<1>5. /\ s.inv \in Books /\ s.reservations \in ReservationMaps
      /\ s.accepted \in Seq(Opportunities)
  BY <1>3 DEF Selected, Choice, ReservationMaps
<1>6. T \in SUBSET Opportunities
  BY <1>5 DEF ToSet
<1>7. RouterTypeOK'
  BY <1>2, <1>4, <1>5 DEF RouterTypeOK, Books, ReservationMaps
<1>8. /\ NoRepeats(s.accepted)
      /\ \A o \in Opportunities :
           /\ s.reservations[o] # None <=> o \in T
           /\ s.reservations[o] # None =>
                \A a \in Accounts : ReservedOn(a, s.reservations[o]) = SpentOn(a, o)
  BY <1>3 DEF Selected
<1>9. ReservationsCoverTrades'
  BY <1>4, <1>8 DEF ReservationsCoverTrades, NoRepeats
<1>10. Accounted'
  <2> SUFFICES ASSUME NEW a \in Accounts
               PROVE  /\ s.inv[a].locked = Open(a, s.reservations)
                      /\ s.inv[a].free + s.inv[a].locked + Paid(a, fills)
                           = deposited[a] + Earned(a, fills)
    BY <1>4 DEF Accounted
  <2>1. /\ s.inv[a].free = inv[a].free - Cost(a, T)
        /\ s.inv[a].locked = inv[a].locked + Cost(a, T)
    BY <1>3 DEF Selected
  <2>2. inv[a].locked = 0
    BY <1>4, NothingOpen
  <2>3. Open(a, s.reservations) = Cost(a, T)
    <3> HIDE DEF T
    <3> QED
      BY <1>5, <1>6, <1>8, OpenIsCost
  <2>4. inv[a].free + inv[a].locked + Paid(a, fills) = deposited[a] + Earned(a, fills)
    BY DEF Steady, Accounted
  <2>5. Cost(a, T) \in Nat /\ inv[a].free \in Nat
    BY <1>2, <1>6, CostFacts, TypedBooks
  <2>6. fills \in Seq(Opportunities) /\ deposited[a] \in Int
    BY <1>2 DEF RouterTypeOK
  <2>7. Paid(a, fills) \in Int /\ Earned(a, fills) \in Int
    BY <2>6, PaidTyped
  <2> HIDE DEF T
  <2> QED
    BY <2>1, <2>2, <2>3, <2>4, <2>5, <2>6, <2>7
<1> QED
  BY <1>7, <1>9, <1>10 DEF Steady

LEMMA BypassSteady ==
  ASSUME Steady, NEW candidates \in SUBSET Opportunities,
         NEW order \in SetToSeqs(candidates), Bypass(order)
  PROVE  Steady'
<1>1. order \in Seq(Opportunities) /\ NoRepeats(order)
  BY OrderFacts
<1>2. /\ to_execute = <<>> /\ reservations' = NoReservations /\ to_execute' = order
      /\ inv' = inv /\ deposited' = deposited /\ fills' = fills
  BY DEF Bypass
<1>3. \A o \in Opportunities : reservations'[o] = None
  BY <1>2 DEF NoReservations
<1>4. RouterTypeOK'
  BY <1>1, <1>2 DEF Steady, RouterTypeOK, NoReservations
<1>5. ReservationsCoverTrades'
  BY <1>1, <1>2, <1>3 DEF ReservationsCoverTrades, NoRepeats
<1>6. Accounted'
  <2> SUFFICES ASSUME NEW a \in Accounts
               PROVE  inv[a].locked = Open(a, reservations')
    BY <1>2 DEF Steady, Accounted
  <2> QED
    BY <1>2, <1>3, NothingOpen, OpenNothing
<1> QED
  BY <1>4, <1>5, <1>6 DEF Steady

\* What both ways of handling the head of to_execute have in common.
LEMMA Resolution ==
  ASSUME Steady, NEW o \in Opportunities, Resolve(o)
  PROVE  /\ to_execute' \in Seq(Opportunities)
         /\ reservations' \in ReservationMaps
         /\ ReservationsCoverTrades'
         /\ reservations[o] # None => reservations[o] \in Seq(Reservation)
         /\ \A a \in Accounts :
              LET held == IF reservations[o] = None THEN 0
                          ELSE ReservedOn(a, reservations[o])
              IN /\ Open(a, reservations') = inv[a].locked - held
                 /\ held \in Nat
                 /\ held <= inv[a].locked
                 /\ reservations[o] # None => held = SpentOn(a, o)
<1>1. /\ to_execute # <<>> /\ o = Head(to_execute) /\ to_execute' = Tail(to_execute)
      /\ reservations' = [reservations EXCEPT ![o] = None]
  BY DEF Resolve
<1>2. /\ reservations \in ReservationMaps /\ to_execute \in Seq(Opportunities)
      /\ NoRepeats(to_execute)
  BY TypedBooks DEF Steady, RouterTypeOK, ReservationsCoverTrades, NoRepeats
<1>3. /\ to_execute' \in Seq(Opportunities)
      /\ ToSet(to_execute') = ToSet(to_execute) \ {o}
      /\ NoRepeats(to_execute')
  BY <1>1, <1>2, TailFacts
<1>4. /\ reservations' \in ReservationMaps
      /\ reservations'[o] = None
      /\ \A p \in Opportunities \ {o} : reservations'[p] = reservations[p]
  BY <1>1, <1>2 DEF ReservationMaps
<1>5. ReservationsCoverTrades'
  <2>1. \A p \in Opportunities : reservations[p] # None =>
          /\ p \in ToSet(to_execute)
          /\ \A a \in Accounts : ReservedOn(a, reservations[p]) = SpentOn(a, p)
    BY DEF Steady, ReservationsCoverTrades
  <2>2. ASSUME NEW p \in Opportunities, reservations'[p] # None
        PROVE  /\ p \in ToSet(to_execute')
               /\ \A a \in Accounts : ReservedOn(a, reservations'[p]) = SpentOn(a, p)
    <3>1. p # o /\ reservations'[p] = reservations[p]
      BY <1>4, <2>2
    <3> QED
      BY <1>3, <2>1, <2>2, <3>1
  <2> QED
    BY <1>3, <2>2 DEF ReservationsCoverTrades, NoRepeats
<1>6. reservations[o] # None => reservations[o] \in Seq(Reservation)
  BY <1>2 DEF ReservationMaps
<1>7. ASSUME NEW a \in Accounts
      PROVE  LET held == IF reservations[o] = None THEN 0
                         ELSE ReservedOn(a, reservations[o])
             IN /\ Open(a, reservations') = inv[a].locked - held
                /\ held \in Nat
                /\ held <= inv[a].locked
                /\ reservations[o] # None => held = SpentOn(a, o)
  <2>1. inv[a].locked = Open(a, reservations)
    BY DEF Steady, Accounted
  <2>2. reservations[o] # None => ReservedOn(a, reservations[o]) = SpentOn(a, o)
    BY DEF Steady, ReservationsCoverTrades
  <2> DEFINE held == IF reservations[o] = None THEN 0
                     ELSE ReservedOn(a, reservations[o])
  <2>3. /\ Open(a, [reservations EXCEPT ![o] = None]) = Open(a, reservations) - held
        /\ held \in Nat
        /\ held <= Open(a, reservations)
    BY <1>2, OpenWithout
  <2>4. reservations[o] # None => held = SpentOn(a, o)
    BY <2>2
  <2> HIDE DEF held
  <2>5. /\ Open(a, reservations') = inv[a].locked - held
        /\ held <= inv[a].locked
    BY <1>1, <2>1, <2>3
  <2> QED
    BY <2>3, <2>4, <2>5 DEF held
<1> QED
  BY <1>3, <1>4, <1>5, <1>6, <1>7

LEMMA ReleaseSteady ==
  ASSUME Steady, NEW o \in Opportunities, ReleaseUnfilled(o)
  PROVE  Steady'
<1> DEFINE held(a) == IF reservations[o] = None THEN 0
                      ELSE ReservedOn(a, reservations[o])
<1>1. /\ to_execute' \in Seq(Opportunities)
      /\ reservations' \in ReservationMaps
      /\ ReservationsCoverTrades'
      /\ reservations[o] # None => reservations[o] \in Seq(Reservation)
      /\ \A a \in Accounts : /\ Open(a, reservations') = inv[a].locked - held(a)
                             /\ held(a) \in Nat
                             /\ held(a) <= inv[a].locked
  BY Resolution DEF ReleaseUnfilled
<1>2. /\ inv' = IF reservations[o] = None THEN inv
                ELSE ReleaseAll(inv, reservations[o])
      /\ deposited' = deposited /\ fills' = fills
  BY DEF ReleaseUnfilled
<1>3. /\ inv \in Books /\ RouterTypeOK
      /\ \A a \in Accounts : inv[a].free \in Nat /\ inv[a].locked \in Nat
  BY TypedBooks DEF Steady
<1>4. /\ inv' \in Books
      /\ \A a \in Accounts : /\ inv'[a].free = inv[a].free + held(a)
                             /\ inv'[a].locked = inv[a].locked - held(a)
  <2>1. CASE reservations[o] = None
    <3>1. inv' = inv /\ \A a \in Accounts : held(a) = 0
      BY <1>2, <2>1
    <3> HIDE DEF held
    <3> QED
      BY <1>3, <3>1
  <2>2. CASE reservations[o] # None
    <3>1. /\ inv' = ReleaseAll(inv, reservations[o])
          /\ \A a \in Accounts : held(a) = ReservedOn(a, reservations[o])
          /\ \A a \in Accounts : ReservedOn(a, reservations[o]) <= inv[a].locked
      BY <1>1, <1>2, <2>2
    <3> HIDE DEF held
    <3> QED
      BY <1>1, <1>3, <2>2, <3>1, ReleaseAllEffect
  <2> QED
    BY <2>1, <2>2
<1> HIDE DEF held
<1>5. RouterTypeOK'
  BY <1>1, <1>2, <1>3, <1>4 DEF RouterTypeOK, Books, ReservationMaps
<1>6. Accounted'
  <2> SUFFICES ASSUME NEW a \in Accounts
               PROVE  /\ inv'[a].locked = Open(a, reservations')
                      /\ inv'[a].free + inv'[a].locked + Paid(a, fills)
                           = deposited[a] + Earned(a, fills)
    BY <1>2 DEF Accounted
  <2>1. inv[a].free + inv[a].locked + Paid(a, fills) = deposited[a] + Earned(a, fills)
    BY DEF Steady, Accounted
  <2>2. inv'[a].free + inv'[a].locked = inv[a].free + inv[a].locked
    BY <1>1, <1>3, <1>4
  <2> QED
    BY <1>1, <1>4, <2>1, <2>2
<1> QED
  BY <1>1, <1>5, <1>6 DEF Steady

LEMMA SettleSteady ==
  ASSUME Steady, NEW o \in Opportunities, SettleFill(o)
  PROVE  Steady'
<1> DEFINE held(a) == IF reservations[o] = None THEN 0
                      ELSE ReservedOn(a, reservations[o])
<1>1. /\ to_execute' \in Seq(Opportunities)
      /\ reservations' \in ReservationMaps
      /\ ReservationsCoverTrades'
      /\ reservations[o] # None => reservations[o] \in Seq(Reservation)
      /\ \A a \in Accounts : /\ Open(a, reservations') = inv[a].locked - held(a)
                             /\ held(a) \in Nat
                             /\ held(a) <= inv[a].locked
                             /\ reservations[o] # None => held(a) = SpentOn(a, o)
  BY Resolution DEF SettleFill
<1>2. /\ RouterTypeOK /\ inv \in Books /\ fills \in Seq(Opportunities)
      /\ deposited' = deposited
      /\ \A a \in Accounts : /\ inv[a].free \in Nat /\ inv[a].locked \in Nat
                             /\ deposited[a] \in Int
                             /\ Paid(a, fills) \in Int /\ Earned(a, fills) \in Int
                             /\ SpentOn(a, o) \in Nat /\ ReceivedOn(a, o) \in Nat
  BY TypedBooks, PaidTyped, SpentTyped, ReceivedTyped
  DEF Steady, RouterTypeOK, SettleFill
<1>3. \A a \in Accounts :
        inv[a].free + inv[a].locked + Paid(a, fills) = deposited[a] + Earned(a, fills)
  BY DEF Steady, Accounted
<1>4. CASE HasReservations(o)
  <2> DEFINE rs == reservations[o]
  <2>1. rs # None /\ rs \in Seq(Reservation)
    BY <1>1, <1>4 DEF HasReservations
  <2>2. inv' = CreditAll(SettleAll(inv, rs), o) /\ fills' = Append(fills, o)
    BY <1>4 DEF SettleFill
  <2>3. \A a \in Accounts : /\ ReservedOn(a, rs) <= inv[a].locked
                            /\ ReservedOn(a, rs) = SpentOn(a, o)
                            /\ Open(a, reservations') = inv[a].locked - SpentOn(a, o)
    BY <1>1, <2>1
  <2> HIDE DEF rs
  <2> DEFINE settled == SettleAll(inv, rs)
  <2>4. /\ settled \in Books
        /\ \A a \in Accounts : /\ settled[a].free = inv[a].free
                               /\ settled[a].locked = inv[a].locked - SpentOn(a, o)
    BY <1>2, <2>1, <2>3, SettleAllEffect
  <2> HIDE DEF settled
  <2>5. /\ CreditAll(settled, o) \in Books
        /\ \A a \in Accounts :
             /\ CreditAll(settled, o)[a].free = settled[a].free + ReceivedOn(a, o)
             /\ CreditAll(settled, o)[a].locked = settled[a].locked
    BY <2>4, CreditAllEffect
  <2>6. /\ inv' \in Books
        /\ \A a \in Accounts : /\ inv'[a].free = inv[a].free + ReceivedOn(a, o)
                               /\ inv'[a].locked = inv[a].locked - SpentOn(a, o)
    BY <2>2, <2>4, <2>5 DEF settled
  <2>7. RouterTypeOK'
    BY <1>1, <1>2, <2>2, <2>6 DEF RouterTypeOK, Books, ReservationMaps
  <2>8. Accounted'
    <3> SUFFICES ASSUME NEW a \in Accounts
                 PROVE  /\ inv'[a].locked = Open(a, reservations')
                        /\ inv'[a].free + inv'[a].locked + Paid(a, fills')
                             = deposited[a] + Earned(a, fills')
      BY <1>2 DEF Accounted
    <3>1. /\ Paid(a, fills') = Paid(a, fills) + SpentOn(a, o)
          /\ Earned(a, fills') = Earned(a, fills) + ReceivedOn(a, o)
      BY <1>2, <2>2, PaidOneMore
    <3>2. /\ inv'[a].free = inv[a].free + ReceivedOn(a, o)
          /\ inv'[a].locked = inv[a].locked - SpentOn(a, o)
          /\ Open(a, reservations') = inv[a].locked - SpentOn(a, o)
      BY <2>3, <2>6
    <3>3. /\ inv[a].free \in Nat /\ inv[a].locked \in Nat /\ deposited[a] \in Int
          /\ Paid(a, fills) \in Int /\ Earned(a, fills) \in Int
          /\ SpentOn(a, o) \in Nat /\ ReceivedOn(a, o) \in Nat
          /\ inv[a].free + inv[a].locked + Paid(a, fills) = deposited[a] + Earned(a, fills)
      BY <1>2, <1>3
    <3>4. inv'[a].locked = Open(a, reservations')
      BY <3>2
    <3>5. ASSUME NEW f \in Int, NEW l \in Int, NEW d \in Int, NEW p \in Int,
                 NEW e \in Int, NEW spent \in Int, NEW got \in Int,
                 f + l + p = d + e
          PROVE  (f + got) + (l - spent) + (p + spent) = d + (e + got)
      BY <3>5
    <3>6. (inv[a].free + ReceivedOn(a, o)) + (inv[a].locked - SpentOn(a, o))
            + (Paid(a, fills) + SpentOn(a, o))
              = deposited[a] + (Earned(a, fills) + ReceivedOn(a, o))
      BY <3>3, <3>5
    <3> QED
      BY <3>1, <3>2, <3>4, <3>6
  <2> QED
    BY <1>1, <2>7, <2>8 DEF Steady
<1>5. CASE ~HasReservations(o)
  <2>1. inv' = inv /\ fills' = fills
    BY <1>5 DEF SettleFill
  <2>2. \A a \in Accounts : held(a) = 0
    BY <1>5, HeldNothing DEF HasReservations
  <2>3. RouterTypeOK'
    BY <1>1, <1>2, <2>1 DEF RouterTypeOK, ReservationMaps
  <2> HIDE DEF held
  <2>4. Accounted'
    BY <1>1, <1>2, <1>3, <2>1, <2>2 DEF Accounted
  <2> QED
    BY <1>1, <2>3, <2>4 DEF Steady
<1> QED
  BY <1>4, <1>5

LEMMA SetBalancesSteady ==
  ASSUME Steady, NEW accounts \in SUBSET Accounts, NEW amounts \in [Accounts -> Nat],
         SetBalances(accounts, amounts)
  PROVE  Steady'
<1>1. /\ to_execute = <<>>
      /\ inv' = [a \in Accounts |-> IF a \in accounts
                                    THEN [free |-> amounts[a], locked |-> 0]
                                    ELSE inv[a]]
      /\ deposited' = [a \in Accounts |->
                         deposited[a] + (inv'[a].free + inv'[a].locked)
                                      - (inv[a].free + inv[a].locked)]
      /\ reservations' = reservations /\ to_execute' = to_execute /\ fills' = fills
  BY DEF SetBalances
<1>2. /\ RouterTypeOK /\ inv \in Books /\ fills \in Seq(Opportunities)
      /\ deposited \in [Accounts -> Int]
      /\ \A a \in Accounts : inv[a].free \in Nat /\ inv[a].locked \in Nat
  BY TypedBooks DEF Steady, RouterTypeOK
<1>3. ASSUME NEW a \in Accounts
      PROVE  inv'[a] \in Balance /\ inv'[a].locked = 0
  <2>1. inv[a].locked = 0 /\ inv[a] \in Balance
    BY <1>1, <1>2, NothingOpen DEF Books
  <2>2. [free |-> amounts[a], locked |-> 0] \in Balance
    BY DEF Balance
  <2>3. inv'[a] = IF a \in accounts THEN [free |-> amounts[a], locked |-> 0] ELSE inv[a]
    BY <1>1
  <2> QED
    BY <2>1, <2>2, <2>3
<1>4. inv' \in Books
  <2>1. inv' = [a \in Accounts |-> inv'[a]]
    BY <1>1
  <2> QED
    BY <1>3, <2>1 DEF Books
<1>5. \A a \in Accounts : inv'[a].free \in Nat /\ inv'[a].locked \in Nat
  BY <1>3 DEF Balance
<1>6. \A a \in Accounts :
        deposited'[a] = deposited[a] + (inv'[a].free + inv'[a].locked)
                                     - (inv[a].free + inv[a].locked)
  BY <1>1
<1>7. deposited' \in [Accounts -> Int]
  <2>1. ASSUME NEW a \in Accounts
        PROVE  deposited'[a] \in Int
    <3>1. /\ deposited[a] \in Int
          /\ inv[a].free \in Nat /\ inv[a].locked \in Nat
          /\ inv'[a].free \in Nat /\ inv'[a].locked \in Nat
      BY <1>2, <1>5
    <3>2. deposited'[a] = deposited[a] + (inv'[a].free + inv'[a].locked)
                                       - (inv[a].free + inv[a].locked)
      BY <1>6
    <3> QED
      BY <3>1, <3>2
  <2>2. deposited' = [a \in Accounts |-> deposited'[a]]
    BY <1>1
  <2> QED
    BY <2>1, <2>2
<1>8. RouterTypeOK'
  BY <1>1, <1>2, <1>4, <1>7 DEF RouterTypeOK, Books
<1>9. ReservationsCoverTrades'
  BY <1>1 DEF Steady, ReservationsCoverTrades
<1>10. Accounted'
  <2> SUFFICES ASSUME NEW a \in Accounts
               PROVE  /\ inv'[a].locked = Open(a, reservations)
                      /\ inv'[a].free + inv'[a].locked + Paid(a, fills)
                           = deposited'[a] + Earned(a, fills)
    BY <1>1 DEF Accounted
  <2>1. /\ inv[a].locked = Open(a, reservations)
        /\ inv[a].free + inv[a].locked + Paid(a, fills) = deposited[a] + Earned(a, fills)
    BY DEF Steady, Accounted
  <2>2. inv'[a].locked = inv[a].locked
    BY <1>1, <1>3, NothingOpen
  <2>3. Paid(a, fills) \in Int /\ Earned(a, fills) \in Int /\ deposited[a] \in Int
    BY <1>2, PaidTyped
  <2>4. /\ inv[a].free \in Nat /\ inv[a].locked \in Nat
        /\ inv'[a].free \in Nat /\ inv'[a].locked \in Nat
        /\ deposited'[a] = deposited[a] + (inv'[a].free + inv'[a].locked)
                                         - (inv[a].free + inv[a].locked)
    BY <1>2, <1>5, <1>6
  <2> QED
    BY <2>1, <2>2, <2>3, <2>4
<1> QED
  BY <1>8, <1>9, <1>10 DEF Steady

LEMMA RouterStepSteady == Steady /\ [RouterNext]_routerVars => Steady'
<1> SUFFICES ASSUME Steady, [RouterNext]_routerVars
             PROVE  Steady'
  OBVIOUS
<1>1. ASSUME NEW candidates \in SUBSET Opportunities,
             NEW order \in Rankings(candidates), Select(order)
      PROVE  Steady'
  BY <1>1, SelectSteady DEF Rankings
<1>2. ASSUME NEW candidates \in SUBSET Opportunities,
             NEW order \in SetToSeqs(candidates), Bypass(order)
      PROVE  Steady'
  BY <1>2, BypassSteady
<1>3. ASSUME NEW o \in Opportunities, SettleFill(o) \/ ReleaseUnfilled(o)
      PROVE  Steady'
  BY <1>3, SettleSteady, ReleaseSteady
<1>4. ASSUME NEW accounts \in SUBSET Accounts, NEW amounts \in Openings,
             SetBalances(accounts, amounts)
      PROVE  Steady'
  BY <1>4, SetBalancesSteady, RouterConstantsAreTyped
<1>5. CASE UNCHANGED routerVars
  BY <1>5 DEF routerVars, Steady, RouterTypeOK, ReservationsCoverTrades, Accounted
<1> QED
  BY <1>1, <1>2, <1>3, <1>4, <1>5 DEF RouterNext

-----------------------------------------------------------------------------
(***************************************************************************)
(* The theorems.                                                           *)
(***************************************************************************)

\* Whatever is selected, settled, released and seeded, in whatever order, the
\* router's state stays well formed, reservations cover open trades only, and
\* both ledgers balance (execution/router.py, execution/inventory.py).
THEOREM RouterInvariant == RouterSpec => []RouterInv
<1>1. RouterInit => Steady
  BY RouterInitSteady
<1>2. Steady /\ [RouterNext]_routerVars => Steady'
  BY RouterStepSteady
<1>3. Steady => RouterInv
  BY RouterInvIsSteady
<1> QED
  BY <1>1, <1>2, <1>3, PTL DEF RouterSpec

\* Balances never go below zero, a reservation is a list of amounts of known
\* accounts, and only detected opportunities are handed on (Router.select).
THEOREM RouterTypeCorrect == RouterSpec => []RouterTypeOK
<1>1. RouterInv => RouterTypeOK
  BY DEF RouterInv
<1> QED
  BY <1>1, RouterInvariant, PTL

\* Every unit inventory holds locked belongs to a trade main has yet to
\* handle (reserve, release and settle of InventoryManager).
THEOREM LocksAreReserved == RouterSpec => []LockedMatchesReservations
<1>1. RouterInv => LockedMatchesReservations
  BY DEF RouterInv
<1> QED
  BY <1>1, RouterInvariant, PTL

\* When a tick's list is empty, no balance is locked (select's rollback,
\* release_reservations and settle_reservations of the router).
THEOREM LocksAreGivenBack == RouterSpec => []NothingStaysLocked
<1>1. RouterInv => NothingStaysLocked
  BY RouterInvIsSteady, NothingOpen DEF NothingStaysLocked
<1> QED
  BY <1>1, RouterInvariant, PTL

\* What was put into an account and what trades received there is what they
\* spent and what is left, however many trades the run settles.
THEOREM LedgerBalances == RouterSpec => []AccountsAddUp
<1>1. RouterInv => AccountsAddUp
  BY DEF RouterInv
<1> QED
  BY <1>1, RouterInvariant, PTL

\* In a ranking, what is worth more than an opportunity, or as much and was
\* found earlier, is what comes before it.
LEMMA BetterComesFirst ==
  ASSUME NEW n \in Nat, NEW order \in [1..n -> Opportunities],
         \A i, j \in 1..n :
           i < j => ExpectedValue(order[i]) >= ExpectedValue(order[j]),
         NEW i \in 1..n
  PROVE  {k \in 1..n : \/ ExpectedValue(order[k]) > ExpectedValue(order[i])
                       \/ ExpectedValue(order[k]) = ExpectedValue(order[i]) /\ k < i}
           = 1..(i - 1)
<1>1. ASSUME NEW o \in Opportunities
      PROVE  ExpectedValue(o) \in Int
  <2>1. o.net_profit_pct \in Int /\ o.max_size_usd \in Int
    BY OpportunitiesAreTyped DEF OpportunityRecord
  <2> QED
    BY <2>1 DEF ExpectedValue
<1>2. ASSUME NEW x \in Int, NEW y \in Int, NEW k \in Int, NEW l \in Int,
             k < l => x >= y, k = l => x = y, l < k => y >= x
      PROVE  (x > y \/ (x = y /\ k < l)) <=> k < l
  BY <1>2
<1>3. ASSUME NEW k \in 1..n
      PROVE  (\/ ExpectedValue(order[k]) > ExpectedValue(order[i])
              \/ (ExpectedValue(order[k]) = ExpectedValue(order[i]) /\ k < i))
               <=> k < i
  <2>1. ExpectedValue(order[k]) \in Int /\ ExpectedValue(order[i]) \in Int
    BY <1>1
  <2>2. /\ k < i => ExpectedValue(order[k]) >= ExpectedValue(order[i])
        /\ i < k => ExpectedValue(order[i]) >= ExpectedValue(order[k])
        /\ k = i => ExpectedValue(order[k]) = ExpectedValue(order[i])
    OBVIOUS
  <2>3. k \in Int /\ i \in Int
    OBVIOUS
  <2> QED
    BY <1>2, <2>1, <2>2, <2>3
<1>4. {k \in 1..n : k < i} = 1..(i - 1)
  OBVIOUS
<1> QED
  BY <1>3, <1>4, Zenon

\* An opportunity select passes over costs more than what the better ones it
\* accepted leave on some account: first come, first served by expected value.
LEMMA SelectionIsGreedy == RouterTypeOK => GreedyByValue
<1> SUFFICES ASSUME RouterTypeOK,
                    NEW candidates \in SUBSET Opportunities,
                    NEW order \in Rankings(candidates),
                    NEW i \in DOMAIN order,
                    order[i] \notin ToSet(Selection(inv, order).accepted)
             PROVE  LET accepted == ToSet(Selection(inv, order).accepted)
                        better == {order[j] : j \in {k \in DOMAIN order :
                          \/ ExpectedValue(order[k]) > ExpectedValue(order[i])
                          \/ ExpectedValue(order[k]) = ExpectedValue(order[i]) /\ k < i}}
                    IN \E a \in Accounts :
                         SpentOn(a, order[i])
                           + SumFunctionOnSet([o \in Opportunities |-> SpentOn(a, o)],
                                              accepted \cap better)
                           > inv[a].free
  BY DEF GreedyByValue
<1> DEFINE T == ToSet(Selection(inv, order).accepted)
           earlier == {order[j] : j \in 1..(i - 1)}
<1>1. /\ order \in SetToSeqs(candidates)
      /\ \A j, k \in DOMAIN order :
           j < k => ExpectedValue(order[j]) >= ExpectedValue(order[k])
  BY DEF Rankings
<1>2. PICK n \in Nat : /\ order \in [1..n -> Opportunities]
                       /\ DOMAIN order = 1..n
                       /\ NoRepeats(order)
  BY <1>1, OrderFacts
<1>3. Selected(Selection(inv, order), inv, order, n)
  BY <1>2, TypedBooks, SelectionEffect
<1>4. i \in 1..n
  BY <1>2
<1>5. {k \in DOMAIN order :
         \/ ExpectedValue(order[k]) > ExpectedValue(order[i])
         \/ ExpectedValue(order[k]) = ExpectedValue(order[i]) /\ k < i} = 1..(i - 1)
  BY <1>1, <1>2, <1>4, BetterComesFirst
<1>6. \E a \in Accounts : SpentOn(a, order[i]) + Cost(a, T \cap earlier) > inv[a].free
  BY <1>3, <1>4 DEF Selected
<1> QED
  BY <1>5, <1>6 DEF Cost

\* In every state, and for every ranking of what a tick may detect, selection
\* prefers the better opportunities and wastes no balance on failed attempts.
THEOREM SelectionFollowsValue == RouterSpec => []GreedyByValue
<1>1. RouterTypeOK => GreedyByValue
  BY SelectionIsGreedy
<1> QED
  BY <1>1, RouterTypeCorrect, PTL

-----------------------------------------------------------------------------
(***************************************************************************)
(* The executor inside the engine.                                         *)
(***************************************************************************)

\* The requests keep the control state well formed; the loop only reads it.
LEMMA ControlStep ==
  control \in ControlState /\ [EngineNext]_engineVars
    => (control \in ControlState)'
<1> SUFFICES ASSUME control \in ControlState, [EngineNext]_engineVars
             PROVE  control' \in ControlState
  OBVIOUS
<1>1. MainStep => control' = control
  BY DEF MainStep, EnterTick, SeedPaper, StartFetching, FetchBalance, Detect,
         PassOver, Reject, Book, TradeOnPaper, TradeLive, LegStep,
         TradeLiveEnds, EndTick, Wake, mainVars
<1>2. ASSUME NEW m \in Modes, SetControlMode(m)
      PROVE  control' \in ControlState
  BY <1>2 DEF SetControlMode, ControlState
<1>3. ASSUME NEW on \in BOOLEAN, SetRunning(on) \/ EmergencyStop(on)
      PROVE  control' \in ControlState
  BY <1>3 DEF SetRunning, EmergencyStop, ControlState
<1>4. ASSUME NEW s \in Strategies, NEW on \in BOOLEAN, ToggleStrategy(s, on)
      PROVE  control' \in ControlState
  <2> DEFINE enabled == [control.strategy_enabled EXCEPT ![s] = on]
  <2>1. control.strategy_enabled \in [Strategies -> BOOLEAN]
    BY DEF ControlState
  <2>2. enabled \in [Strategies -> BOOLEAN]
    BY <2>1
  <2>3. control' = [control EXCEPT !.strategy_enabled = enabled]
    BY <1>4 DEF ToggleStrategy
  <2> HIDE DEF enabled
  <2> QED
    BY <2>2, <2>3 DEF ControlState
<1>5. ASSUME \/ \E trades \in TradeLimits, loss \in LossLimits :
                  SetRiskLimits(trades, loss)
             \/ Midnight
             \/ ShutDown
             \/ UNCHANGED engineVars
      PROVE  control' = control
  BY <1>5 DEF SetRiskLimits, Midnight, ShutDown, engineVars, mainVars
<1> QED
  BY <1>1, <1>2, <1>3, <1>4, <1>5 DEF EngineNext, Others

\* Each step of the loop, of a handler or of the clock is, for the executor,
\* one of its own steps or none.
LEMMA ExecutorStep ==
  control \in ControlState /\ [EngineNext]_engineVars => [ExecNext]_execVars
<1> SUFFICES ASSUME control \in ControlState, [EngineNext]_engineVars
             PROVE  [ExecNext]_execVars
  OBVIOUS
<1>1. control.mode \in Modes
  BY DEF ControlState
<1>2. ASSUME \/ EnterTick
             \/ \E accounts \in Funded, amounts \in Openings :
                  SeedPaper(accounts, amounts)
             \/ StartFetching
      PROVE  \E m \in Modes : SetMode(m)
  BY <1>1, <1>2 DEF EnterTick, SeedPaper, StartFetching, Modes
<1>3. ASSUME \/ \E v \in Venues, assets \in Reported \cup {{}}, amounts \in Openings :
                  FetchBalance(v, assets, amounts)
             \/ \E found \in Findings : Detect(found)
             \/ PassOver
             \/ EndTick
             \/ Wake
             \/ \E m \in Modes : SetControlMode(m)
             \/ \E on \in BOOLEAN : SetRunning(on)
             \/ \E s \in Strategies, on \in BOOLEAN : ToggleStrategy(s, on)
             \/ UNCHANGED engineVars
      PROVE  UNCHANGED execVars
  BY <1>3 DEF FetchBalance, Detect, PassOver, EndTick, Wake, SetControlMode,
              SetRunning, ToggleStrategy, engineVars
<1>4. ASSUME NEW o \in Opportunities,
             Reject(o) \/ \E pnl \in Profits : TradeOnPaper(o, pnl) \/ TradeLive(o, pnl)
      PROVE  Handle(o)
  BY <1>4 DEF Reject, TradeOnPaper, TradeLive, Handle
<1>5. ASSUME LegStep \/ TradeLiveEnds \/ Midnight \/ ShutDown
      PROVE  ExecNext
  BY <1>5 DEF LegStep, TradeLiveEnds, Midnight, ShutDown, ExecNext
<1>6. ASSUME NEW on \in BOOLEAN, EmergencyStop(on)
      PROVE  SetEmergencyStop(on)
  BY <1>6 DEF EmergencyStop
<1>7. ASSUME NEW trades \in TradeLimits, NEW loss \in LossLimits,
             SetRiskLimits(trades, loss)
      PROVE  UpdateRiskLimits(trades, loss)
  BY <1>7 DEF SetRiskLimits
<1>8. CASE MainStep
  BY <1>2, <1>3, <1>4, <1>5, <1>8 DEF MainStep, ExecNext
<1>9. CASE Others
  BY <1>3, <1>5, <1>6, <1>7, <1>9 DEF Others, ExecNext
<1> QED
  BY <1>3, <1>8, <1>9 DEF EngineNext

\* The engine's startup leaves the control state well formed.
LEMMA ControlInit == EngineInit => control \in ControlState
  BY DEF EngineInit, ExecInit, ControlState

\* Main's loop and the dashboard run the executor as it is specified: every
\* theorem about ExecSpec holds of the engine.
THEOREM EngineRunsTheExecutor == EngineSpec => RefinesExecutor
<1>1. EngineInit => ExecInit
  BY DEF EngineInit
<1>2. EngineInit => control \in ControlState
  BY ControlInit
<1>3. control \in ControlState /\ [EngineNext]_engineVars
        => (control \in ControlState)'
  BY ControlStep
<1>4. control \in ControlState /\ [EngineNext]_engineVars => [ExecNext]_execVars
  BY ExecutorStep
<1> QED
  BY <1>1, <1>2, <1>3, <1>4, PTL DEF EngineSpec, RefinesExecutor, ExecSpec

\* So whatever requests, ticks and settlements come between, the engine trades
\* as the desk may, and no day of it logs more than a limit allows.
THEOREM EngineIsADesk == EngineSpec => ImplementsDesk /\ []DailyTradesBounded
  BY EngineRunsTheExecutor, ExecutorImplementsTheDesk, DaysAreBounded, PTL
  DEF RefinesExecutor

LEMMA EngineExecType == EngineSpec => []ExecTypeOK
  BY EngineRunsTheExecutor, ExecTypeCorrect, PTL DEF RefinesExecutor

-----------------------------------------------------------------------------
(***************************************************************************)
(* The loop's own invariants.                                              *)
(***************************************************************************)

\* When a paper trade is booked, and how.
BooksPaper(o, b) ==
  /\ pc = "execute" /\ mode = "paper" /\ CanVerify(o)
  /\ to_execute # <<>> /\ o = Head(to_execute)
  /\ b.label = control.mode
  /\ b.settled <=> HasReservations(o)

\* What one booking appends, and to what.
BooksOne(o) ==
  \E entry \in TradeLogEntry, b \in Booking :
    /\ trade_log' = Append(trade_log, entry)
    /\ bookings' = Append(bookings, b)
    /\ entry.opportunity = o
    /\ b.opportunity = o
    /\ entry.mode = "live" => inflight # None
    /\ entry.mode = "paper" => BooksPaper(o, b)

\* The log and the bookings grow together, each by the same opportunity, or
\* not at all.
LEMMA BookingStep ==
  ASSUME ExecTypeOK, control \in ControlState, [EngineNext]_engineVars
  PROVE  \/ UNCHANGED <<trade_log, bookings>>
         \/ \E o \in Opportunities : BooksOne(o)
<1>1. control.mode \in Modes
  BY DEF ControlState
<1>2. ASSUME NEW o \in Opportunities, Book(o)
      PROVE  \E b \in Booking :
               /\ bookings' = Append(bookings, b)
               /\ b.opportunity = o
               /\ b.label = control.mode
               /\ b.settled <=> HasReservations(o)
  <2> DEFINE b == [opportunity |-> o, label |-> control.mode,
                   settled |-> HasReservations(o)]
  <2>1. HasReservations(o) \in BOOLEAN
    BY DEF HasReservations
  <2>2. /\ b \in Booking /\ b.opportunity = o /\ b.label = control.mode
        /\ b.settled = HasReservations(o)
    BY <1>1, <2>1 DEF Booking
  <2>3. bookings' = Append(bookings, b)
    BY <1>2 DEF Book
  <2> QED
    BY <2>2, <2>3
<1>3. ASSUME NEW o \in Opportunities, NEW pnl \in Profits, TradeOnPaper(o, pnl)
      PROVE  BooksOne(o)
  <2> DEFINE entry == [opportunity |-> o, mode |-> "paper", pnl_usd |-> pnl,
                       note |-> "", day |-> today, executed |-> {}]
  <2>1. pnl \in Nat /\ today \in Nat
    BY ExecutorConstantsAreTyped DEF ExecTypeOK
  <2>2. entry \in TradeLogEntry /\ entry.opportunity = o /\ entry.mode # "live"
    BY <2>1 DEF TradeLogEntry
  <2>3. trade_log' = Append(trade_log, entry)
    BY <1>3 DEF TradeOnPaper, PaperFill
  <2>4. PICK b \in Booking :
          /\ bookings' = Append(bookings, b)
          /\ b.opportunity = o
          /\ b.label = control.mode
          /\ b.settled <=> HasReservations(o)
    BY <1>2, <1>3 DEF TradeOnPaper
  <2>5. BooksPaper(o, b)
    BY <1>3, <2>4 DEF TradeOnPaper, PaperFill, Book, SettleFill, Resolve, BooksPaper
  <2> HIDE DEF entry
  <2> QED
    BY <2>2, <2>3, <2>4, <2>5 DEF BooksOne
<1>4. ASSUME TradeLiveEnds
      PROVE  \E o \in Opportunities : BooksOne(o)
  <2> DEFINE o == inflight.opportunity
             entry == [opportunity |-> o, mode |-> "live",
                       pnl_usd |-> IF AllOk(legs) THEN
                                     IF AllOk(legs) THEN inflight.pnl ELSE 0
                                   ELSE None,
                       note |-> IF AllOk(legs) THEN "" ELSE PartialNote,
                       day |-> today, executed |-> executed]
  <2>1. /\ inflight # None
        /\ trade_log' = Append(trade_log, entry)
    BY <1>4 DEF TradeLiveEnds, FinishLive
  <2>2. o \in Opportunities /\ inflight.pnl \in Profits /\ today \in Nat
    <3>1. inflight \in LiveTrade
      BY <2>1 DEF ExecTypeOK
    <3>2. today \in Nat
      BY ExecutorConstantsAreTyped DEF ExecTypeOK
    <3> QED
      BY <3>1, <3>2 DEF LiveTrade
  <2>3. executed \subseteq Nat
    <3>1. executed \subseteq LegIndices(o)
      BY <2>1 DEF ExecTypeOK
    <3>2. o.legs \in Seq(Leg)
      BY <2>2, OpportunityFields
    <3> QED
      BY <3>1, <3>2 DEF LegIndices
  <2>4. entry \in TradeLogEntry /\ entry.opportunity = o /\ entry.mode # "paper"
    BY <2>2, <2>3 DEF TradeLogEntry
  <2>5. PICK b \in Booking : bookings' = Append(bookings, b) /\ b.opportunity = o
    BY <1>2, <1>4, <2>2 DEF TradeLiveEnds
  <2> HIDE DEF entry
  <2> QED
    BY <2>1, <2>2, <2>4, <2>5 DEF BooksOne
<1>5. ASSUME \/ EnterTick
             \/ \E accounts \in Funded, amounts \in Openings :
                  SeedPaper(accounts, amounts)
             \/ StartFetching
             \/ \E v \in Venues, assets \in Reported \cup {{}}, amounts \in Openings :
                  FetchBalance(v, assets, amounts)
             \/ \E found \in Findings : Detect(found)
             \/ PassOver
             \/ LegStep
             \/ EndTick
             \/ Wake
      PROVE  UNCHANGED <<trade_log, bookings>>
  BY <1>5 DEF EnterTick, SeedPaper, StartFetching, FetchBalance, Detect, PassOver,
              LegStep, EndTick, Wake, SetMode, StartLegs, LegFills, LegFails,
              execVars, mainVars
<1>6. ASSUME NEW o \in Opportunities, Reject(o) \/ \E pnl \in Profits : TradeLive(o, pnl)
      PROVE  UNCHANGED <<trade_log, bookings>>
  BY <1>6 DEF Reject, TradeLive, Decline, HandleMonitor, Skip, LiveFire, mainVars
<1>7. ASSUME Others \/ UNCHANGED engineVars
      PROVE  UNCHANGED <<trade_log, bookings>>
  BY <1>7 DEF Others, SetControlMode, SetRunning, ToggleStrategy, EmergencyStop,
              SetRiskLimits, Midnight, ShutDown, SetEmergencyStop,
              UpdateRiskLimits, NewDay, Interrupt, engineVars, execVars, mainVars
<1> QED
  BY <1>3, <1>4, <1>5, <1>6, <1>7 DEF EngineNext, MainStep

\* The loop's own variables stay typed.
LEMMA EngineTypeStep ==
  ASSUME EngineTypeOK, ExecTypeOK, [EngineNext]_engineVars
  PROVE  EngineTypeOK'
<1>1. control \in ControlState /\ control' \in ControlState
  BY ControlStep DEF EngineTypeOK
<1>2. control.mode \in {"monitor", "paper", "live"}
  BY <1>1 DEF ControlState, Modes
<1>3. bookings' \in Seq(Booking)
  <2>1. bookings \in Seq(Booking)
    BY DEF EngineTypeOK
  <2> QED
    BY <1>1, <2>1, BookingStep DEF BooksOne
<1>4. CASE /\ pc' \in {"loop", "fetch", "tick", "execute", "gather", "sleep", "stopped"}
           /\ UNCHANGED <<seeded_modes, to_fetch, seeded>>
           /\ requests' \in {requests, requests + 1}
           /\ requests' # requests => requests < MaxRequests
  BY <1>1, <1>3, <1>4, EngineConstantsAreTyped DEF EngineTypeOK
<1>5. CASE \E accounts \in Funded, amounts \in Openings : SeedPaper(accounts, amounts)
  BY <1>1, <1>3, <1>5 DEF EngineTypeOK, SeedPaper, NeedsInventory
<1>6. CASE StartFetching
  BY <1>1, <1>3, <1>6 DEF EngineTypeOK, StartFetching
<1>7. CASE \E v \in Venues, assets \in Reported \cup {{}}, amounts \in Openings :
             FetchBalance(v, assets, amounts)
  BY <1>1, <1>2, <1>3, <1>7 DEF EngineTypeOK, FetchBalance, NeedsInventory
<1>8. CASE \/ EnterTick
           \/ \E found \in Findings : Detect(found)
           \/ PassOver
           \/ \E o \in Opportunities : Reject(o)
           \/ \E o \in Opportunities, pnl \in Profits : TradeOnPaper(o, pnl)
           \/ \E o \in Opportunities, pnl \in Profits : TradeLive(o, pnl)
           \/ LegStep
           \/ TradeLiveEnds
           \/ EndTick
           \/ Wake
           \/ UNCHANGED engineVars
  BY <1>4, <1>8 DEF EngineTypeOK, EnterTick, Detect, PassOver, Reject, TradeOnPaper,
                    TradeLive, LegStep, TradeLiveEnds, Book, EndTick, Wake,
                    mainVars, engineVars
<1>9. CASE Others
  BY <1>4, <1>9 DEF EngineTypeOK, Others, SetControlMode, SetRunning, ToggleStrategy,
                    EmergencyStop, SetRiskLimits, Midnight, ShutDown, Serve, mainVars
<1> QED
  BY <1>5, <1>6, <1>7, <1>8, <1>9 DEF EngineNext, MainStep

LEMMA HeadStep ==
  ASSUME InFlightIsTheHead, [EngineNext]_engineVars
  PROVE  InFlightIsTheHead'
<1> USE DEF InFlightIsTheHead
<1>1. CASE \/ EnterTick
           \/ \E accounts \in Funded, amounts \in Openings :
                SeedPaper(accounts, amounts)
           \/ StartFetching
           \/ \E v \in Venues, assets \in Reported \cup {{}}, amounts \in Openings :
                FetchBalance(v, assets, amounts)
           \/ PassOver
           \/ EndTick
           \/ Wake
  BY <1>1 DEF EnterTick, SeedPaper, StartFetching, FetchBalance, PassOver,
              EndTick, Wake, SetMode, SetBalances, execVars, routerVars
<1>2. CASE \E found \in Findings : Detect(found)
  BY <1>2 DEF Detect, execVars
<1>3. CASE \E o \in Opportunities : Reject(o)
  BY <1>3 DEF Reject, Decline, HandleMonitor, Skip, mainVars
<1>4. CASE \E o \in Opportunities, pnl \in Profits : TradeOnPaper(o, pnl)
  BY <1>4 DEF TradeOnPaper, PaperFill
<1>5. ASSUME NEW o \in Opportunities, NEW pnl \in Profits, TradeLive(o, pnl)
      PROVE  InFlightIsTheHead'
  <2>1. inflight' = [opportunity |-> o, pnl |-> pnl]
    BY <1>5 DEF TradeLive, LiveFire
  <2>2. inflight' # None
    BY <2>1, ExecutorConstantsAreTyped
  <2>3. inflight'.opportunity = o
    BY <2>1
  <2> QED
    BY <1>5, <2>2, <2>3 DEF TradeLive, routerVars
<1>6. CASE LegStep
  BY <1>6 DEF LegStep, StartLegs, LegFills, LegFails, mainVars, routerVars
<1>7. CASE TradeLiveEnds
  BY <1>7 DEF TradeLiveEnds, FinishLive
<1>8. CASE Others
  BY <1>8 DEF Others, SetControlMode, SetRunning, ToggleStrategy, EmergencyStop,
              SetRiskLimits, Midnight, ShutDown, SetEmergencyStop, UpdateRiskLimits,
              NewDay, Interrupt, execVars, mainVars, routerVars
<1>9. CASE UNCHANGED engineVars
  BY <1>9 DEF engineVars, mainVars, execVars, routerVars
<1> QED
  BY <1>1, <1>2, <1>3, <1>4, <1>5, <1>6, <1>7, <1>8, <1>9 DEF EngineNext, MainStep

LEMMA BookedOnceStep ==
  ASSUME EngineTypeOK, ExecTypeOK, TradesAreBookedOnce, [EngineNext]_engineVars
  PROVE  TradesAreBookedOnce'
<1>1. /\ trade_log \in Seq(TradeLogEntry)
      /\ bookings \in Seq(Booking)
      /\ control \in ControlState
  BY DEF EngineTypeOK, ExecTypeOK
<1>2. CASE UNCHANGED <<trade_log, bookings>>
  BY <1>2 DEF TradesAreBookedOnce
<1>3. ASSUME NEW o \in Opportunities, BooksOne(o)
      PROVE  TradesAreBookedOnce'
  <2>1. PICK entry \in TradeLogEntry, b \in Booking :
          /\ trade_log' = Append(trade_log, entry)
          /\ bookings' = Append(bookings, b)
          /\ entry.opportunity = o
          /\ b.opportunity = o
    BY <1>3 DEF BooksOne
  <2>2. Len(bookings') = Len(trade_log')
    BY <1>1, <2>1 DEF TradesAreBookedOnce
  <2>3. ASSUME NEW n \in DOMAIN trade_log'
        PROVE  bookings'[n].opportunity = trade_log'[n].opportunity
    <3>1. n \in 1..(Len(trade_log) + 1)
      BY <1>1, <2>1
    <3>2. CASE n = Len(trade_log) + 1
      BY <1>1, <2>1, <3>2 DEF TradesAreBookedOnce
    <3>3. CASE n \in 1..Len(trade_log)
      <4>1. trade_log'[n] = trade_log[n] /\ bookings'[n] = bookings[n]
        BY <1>1, <2>1, <3>3 DEF TradesAreBookedOnce
      <4> QED
        BY <1>1, <3>3, <4>1 DEF TradesAreBookedOnce
    <3> QED
      BY <1>1, <3>1, <3>2, <3>3
  <2> QED
    BY <2>2, <2>3 DEF TradesAreBookedOnce
<1> QED
  BY <1>1, <1>2, <1>3, BookingStep

\* A seeding that ran stays on record, and only a finished fetch lets the set
\* claim live.
LEMMA SeededStep ==
  ASSUME [EngineNext]_engineVars
  PROVE  /\ seeded \subseteq seeded'
         /\ "live" \in seeded_modes' => "live" \in seeded_modes \cup seeded'
<1>1. CASE \/ EnterTick
           \/ \E accounts \in Funded, amounts \in Openings :
                SeedPaper(accounts, amounts)
           \/ StartFetching
           \/ \E v \in Venues, assets \in Reported \cup {{}}, amounts \in Openings :
                FetchBalance(v, assets, amounts)
           \/ \E found \in Findings : Detect(found)
           \/ PassOver
           \/ \E o \in Opportunities : Reject(o)
           \/ \E o \in Opportunities, pnl \in Profits : TradeOnPaper(o, pnl)
           \/ \E o \in Opportunities, pnl \in Profits : TradeLive(o, pnl)
           \/ LegStep
           \/ TradeLiveEnds
           \/ EndTick
           \/ Wake
           \/ UNCHANGED engineVars
  BY <1>1 DEF EnterTick, SeedPaper, StartFetching, FetchBalance, Detect, PassOver,
              Reject, TradeOnPaper, TradeLive, LegStep, TradeLiveEnds, Book,
              EndTick, Wake, mainVars, engineVars
<1>2. CASE Others
  BY <1>2 DEF Others, SetControlMode, SetRunning, ToggleStrategy, EmergencyStop,
              SetRiskLimits, Midnight, ShutDown, mainVars
<1> QED
  BY <1>1, <1>2 DEF EngineNext, MainStep

LEMMA LiveIsSeededStep ==
  ASSUME LiveIsSeeded, [EngineNext]_engineVars
  PROVE  LiveIsSeeded'
<1>1. /\ "live" \in seeded => "live" \in seeded'
      /\ "live" \in seeded_modes' => "live" \in seeded'
  BY SeededStep DEF LiveIsSeeded
<1>2. SUFFICES ASSUME mode' = "live", pc' \notin {"fetch", "stopped"}
               PROVE  "live" \in seeded'
  BY <1>1 DEF LiveIsSeeded
<1>3. CASE mode' = mode /\ pc \notin {"fetch", "stopped"}
  BY <1>1, <1>2, <1>3 DEF LiveIsSeeded
<1>4. CASE EnterTick
  <2>1. mode' = control.mode /\ control.mode \notin NeedsInventory \ seeded_modes
    BY <1>4 DEF EnterTick, MustSeed, SetMode
  <2>2. "live" \in seeded_modes
    BY <1>2, <2>1 DEF NeedsInventory
  <2> QED
    BY <1>1, <2>2 DEF LiveIsSeeded
<1>5. CASE \/ \E accounts \in Funded, amounts \in Openings :
                SeedPaper(accounts, amounts)
           \/ StartFetching
           \/ \E v \in Venues, assets \in Reported \cup {{}}, amounts \in Openings :
                FetchBalance(v, assets, amounts)
  BY <1>2, <1>5 DEF SeedPaper, StartFetching, FetchBalance, SetMode
<1>6. CASE \/ \E found \in Findings : Detect(found)
           \/ PassOver
           \/ \E o \in Opportunities : Reject(o)
           \/ \E o \in Opportunities, pnl \in Profits : TradeOnPaper(o, pnl)
           \/ \E o \in Opportunities, pnl \in Profits : TradeLive(o, pnl)
           \/ LegStep
           \/ TradeLiveEnds
           \/ EndTick
           \/ Wake
  BY <1>3, <1>6 DEF Detect, PassOver, Reject, Decline, HandleMonitor, Skip,
                    TradeOnPaper, PaperFill, TradeLive, LiveFire, LegStep, StartLegs,
                    LegFills, LegFails, TradeLiveEnds, FinishLive, EndTick, Wake,
                    execVars
<1>7. CASE Others
  <2>1. pc' \in {pc, "stopped"} /\ mode' = mode
    BY <1>7 DEF Others, SetControlMode, SetRunning, ToggleStrategy, EmergencyStop,
                SetRiskLimits, Midnight, ShutDown, SetEmergencyStop,
                UpdateRiskLimits, NewDay, Interrupt, execVars, mainVars
  <2> QED
    BY <1>2, <1>3, <2>1
<1>8. CASE UNCHANGED engineVars
  BY <1>2, <1>3, <1>8 DEF engineVars, mainVars, execVars
<1> QED
  BY <1>4, <1>5, <1>6, <1>7, <1>8 DEF EngineNext, MainStep

\* A live trade is in flight only because it was already, or because the
\* executor is in live mode in a tick.
LEMMA InFlightStarts ==
  ASSUME [EngineNext]_engineVars, inflight' # None
  PROVE  inflight # None \/ (mode = "live" /\ pc = "execute")
<1>1. CASE inflight' = inflight
  BY <1>1
<1>2. CASE \E o \in Opportunities, pnl \in Profits : TradeLive(o, pnl)
  BY <1>2 DEF TradeLive, LiveFire
<1>3. CASE TradeLiveEnds \/ ShutDown
  BY <1>3 DEF TradeLiveEnds, FinishLive, ShutDown, Interrupt
<1>4. CASE \/ EnterTick
           \/ \E accounts \in Funded, amounts \in Openings :
                SeedPaper(accounts, amounts)
           \/ StartFetching
           \/ \E v \in Venues, assets \in Reported \cup {{}}, amounts \in Openings :
                FetchBalance(v, assets, amounts)
           \/ \E found \in Findings : Detect(found)
           \/ PassOver
           \/ \E o \in Opportunities : Reject(o)
           \/ \E o \in Opportunities, pnl \in Profits : TradeOnPaper(o, pnl)
           \/ LegStep
           \/ EndTick
           \/ Wake
           \/ UNCHANGED engineVars
  BY <1>1, <1>4 DEF EnterTick, SeedPaper, StartFetching, FetchBalance, Detect,
                    PassOver, Reject, Decline, HandleMonitor, Skip, TradeOnPaper,
                    PaperFill, LegStep, StartLegs, LegFills, LegFails, EndTick,
                    Wake, SetMode, execVars, engineVars
<1>5. CASE Others /\ ~ShutDown
  BY <1>1, <1>5 DEF Others, SetControlMode, SetRunning, ToggleStrategy, EmergencyStop,
                    SetRiskLimits, Midnight, SetEmergencyStop, UpdateRiskLimits,
                    NewDay, execVars
<1> QED
  BY <1>2, <1>3, <1>4, <1>5 DEF EngineNext, MainStep

LEMMA FetchedStep ==
  ASSUME EngineTypeOK, ExecTypeOK, LiveIsSeeded, LiveTradesWereFetchedFor,
         [EngineNext]_engineVars
  PROVE  LiveTradesWereFetchedFor'
<1>1. /\ trade_log \in Seq(TradeLogEntry)
      /\ control \in ControlState
      /\ "live" \in seeded => "live" \in seeded'
  BY SeededStep DEF EngineTypeOK, ExecTypeOK
<1>2. inflight' # None => "live" \in seeded'
  BY <1>1, InFlightStarts DEF LiveIsSeeded, LiveTradesWereFetchedFor
<1>3. CASE UNCHANGED <<trade_log, bookings>>
  BY <1>1, <1>2, <1>3 DEF LiveTradesWereFetchedFor
<1>4. CASE \E o \in Opportunities : BooksOne(o)
  <2>1. PICK entry \in TradeLogEntry :
          /\ trade_log' = Append(trade_log, entry)
          /\ entry.mode = "live" => inflight # None
    BY <1>4 DEF BooksOne
  <2>2. ASSUME NEW n \in DOMAIN trade_log', trade_log'[n].mode = "live"
        PROVE  "live" \in seeded'
    <3>1. \/ n \in DOMAIN trade_log /\ trade_log'[n] = trade_log[n]
          \/ trade_log'[n] = entry
      BY <1>1, <2>1
    <3> QED
      BY <1>1, <2>1, <2>2, <3>1 DEF LiveTradesWereFetchedFor
  <2> QED
    BY <1>2, <2>2 DEF LiveTradesWereFetchedFor
<1> QED
  BY <1>1, <1>3, <1>4, BookingStep

LEMMA FlagsStep ==
  ASSUME EngineTypeOK, ExecTypeOK, StopFlagsAgree, [EngineNext]_engineVars
  PROVE  StopFlagsAgree'
<1>1. control \in ControlState /\ limits \in RiskLimits
  BY DEF EngineTypeOK, ExecTypeOK
<1>2. ASSUME NEW on \in BOOLEAN, EmergencyStop(on)
      PROVE  StopFlagsAgree'
  BY <1>1, <1>2 DEF EmergencyStop, SetEmergencyStop, StopFlagsAgree, ControlState,
                    RiskLimits
<1>3. CASE \/ \E m \in Modes : SetControlMode(m)
           \/ \E on \in BOOLEAN : SetRunning(on)
           \/ \E s \in Strategies, on \in BOOLEAN : ToggleStrategy(s, on)
  BY <1>1, <1>3 DEF SetControlMode, SetRunning, ToggleStrategy, StopFlagsAgree,
                    ControlState, execVars
<1>4. CASE \E trades \in TradeLimits, loss \in LossLimits : SetRiskLimits(trades, loss)
  BY <1>1, <1>4 DEF SetRiskLimits, UpdateRiskLimits, StopFlagsAgree, RiskLimits
<1>5. CASE Midnight \/ ShutDown \/ UNCHANGED engineVars
  BY <1>5 DEF Midnight, NewDay, ShutDown, Interrupt, StopFlagsAgree, mainVars,
              execVars, engineVars
<1>6. CASE MainStep
  <2>1. control' = control /\ limits' = limits
    BY <1>6 DEF MainStep, EnterTick, SeedPaper, StartFetching, FetchBalance, Detect,
                PassOver, Reject, Decline, HandleMonitor, Skip, TradeOnPaper,
                PaperFill, Book, TradeLive, LiveFire, LegStep, StartLegs, LegFills,
                LegFails, TradeLiveEnds, FinishLive, EndTick, Wake, SetMode,
                execVars, mainVars
  <2> QED
    BY <2>1 DEF StopFlagsAgree
<1> QED
  BY <1>2, <1>3, <1>4, <1>5, <1>6 DEF EngineNext, Others

LEMMA EngineInitInv == EngineInit => EngineInv
<1> SUFFICES ASSUME EngineInit PROVE EngineInv
  OBVIOUS
<1>1. /\ mode \in Modes
      /\ seeded = {mode} \cap NeedsInventory
      /\ seeded_modes = {mode} \cap NeedsInventory
  BY DEF EngineInit, ExecInit
<1>2. EngineTypeOK
  BY <1>1, ControlInit, EngineConstantsAreTyped DEF EngineInit, EngineTypeOK
<1>3. InFlightIsTheHead
  BY DEF EngineInit, ExecInit, RouterInit, InFlightIsTheHead
<1>4. TradesAreBookedOnce
  BY DEF EngineInit, ExecInit, TradesAreBookedOnce
<1>5. LiveIsSeeded
  BY <1>1 DEF LiveIsSeeded, NeedsInventory
<1>6. LiveTradesWereFetchedFor
  BY DEF EngineInit, ExecInit, LiveTradesWereFetchedFor
<1>7. StopFlagsAgree
  BY DEF EngineInit, ExecInit, StopFlagsAgree
<1> QED
  BY <1>2, <1>3, <1>4, <1>5, <1>6, <1>7 DEF EngineInv

LEMMA EngineInvStep ==
  EngineInv /\ ExecTypeOK /\ [EngineNext]_engineVars => EngineInv'
<1> SUFFICES ASSUME EngineInv, ExecTypeOK, [EngineNext]_engineVars
             PROVE  EngineInv'
  OBVIOUS
<1> USE DEF EngineInv
<1> QED
  BY EngineTypeStep, HeadStep, BookedOnceStep, LiveIsSeededStep, FetchedStep,
     FlagsStep

\* The loop's invariants hold for every number of venues, opportunities and
\* requests.
THEOREM EngineInvariant == EngineSpec => []EngineInv
<1> QED
  BY EngineInitInv, EngineExecType, EngineInvStep, PTL DEF EngineSpec

\* However dashboard requests and failures fall into a tick, the log and the
\* bookings main makes of it correspond one to one.
THEOREM LogIsBookedOnce == EngineSpec => []TradesAreBookedOnce
BY EngineInvariant, PTL DEF EngineInv

\* No order goes to an exchange before its balances were asked for.
THEOREM FetchBeforeLive == EngineSpec => []LiveTradesWereFetchedFor
BY EngineInvariant, PTL DEF EngineInv

\* The two emergency stops are one.
THEOREM OneStop == EngineSpec => []StopFlagsAgree
BY EngineInvariant, PTL DEF EngineInv

\* What is suspended at the gather is the opportunity the tick is at.
THEOREM GatherIsTheHead == EngineSpec => []InFlightIsTheHead
BY EngineInvariant, PTL DEF EngineInv

\* The dashboard's stop keeps the loop from starting any trade.
THEOREM StopReachesTheLoop == EngineSpec => StopHoldsInTheLoop
<1> DEFINE Stays == control.emergency_stop /\ inflight = None =>
                      /\ trade_log' = trade_log
                      /\ inflight' = None
<1>1. StopFlagsAgree /\ [EngineNext]_engineVars => [Stays]_engineVars
  <2> SUFFICES ASSUME StopFlagsAgree, EngineNext, control.emergency_stop,
                      inflight = None
               PROVE  trade_log' = trade_log /\ inflight' = None
    OBVIOUS
  <2>1. \A o \in Opportunities : ~Admitted(o)
    BY DEF StopFlagsAgree, Admitted, CanTrade, BreakersAllow
  <2>2. CASE MainStep
    BY <2>1, <2>2 DEF MainStep, EnterTick, SeedPaper, StartFetching, FetchBalance,
                Detect, PassOver, Reject, Decline, HandleMonitor, Skip, TradeOnPaper,
                PaperFill, TradeLive, LiveFire, LegStep, StartLegs, LegFills,
                LegFails, TradeLiveEnds, FinishLive, EndTick, Wake, SetMode,
                execVars
  <2>3. CASE Others
    BY <2>3 DEF Others, SetControlMode, SetRunning, ToggleStrategy, EmergencyStop,
                SetRiskLimits, Midnight, ShutDown, SetEmergencyStop,
                UpdateRiskLimits, NewDay, Interrupt, execVars
  <2> QED
    BY <2>2, <2>3 DEF EngineNext
<1> QED
  BY <1>1, OneStop, PTL DEF EngineSpec, StopHoldsInTheLoop

-----------------------------------------------------------------------------
(***************************************************************************)
(* What a tick goes on with.                                               *)
(***************************************************************************)

Keeping == INSTANCE FoldTheorems WITH op <- KeepWorthy

\* The dict: opportunities, of different routes.
Dicts ==
  {best \in Seq(Opportunities) :
     \A l, m \in 1..Len(best) : l # m => RouteKey(best[l]) # RouteKey(best[m])}

LEMMA KeepingDicts ==
  ASSUME NEW best \in Dicts, NEW o \in Opportunities
  PROVE  KeepWorthy(best, o) \in Dicts
<1> DEFINE n == Len(best)
           rivals == {i \in DOMAIN best : RouteKey(best[i]) = RouteKey(o)}
<1>1. /\ best \in Seq(Opportunities) /\ n \in Nat /\ DOMAIN best = 1..n
      /\ \A m \in 1..n : best[m] \in Opportunities
      /\ \A l, m \in 1..n : l # m => RouteKey(best[l]) # RouteKey(best[m])
  BY DEF Dicts
<1>2. CASE ~Worth(o)
  BY <1>2 DEF KeepWorthy
<1>3. CASE Worth(o) /\ rivals = {}
  <2> DEFINE more == Append(best, o)
  <2>1. KeepWorthy(best, o) = more
    BY <1>3 DEF KeepWorthy, KeepBetter
  <2>2. \A m \in 1..n : RouteKey(best[m]) # RouteKey(o)
    BY <1>1, <1>3
  <2>3. /\ more \in Seq(Opportunities) /\ Len(more) = n + 1
        /\ \A m \in 1..n : more[m] = best[m]
        /\ more[n + 1] = o
        /\ \A m : m \in 1..(n + 1) <=> m \in 1..n \/ m = n + 1
    BY <1>1
  <2> HIDE DEF more, rivals, n
  <2>4. \A l, m \in 1..(n + 1) : l # m => RouteKey(more[l]) # RouteKey(more[m])
    BY <1>1, <2>2, <2>3
  <2> QED
    BY <2>1, <2>3, <2>4 DEF Dicts
<1>4. CASE Worth(o) /\ rivals # {}
  <2> DEFINE next == [i \in DOMAIN best |->
                        IF i \in rivals /\ o.net_profit_pct > best[i].net_profit_pct
                        THEN o ELSE best[i]]
  <2>1. KeepWorthy(best, o) = next
    BY <1>4 DEF KeepWorthy, KeepBetter
  <2>2. next \in [1..n -> Opportunities]
    BY <1>1
  <2>3. \A m \in 1..n : RouteKey(next[m]) = RouteKey(best[m])
    BY <1>1
  <2> HIDE DEF next, rivals, n
  <2>4. next \in Seq(Opportunities) /\ Len(next) = n
    BY <1>1, <2>2
  <2> QED
    BY <1>1, <2>1, <2>3, <2>4 DEF Dicts
<1> QED
  BY <1>2, <1>3, <1>4

LEMMA KeepingSteps ==
  ASSUME NEW base \in Seq(Opportunities), NEW n \in Nat,
         NEW seq \in [1..n -> Opportunities], DOMAIN seq = 1..n
  PROVE  \E acc :
           /\ acc[0] = base
           /\ \A i \in 1..n : acc[i] = KeepWorthy(acc[i - 1], seq[i])
           /\ Keeping!Folded(base, seq) = acc[n]
BY Keeping!FoldSteps, SMTT(30)

LEMMA KeptIsADict ==
  ASSUME NEW found \in Seq(Opportunities)
  PROVE  Kept(found) \in Dicts
<1> DEFINE n == Len(found)
<1>1. /\ n \in Nat /\ n \in 0..n /\ DOMAIN found = 1..n
      /\ \A k \in 1..n : found[k] \in Opportunities
  OBVIOUS
<1>2. PICK acc : /\ acc[0] = <<>>
                 /\ \A i \in 1..n : acc[i] = KeepWorthy(acc[i - 1], found[i])
                 /\ Kept(found) = acc[n]
  <2>1. Kept(found) = Keeping!Folded(<<>>, found)
    BY DEF Kept, Keeping!Folded, FoldLeft, MapThenFoldSet, Max
  <2> DEFINE none == <<>>
  <2>3. none \in Seq(Opportunities) /\ found \in [1..n -> Opportunities]
    BY <1>1
  <2> HIDE DEF n, none
  <2>2. \E acc : /\ acc[0] = none
                 /\ \A i \in 1..n : acc[i] = KeepWorthy(acc[i - 1], found[i])
                 /\ Keeping!Folded(none, found) = acc[n]
    BY <1>1, <2>3, KeepingSteps
  <2> QED
    BY <2>1, <2>2 DEF none
<1> DEFINE done == {k \in 0..n : acc[k] \in Dicts}
<1>3. 0 \in done
  <2>1. <<>> \in Seq(Opportunities) /\ 1..Len(<<>>) = {}
    OBVIOUS
  <2>2. <<>> \in Dicts
    BY <2>1 DEF Dicts
  <2> QED
    BY <1>1, <1>2, <2>2
<1>4. ASSUME NEW k \in 1..n, k - 1 \in done
      PROVE  k \in done
  BY <1>1, <1>2, <1>4, KeepingDicts
<1>5. n \in done
  <2> HIDE DEF done, n
  <2> QED
    BY <1>1, <1>3, <1>4, InductionTo
<1> QED
  BY <1>2, <1>5

LEMMA KeptOnce ==
  ASSUME NEW found \in Seq(Opportunities)
  PROVE  Kept(found) \in Seq(Opportunities) /\ NoRepeats(Kept(found))
<1>1. /\ Kept(found) \in Seq(Opportunities)
      /\ \A l, m \in 1..Len(Kept(found)) :
           l # m => RouteKey(Kept(found)[l]) # RouteKey(Kept(found)[m])
  BY KeptIsADict DEF Dicts
<1>2. DOMAIN Kept(found) = 1..Len(Kept(found))
  BY <1>1
<1> QED
  BY <1>1, <1>2 DEF NoRepeats

-----------------------------------------------------------------------------
(***************************************************************************)
(* The router inside the engine.                                           *)
(***************************************************************************)

\* A sequence without repetitions is one of the orders of its elements.
LEMMA OrderOfItself ==
  ASSUME NEW s \in Seq(Opportunities), NoRepeats(s)
  PROVE  /\ ToSet(s) \in SUBSET Opportunities
         /\ s \in SetToSeqs(ToSet(s))
<1> DEFINE S == ToSet(s)
           n == Len(s)
<1>1. n \in Nat /\ DOMAIN s = 1..n /\ s \in [1..n -> Opportunities]
  OBVIOUS
<1>2. S = {s[i] : i \in 1..n}
  BY <1>1 DEF ToSet
<1>3. S \in SUBSET Opportunities /\ s \in [1..n -> S]
  BY <1>1, <1>2
<1>4. \A i, j \in 1..n : i # j => s[i] # s[j]
  BY <1>1 DEF NoRepeats
<1>5. \A x \in S : \E i \in 1..n : s[i] = x
  BY <1>2
<1> HIDE DEF S, n
<1>6. Cardinality(S) = n
  BY <1>1, <1>3, <1>4, <1>5, Counted
<1>7. s \in SetToSeqs(S)
  BY <1>3, <1>4, <1>6 DEF SetToSeqs
<1> QED
  BY <1>3, <1>7 DEF S

LEMMA WhatDetectGoesOnWith ==
  ASSUME NEW found \in Findings
  PROVE  /\ ToSet(Kept(found)) \in SUBSET Opportunities
         /\ Kept(found) \in SetToSeqs(ToSet(Kept(found)))
<1>1. PICK F \in SUBSET Opportunities : found \in SetToSeqs(F)
  BY DEF Findings
<1>2. found \in Seq(Opportunities)
  BY <1>1, OrderFacts
<1> QED
  BY <1>2, KeptOnce, OrderOfItself

\* Each step of the loop, of a handler or of the clock is, for the router, one
\* of its own steps or none.
LEMMA RouterStep == ExecTypeOK /\ [EngineNext]_engineVars => [RouterNext]_routerVars
<1> SUFFICES ASSUME ExecTypeOK, [EngineNext]_engineVars
             PROVE  [RouterNext]_routerVars
  OBVIOUS
<1>1. ASSUME NEW accounts \in Funded, NEW amounts \in Openings,
             SeedPaper(accounts, amounts)
      PROVE  RouterNext
  <2>1. accounts \in SUBSET Accounts
    BY EngineConstantsAreTyped
  <2>2. SetBalances(accounts, amounts)
    BY <1>1 DEF SeedPaper
  <2> QED
    BY <2>1, <2>2 DEF RouterNext
<1>2. ASSUME NEW v \in Venues, NEW assets \in Reported \cup {{}}, NEW amounts \in Openings,
             FetchBalance(v, assets, amounts)
      PROVE  RouterNext
  <2>1. {v} \X assets \in SUBSET Accounts
    BY EngineConstantsAreTyped DEF Accounts
  <2>2. SetBalances({v} \X assets, amounts)
    BY <1>2 DEF FetchBalance
  <2> QED
    BY <2>1, <2>2 DEF RouterNext
<1>3. ASSUME NEW found \in Findings, Detect(found)
      PROVE  RouterNext
  <2> DEFINE kept == Kept(found)
  <2>1. ToSet(kept) \in SUBSET Opportunities /\ kept \in SetToSeqs(ToSet(kept))
    BY WhatDetectGoesOnWith
  <2>2. \/ Bypass(kept)
        \/ \E order \in Rankings(ToSet(kept)) : Select(order)
    BY <1>3 DEF Detect
  <2> HIDE DEF kept
  <2> QED
    BY <2>1, <2>2 DEF RouterNext
<1>4. ASSUME NEW o \in Opportunities, Reject(o)
      PROVE  RouterNext
  BY <1>4 DEF Reject, RouterNext
<1>5. ASSUME NEW o \in Opportunities, Book(o)
      PROVE  RouterNext
  BY <1>5 DEF Book, RouterNext
<1>6. ASSUME NEW o \in Opportunities, NEW pnl \in Profits, TradeOnPaper(o, pnl)
      PROVE  RouterNext
  BY <1>5, <1>6 DEF TradeOnPaper
<1>7. ASSUME TradeLiveEnds
      PROVE  RouterNext
  <2>1. inflight \in LiveTrade
    BY <1>7 DEF TradeLiveEnds, FinishLive, ExecTypeOK
  <2>2. inflight.opportunity \in Opportunities
    BY <2>1 DEF LiveTrade
  <2> QED
    BY <1>5, <1>7, <2>2 DEF TradeLiveEnds
<1>8. ASSUME \/ EnterTick
             \/ StartFetching
             \/ PassOver
             \/ \E o \in Opportunities, pnl \in Profits : TradeLive(o, pnl)
             \/ LegStep
             \/ EndTick
             \/ Wake
             \/ UNCHANGED engineVars
      PROVE  UNCHANGED routerVars
  BY <1>8 DEF EnterTick, StartFetching, PassOver, TradeLive, LegStep, EndTick, Wake,
              engineVars
<1>9. ASSUME Others
      PROVE  UNCHANGED routerVars
  BY <1>9 DEF Others, SetControlMode, SetRunning, ToggleStrategy, EmergencyStop,
              SetRiskLimits, Midnight, ShutDown
<1> QED
  BY <1>1, <1>2, <1>3, <1>4, <1>6, <1>7, <1>8, <1>9 DEF EngineNext, MainStep

\* Main's loop runs the router as it is specified: a tick hands over only what
\* the filters kept, settles or releases every reservation before the next,
\* and seeds no balance in between.
THEOREM EngineRunsTheRouter == EngineSpec => RefinesRouter
<1>1. EngineInit => RouterInit
  BY DEF EngineInit
<1> QED
  BY <1>1, RouterStep, EngineExecType, PTL DEF EngineSpec, RefinesRouter, RouterSpec

\* So the accounts add up in the engine, and nothing stays locked between two
\* ticks, whatever requests, ticks and settlements come between.
THEOREM EngineKeepsTheBooks ==
  EngineSpec => [](AccountsAddUp /\ LockedMatchesReservations /\ NothingStaysLocked)
BY EngineRunsTheRouter, LedgerBalances, LocksAreReserved, LocksAreGivenBack, PTL
DEF RefinesRouter

LEMMA EngineRouterInv == EngineSpec => []RouterInv
BY EngineRunsTheRouter, RouterInvariant, PTL DEF RefinesRouter

-----------------------------------------------------------------------------
(***************************************************************************)
(* Paper trades.                                                           *)
(***************************************************************************)

LEMMA SelectReservesAll ==
  ASSUME RouterTypeOK, NEW candidates \in SUBSET Opportunities,
         NEW order \in SetToSeqs(candidates), Select(order)
  PROVE  \A o \in ToSet(to_execute') : reservations'[o] # None
<1> DEFINE s == Selection(inv, order)
<1>1. PICK n \in Nat : order \in [1..n -> Opportunities] /\ NoRepeats(order)
  BY OrderFacts
<1>2. Selected(s, inv, order, n)
  BY <1>1, TypedBooks, SelectionEffect
<1>3. reservations' = s.reservations /\ to_execute' = s.accepted
  BY DEF Select
<1> HIDE DEF s
<1>4. s.accepted \in Seq(Opportunities)
  BY <1>2 DEF Selected, Choice
<1>5. ToSet(s.accepted) \subseteq Opportunities
  BY <1>4 DEF ToSet
<1> QED
  BY <1>2, <1>3, <1>5 DEF Selected

\* Handling the head leaves the others' reservations alone.
LEMMA ResolveKeepsOthers ==
  ASSUME RouterInv, NEW o \in Opportunities, Resolve(o),
         \A p \in ToSet(to_execute) : reservations[p] # None
  PROVE  \A p \in ToSet(to_execute') : reservations'[p] # None
<1>1. /\ to_execute # <<>> /\ o = Head(to_execute) /\ to_execute' = Tail(to_execute)
      /\ reservations' = [reservations EXCEPT ![o] = None]
  BY DEF Resolve
<1>2. /\ reservations \in ReservationMaps /\ to_execute \in Seq(Opportunities)
      /\ NoRepeats(to_execute)
  BY DEF RouterInv, RouterTypeOK, ReservationMaps, ReservationsCoverTrades, NoRepeats
<1>3. ToSet(to_execute') = ToSet(to_execute) \ {o}
  BY <1>1, <1>2, TailFacts
<1>4. \A p \in Opportunities \ {o} : reservations'[p] = reservations[p]
  BY <1>1, <1>2 DEF ReservationMaps
<1>5. ToSet(to_execute) \subseteq Opportunities
  BY <1>2 DEF ToSet
<1> QED
  BY <1>3, <1>4, <1>5

\* The mode of paper trading holds from the top of a tick to its end, and what
\* the tick has left keeps its reservations.
LEMMA PaperIsReservedStep ==
  ASSUME EngineTypeOK, RouterInv, PaperIsReserved, [EngineNext]_engineVars
  PROVE  PaperIsReserved'
<1>1. CASE EnterTick
  BY <1>1 DEF PaperIsReserved, EnterTick, SetMode
<1>2. CASE \/ \E accounts \in Funded, amounts \in Openings :
                SeedPaper(accounts, amounts)
           \/ StartFetching
  BY <1>2 DEF PaperIsReserved, SeedPaper, StartFetching, SetMode
<1>3. CASE \E v \in Venues, assets \in Reported \cup {{}}, amounts \in Openings :
             FetchBalance(v, assets, amounts)
  BY <1>3 DEF PaperIsReserved, FetchBalance, execVars
<1>4. ASSUME NEW found \in Findings, Detect(found)
      PROVE  PaperIsReserved'
  <2>1. /\ pc = "tick" /\ pc' = "execute" /\ mode' = mode /\ control' = control
        /\ mode = "paper" => control.mode = "paper"
    BY <1>4 DEF PaperIsReserved, Detect, execVars
  <2> SUFFICES ASSUME mode = "paper"
               PROVE  \A o \in ToSet(to_execute') : reservations'[o] # None
    BY <2>1 DEF PaperIsReserved
  <2> DEFINE kept == Kept(found)
  <2>2. ToSet(kept) \in SUBSET Opportunities
    BY WhatDetectGoesOnWith
  <2>3. PICK order \in Rankings(ToSet(kept)) : Select(order)
    BY <1>4, <2>1 DEF Detect
  <2>4. order \in SetToSeqs(ToSet(kept)) /\ RouterTypeOK
    BY <2>3 DEF Rankings, RouterInv
  <2> HIDE DEF kept
  <2> QED
    BY <2>2, <2>3, <2>4, SelectReservesAll
<1>5. ASSUME NEW o \in Opportunities, Resolve(o), pc = "execute", pc' = "execute",
             mode' = mode, control' = control
      PROVE  PaperIsReserved'
  BY <1>5, ResolveKeepsOthers DEF PaperIsReserved
<1>6. ASSUME NEW o \in Opportunities, Reject(o)
      PROVE  PaperIsReserved'
  <2>1. /\ Resolve(o) /\ pc = "execute" /\ pc' = "execute"
        /\ mode' = mode /\ control' = control
    BY <1>6 DEF Reject, ReleaseUnfilled, Decline, HandleMonitor, Skip, mainVars
  <2> QED
    BY <1>5, <2>1
<1>7. ASSUME NEW o \in Opportunities, NEW pnl \in Profits, TradeOnPaper(o, pnl)
      PROVE  PaperIsReserved'
  <2>1. /\ Resolve(o) /\ pc = "execute" /\ pc' = "execute"
        /\ mode' = mode /\ control' = control
    BY <1>7 DEF TradeOnPaper, PaperFill, Book, SettleFill
  <2> QED
    BY <1>5, <2>1
<1>8. ASSUME NEW o \in Opportunities, NEW pnl \in Profits, TradeLive(o, pnl)
      PROVE  PaperIsReserved'
  BY <1>8 DEF PaperIsReserved, TradeLive, LiveFire
<1>9. CASE LegStep
  BY <1>9 DEF PaperIsReserved, LegStep, StartLegs, LegFills, LegFails, mainVars
<1>10. CASE TradeLiveEnds
  BY <1>10 DEF PaperIsReserved, TradeLiveEnds, FinishLive
<1>11. CASE PassOver \/ EndTick \/ Wake
  BY <1>11 DEF PaperIsReserved, PassOver, EndTick, Wake
<1>12. CASE Others
  <2>1. /\ UNCHANGED <<mode, routerVars>>
        /\ pc' \in {pc, "stopped"}
        /\ control' = control \/ pc \in {"fetch", "gather", "sleep"}
    BY <1>12 DEF Others, SetControlMode, SetRunning, ToggleStrategy, EmergencyStop,
                 SetRiskLimits, Midnight, ShutDown, SetEmergencyStop, UpdateRiskLimits,
                 NewDay, Interrupt, Serve, Suspended, execVars, mainVars
  <2> QED
    BY <2>1 DEF PaperIsReserved, routerVars
<1>13. CASE UNCHANGED engineVars
  BY <1>13 DEF PaperIsReserved, engineVars, mainVars, execVars, routerVars
<1> QED
  BY <1>1, <1>2, <1>3, <1>4, <1>6, <1>7, <1>8, <1>9, <1>10, <1>11, <1>12, <1>13
  DEF EngineNext, MainStep

LEMMA PaperStaysReserved == EngineSpec => []PaperIsReserved
<1>1. EngineInit => PaperIsReserved
  BY DEF EngineInit, PaperIsReserved
<1>2. EngineTypeOK /\ RouterInv /\ PaperIsReserved /\ [EngineNext]_engineVars
        => PaperIsReserved'
  BY PaperIsReservedStep
<1>3. EngineSpec => []EngineTypeOK
  BY EngineInvariant, PTL DEF EngineInv
<1> QED
  BY <1>1, <1>2, <1>3, EngineRouterInv, PTL DEF EngineSpec

\* What the executor trades takes something from an account.
LEMMA TradesSpend ==
  ASSUME NEW o \in Opportunities, CanVerify(o)
  PROVE  \E a \in Accounts : SpentOn(a, o) # 0
<1> DEFINE n == Len(o.legs)
<1>1. n \in Nat /\ LegIndices(o) = 1..n /\ \A i \in 1..n : o.legs[i] \in Leg
  BY LegsOf
<1>2. PICK i \in 1..n : o.legs[i].side = "sell" /\ o.legs[i].size > 0
  BY <1>1 DEF CanVerify, SellIndices
<1> DEFINE leg == o.legs[i]
           a == SpentAccount(leg)
<1>3. a \in Accounts /\ SpentAmount(leg) = leg.size /\ leg.size \in Nat
  BY <1>1, <1>2, LegAmounts DEF SpentAmount, Leg
<1>4. /\ SpentUpTo(a, o, i) = SpentUpTo(a, o, i - 1) + SpentAmount(leg)
      /\ SpentUpTo(a, o, i) <= SpentOn(a, o)
      /\ SpentUpTo(a, o, i - 1) \in Nat
      /\ SpentOn(a, o) \in Nat
  <2>1. i \in 0..n /\ i - 1 \in 0..n
    BY <1>1
  <2> QED
    BY <1>1, <2>1, SpentParts, SpentTyped
<1>5. leg.size > 0
  BY <1>2
<1> HIDE DEF leg, a
<1> QED
  BY <1>3, <1>4, <1>5

LEMMA ReservedTradesSettle ==
  ASSUME RouterInv, NEW o \in Opportunities, CanVerify(o), reservations[o] # None
  PROVE  HasReservations(o)
<1>1. PICK a \in Accounts : SpentOn(a, o) # 0
  BY TradesSpend
<1>2. ReservedOn(a, reservations[o]) = SpentOn(a, o)
  BY DEF RouterInv, ReservationsCoverTrades
<1>3. reservations[o] # <<>>
  BY <1>1, <1>2, HeldNothing
<1> QED
  BY <1>3 DEF HasReservations

LEMMA PaperBooking ==
  ASSUME RouterInv, PaperIsReserved, NEW o \in Opportunities, NEW b, BooksPaper(o, b)
  PROVE  b.settled /\ b.label = "paper"
<1>1. /\ pc = "execute" /\ mode = "paper" /\ CanVerify(o)
      /\ to_execute # <<>> /\ o = Head(to_execute)
      /\ b.label = control.mode
      /\ b.settled <=> HasReservations(o)
  BY DEF BooksPaper
<1>2. b.label = "paper"
  BY <1>1 DEF PaperIsReserved
<1>3. o \in ToSet(to_execute)
  BY <1>1 DEF RouterInv, RouterTypeOK, ToSet
<1>4. HasReservations(o)
  BY <1>1, <1>3, ReservedTradesSettle DEF PaperIsReserved
<1> QED
  BY <1>1, <1>2, <1>4

LEMMA PaperTradesStep ==
  ASSUME EngineTypeOK, ExecTypeOK, RouterInv, TradesAreBookedOnce, PaperIsReserved,
         PaperTradesAreExact, [EngineNext]_engineVars
  PROVE  PaperTradesAreExact'
<1>1. /\ trade_log \in Seq(TradeLogEntry)
      /\ bookings \in Seq(Booking)
      /\ control \in ControlState
      /\ Len(bookings) = Len(trade_log)
  BY DEF EngineTypeOK, ExecTypeOK, TradesAreBookedOnce
<1>2. CASE UNCHANGED <<trade_log, bookings>>
  BY <1>2 DEF PaperTradesAreExact
<1>3. ASSUME NEW o \in Opportunities, BooksOne(o)
      PROVE  PaperTradesAreExact'
  <2>1. PICK entry \in TradeLogEntry, b \in Booking :
          /\ trade_log' = Append(trade_log, entry)
          /\ bookings' = Append(bookings, b)
          /\ entry.mode = "paper" => BooksPaper(o, b)
    BY <1>3 DEF BooksOne
  <2>2. entry.mode = "paper" => b.settled /\ b.label = "paper"
    BY <2>1, PaperBooking
  <2>3. ASSUME NEW n \in DOMAIN trade_log', trade_log'[n].mode = "paper"
        PROVE  bookings'[n].settled /\ bookings'[n].label = "paper"
    <3>1. \/ n \in DOMAIN trade_log /\ trade_log'[n] = trade_log[n]
             /\ bookings'[n] = bookings[n]
          \/ trade_log'[n] = entry /\ bookings'[n] = b
      BY <1>1, <2>1
    <3>2. CASE trade_log'[n] = entry /\ bookings'[n] = b
      BY <2>2, <2>3, <3>2
    <3>3. CASE n \in DOMAIN trade_log /\ trade_log'[n] = trade_log[n]
               /\ bookings'[n] = bookings[n]
      BY <2>3, <3>3 DEF PaperTradesAreExact
    <3> QED
      BY <3>1, <3>2, <3>3
  <2> QED
    BY <2>3 DEF PaperTradesAreExact
<1> QED
  BY <1>1, <1>2, <1>3, BookingStep

\* Whenever the mode is switched, a paper trade is made of an opportunity whose
\* inventory was reserved, moves its balances, and is recorded as paper.
THEOREM PaperIsExact == EngineSpec => []PaperTradesAreExact
<1>1. EngineInit => PaperTradesAreExact
  BY DEF EngineInit, ExecInit, PaperTradesAreExact
<1>2. EngineTypeOK /\ ExecTypeOK /\ RouterInv /\ TradesAreBookedOnce /\
        PaperIsReserved /\ PaperTradesAreExact /\ [EngineNext]_engineVars
          => PaperTradesAreExact'
  BY PaperTradesStep
<1>3. EngineSpec => [](EngineTypeOK /\ TradesAreBookedOnce)
  BY EngineInvariant, PTL DEF EngineInv
<1> QED
  BY <1>1, <1>2, <1>3, EngineExecType, EngineRouterInv, PaperStaysReserved, PTL
  DEF EngineSpec
==============================================================================

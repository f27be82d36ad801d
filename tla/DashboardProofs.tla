---------------------------- MODULE DashboardProofs ----------------------------
(***************************************************************************)
(* Theorems about Dashboard, for any pages, browsers, requests and bounds  *)
(* on time and faults: a ticket admits once and in time, and whoever is    *)
(* served stays listed.                                                    *)
(***************************************************************************)
EXTENDS Dashboard, FiniteSetTheorems, SequenceTheorems, TLAPS

Dropping == INSTANCE FoldTheorems WITH op <- Unregister

--------------------------------------------------------------------------------
\* Lemmas about fresh tickets.

\* The values of a function on a finite set.
LEMMA FiniteValues ==
  ASSUME NEW f, IsFiniteSet(DOMAIN f), f = [x \in DOMAIN f |-> f[x]]
  PROVE  IsFiniteSet({f[x] : x \in DOMAIN f})
<1> DEFINE values == {f[x] : x \in DOMAIN f}
<1>1. f \in Surjection(DOMAIN f, values)
  BY DEF Surjection
<1> QED
  BY <1>1, FS_Surjection

LEMMA FiniteThreads == IsFiniteSet(Threads)
  BY DashboardConstantsAreTyped, FS_AddElement DEF Threads

LEMMA FiniteInHands ==
  ASSUME TicketTypes
  PROVE  IsFiniteSet(InHands)
<1> DEFINE walking == {v \in Threads : walks[v] # None}
           held == [w \in walking |-> walks[w].expired \cup {walks[w].ticket}]
           used == [s \in DOMAIN sockets |-> sockets[s].ticket]
<1>1. IsFiniteSet(Range(presented))
  <2>1. DOMAIN presented = Pages
    BY DEF TicketTypes
  <2>2. IsFiniteSet({presented[x] : x \in DOMAIN presented})
    BY <2>1, FiniteValues, DashboardConstantsAreTyped DEF TicketTypes
  <2> QED
    BY <2>2 DEF Range
<1>2. IsFiniteSet(UNION {held[w] : w \in walking})
  <2>1. IsFiniteSet(walking)
    BY FiniteThreads, FS_Subset
  <2>2. DOMAIN held = walking /\ held = [w \in DOMAIN held |-> held[w]]
    OBVIOUS
  <2>3. \A w \in walking : IsFiniteSet(held[w])
    BY FS_AddElement DEF TicketTypes
  <2> HIDE DEF held, walking
  <2>4. IsFiniteSet({held[w] : w \in DOMAIN held})
    BY <2>1, <2>2, FiniteValues
  <2>5. \A T \in {held[w] : w \in walking} : IsFiniteSet(T)
    BY <2>3
  <2> QED
    BY <2>2, <2>4, <2>5, FS_UNION
<1>3. IsFiniteSet({used[s] : s \in DOMAIN sockets})
  <2>1. DOMAIN used = DOMAIN sockets /\ used = [s \in DOMAIN used |-> used[s]]
    OBVIOUS
  <2>2. DOMAIN sockets = 1..Len(sockets) /\ Len(sockets) \in Int
    BY DEF TicketTypes
  <2>3. IsFiniteSet(DOMAIN sockets)
    BY <2>2, FS_Interval
  <2> HIDE DEF used
  <2> QED
    BY <2>1, <2>3, FiniteValues
<1>4. /\ {held[w] : w \in walking}
           = {walks[w].expired \cup {walks[w].ticket} : w \in {v \in Threads : walks[v] # None}}
      /\ {used[s] : s \in DOMAIN sockets} = {sockets[s].ticket : s \in DOMAIN sockets}
  OBVIOUS
<1> HIDE DEF held, used, walking
<1>5. IsFiniteSet(DOMAIN tickets \cup Range(presented))
  BY <1>1, FS_Union DEF TicketTypes
<1>6. IsFiniteSet(DOMAIN tickets \cup Range(presented) \cup (UNION {held[w] : w \in walking}))
  BY <1>2, <1>5, FS_Union
<1>7. InHands = (DOMAIN tickets \cup Range(presented) \cup (UNION {held[w] : w \in walking}))
                  \cup {used[s] : s \in DOMAIN sockets}
  BY <1>4 DEF InHands
<1> QED
  BY <1>3, <1>6, <1>7, FS_Union

\* There is always a number that nobody holds.
LEMMA FreshIsFresh ==
  ASSUME TicketTypes
  PROVE  Fresh \in Nat \ {0} /\ Fresh \notin InHands
<1> DEFINE n == Cardinality(InHands)
<1>1. IsFiniteSet(InHands) /\ n \in Nat
  BY FiniteInHands, FS_CardinalityType
<1> HIDE DEF n
<1>2. Cardinality(1..(n + 1)) = n + 1
  BY <1>1, FS_Interval
<1>3. ~(1..(n + 1) \subseteq InHands)
  <2> SUFFICES ASSUME 1..(n + 1) \subseteq InHands
               PROVE  FALSE
    OBVIOUS
  <2>1. Cardinality(1..(n + 1)) <= n
    BY <1>1, FS_Subset DEF n
  <2> QED
    BY <1>1, <1>2, <2>1
<1>4. \E t \in 1..(n + 1) : t \notin InHands
  BY <1>3
<1>5. Fresh \in 1..(n + 1) /\ Fresh \notin InHands
  BY <1>4 DEF Fresh, n
<1> QED
  BY <1>1, <1>5

--------------------------------------------------------------------------------
\* Lemmas about the broadcaster's list.

LEMMA WiderSeq ==
  ASSUME NEW S, NEW T, S \subseteq T, NEW list \in Seq(S)
  PROVE  list \in Seq(T)
<1>1. list \in [1..Len(list) -> S] /\ Len(list) \in Nat
  OBVIOUS
<1>2. list \in [1..Len(list) -> T]
  BY <1>1
<1> QED
  BY <1>1, <1>2

\* The first place of c.
LEMMA PlaceOf ==
  ASSUME NEW S, NEW list \in Seq(S), NEW c, \E i \in 1..Len(list) : list[i] = c
  PROVE  LET place == SelectInSeq(list, LAMBDA v : v = c)
         IN place \in 1..Len(list) /\ list[place] = c
<1> DEFINE places == {i \in 1..Len(list) : list[i] = c}
<1>1. places # {} /\ places \subseteq Nat
  OBVIOUS
<1>2. SelectInSeq(list, LAMBDA v : v = c) = Min(places)
  BY <1>1 DEF SelectInSeq
<1>3. \E least \in places : \A y \in places : least <= y
  <2> HIDE DEF places
  <2> QED
    BY <1>1, Dropping!LeastOf
<1>4. Min(places) \in places
  <2> HIDE DEF places
  <2> QED
    BY <1>3 DEF Min
<1> QED
  BY <1>2, <1>4

\* list.remove, of a list without duplicates.
LEMMA Unregistered ==
  ASSUME NEW S, NEW list \in Seq(S), IsInjective(list), NEW c
  PROVE  /\ Unregister(list, c) \in Seq(S)
         /\ IsInjective(Unregister(list, c))
         /\ ToSet(Unregister(list, c)) = ToSet(list) \ {c}
<1> DEFINE n == Len(list)
<1>1. n \in Nat /\ DOMAIN list = 1..n /\ list \in [1..n -> S]
  OBVIOUS
<1>2. CASE \E i \in 1..n : list[i] = c
  <2> DEFINE p == SelectInSeq(list, LAMBDA v : v = c)
             shorter == SubSeq(list, 1, p - 1) \o SubSeq(list, p + 1, n)
  <2>1. p \in 1..n /\ list[p] = c
    BY <1>2, PlaceOf
  <2>2. Unregister(list, c) = shorter
    BY <1>2 DEF Unregister, RemoveFirst, RemoveAt
  <2> HIDE DEF p
  <2>3. /\ shorter \in Seq(S)
        /\ DOMAIN shorter = 1..(n - 1)
        /\ \A i \in 1..(n - 1) : shorter[i] = IF i < p THEN list[i] ELSE list[i + 1]
    <3> DEFINE left == SubSeq(list, 1, p - 1)
               right == SubSeq(list, p + 1, n)
    <3>1. /\ left \in Seq(S) /\ Len(left) = p - 1
          /\ \A i \in 1..(p - 1) : left[i] = list[i]
      BY <1>1, <2>1
    <3>2. /\ right \in Seq(S) /\ Len(right) = n - p
          /\ \A i \in 1..(n - p) : right[i] = list[p + i]
      <4> DEFINE m == p + 1
      <4>1. /\ m \in Int /\ n \in Int /\ \A i \in m..n : list[i] \in S
            /\ (IF m <= n THEN n - m + 1 ELSE 0) = n - p
        BY <1>1, <2>1
      <4>2. /\ SubSeq(list, m, n) \in Seq(S)
            /\ Len(SubSeq(list, m, n)) = IF m <= n THEN n - m + 1 ELSE 0
            /\ \A i \in 1..(n - m + 1) : SubSeq(list, m, n)[i] = list[m + i - 1]
        <5> HIDE DEF m, n
        <5> QED
          BY <4>1, SubSeqProperties
      <4>3. \A i \in 1..(n - p) : i \in 1..(n - m + 1) /\ m + i - 1 = p + i
        BY <1>1, <2>1
      <4> QED
        BY <4>1, <4>2, <4>3
    <3> HIDE DEF left, right
    <3>3. /\ shorter = left \o right /\ shorter \in Seq(S)
          /\ Len(shorter) = Len(left) + Len(right)
          /\ \A i \in 1..(Len(left) + Len(right)) :
               shorter[i] = IF i <= Len(left) THEN left[i] ELSE right[i - Len(left)]
      BY <3>1, <3>2, ConcatProperties DEF left, right
    <3> HIDE DEF shorter
    <3>4. DOMAIN shorter = 1..(n - 1)
      <4>1. Len(left) + Len(right) = n - 1
        BY <1>1, <2>1, <3>1, <3>2
      <4> QED
        BY <3>3, <4>1
    <3>5. ASSUME NEW i \in 1..(n - 1)
          PROVE  shorter[i] = IF i < p THEN list[i] ELSE list[i + 1]
      <4>1. i \in 1..(Len(left) + Len(right)) /\ (i <= Len(left) <=> i < p)
        BY <1>1, <2>1, <3>1, <3>2
      <4>2. CASE i < p
        BY <2>1, <3>1, <3>3, <4>1, <4>2
      <4>3. CASE ~(i < p)
        <5>1. i - (p - 1) \in 1..(n - p) /\ p + (i - (p - 1)) = i + 1
          BY <1>1, <2>1, <4>3
        <5>2. shorter[i] = right[i - (p - 1)]
          BY <3>1, <3>3, <4>1, <4>3
        <5> QED
          BY <3>2, <4>3, <5>1, <5>2
      <4> QED
        BY <4>2, <4>3
    <3> QED
      BY <3>3, <3>4, <3>5
  <2> HIDE DEF shorter
  <2> DEFINE from(i) == IF i < p THEN i ELSE i + 1
  <2>4. \A i \in 1..(n - 1) : from(i) \in (1..n) \ {p} /\ shorter[i] = list[from(i)]
    BY <1>1, <2>1, <2>3
  <2>5. \A i, j \in 1..(n - 1) : from(i) = from(j) => i = j
    BY <1>1, <2>1
  <2>6. \A j \in (1..n) \ {p} : \E i \in 1..(n - 1) : from(i) = j
    <3> SUFFICES ASSUME NEW j \in (1..n) \ {p}
                 PROVE  \E i \in 1..(n - 1) : from(i) = j
      OBVIOUS
    <3>1. CASE j < p
      BY <1>1, <2>1, <3>1
    <3>2. CASE j > p
      <4>1. j - 1 \in 1..(n - 1) /\ from(j - 1) = j
        BY <1>1, <2>1, <3>2
      <4> QED
        BY <4>1
    <3> QED
      BY <1>1, <2>1, <3>1, <3>2
  <2> HIDE DEF from
  <2>7. IsInjective(shorter)
    BY <1>1, <2>3, <2>4, <2>5 DEF IsInjective
  <2>8. \A j \in 1..n : list[j] = c <=> j = p
    BY <1>1, <2>1 DEF IsInjective
  <2>9. ToSet(shorter) = ToSet(list) \ {c}
    BY <1>1, <2>3, <2>4, <2>6, <2>8 DEF ToSet
  <2> QED
    BY <2>2, <2>3, <2>7, <2>9
<1>3. CASE ~\E i \in 1..n : list[i] = c
  <2>1. Unregister(list, c) = list
    BY <1>3 DEF Unregister, RemoveFirst
  <2>2. c \notin ToSet(list)
    BY <1>1, <1>3 DEF ToSet
  <2> QED
    BY <2>1, <2>2
<1> QED
  BY <1>2, <1>3

LEMMA DroppingSteps ==
  ASSUME NEW S, NEW base \in Seq(S), NEW n \in Nat,
         NEW seq \in [1..n -> S], DOMAIN seq = 1..n
  PROVE  \E acc :
           /\ acc[0] = base
           /\ \A i \in 1..n : acc[i] = Unregister(acc[i - 1], seq[i])
           /\ Dropping!Folded(base, seq) = acc[n]
BY Dropping!FoldSteps, SMTT(30)

\* A publish that is over has dropped the dead, and nobody else.
LEMMA DroppedAll ==
  ASSUME NEW S, NEW list \in Seq(S), IsInjective(list),
         NEW dead \in Seq(S)
  PROVE  /\ DropDead(list, dead) \in Seq(S)
         /\ IsInjective(DropDead(list, dead))
         /\ ToSet(DropDead(list, dead)) = ToSet(list) \ ToSet(dead)
<1> DEFINE n == Len(dead)
<1>1. n \in Nat /\ DOMAIN dead = 1..n /\ dead \in [1..n -> S]
  OBVIOUS
<1>2. DropDead(list, dead) = Dropping!Folded(list, dead)
  BY DEF DropDead, Dropping!Folded, FoldLeft, MapThenFoldSet, Max
<1>3. PICK acc :
        /\ acc[0] = list
        /\ \A i \in 1..n : acc[i] = Unregister(acc[i - 1], dead[i])
        /\ Dropping!Folded(list, dead) = acc[n]
  <2> HIDE DEF n
  <2> QED
    BY <1>1, DroppingSteps
<1> DEFINE before(i) == {dead[j] : j \in 1..i}
           Dropped(i) == /\ acc[i] \in Seq(S)
                         /\ IsInjective(acc[i])
                         /\ ToSet(acc[i]) = ToSet(list) \ before(i)
           done == {i \in 0..n : Dropped(i)}
<1>4. 0 \in done
  <2>1. before(0) = {}
    OBVIOUS
  <2> QED
    BY <1>1, <1>3, <2>1
<1>5. ASSUME NEW i \in 1..n, i - 1 \in done
      PROVE  i \in done
  <2>1. before(i) = before(i - 1) \cup {dead[i]}
    <3>1. 1..i = (1..(i - 1)) \cup {i}
      BY <1>1
    <3> QED
      BY <3>1
  <2>2. Dropped(i - 1) /\ acc[i] = Unregister(acc[i - 1], dead[i])
    BY <1>3, <1>5
  <2> HIDE DEF before
  <2>3. Dropped(i)
    <3>1. acc[i - 1] \in Seq(S) /\ IsInjective(acc[i - 1])
      BY <2>2
    <3>2. /\ Unregister(acc[i - 1], dead[i]) \in Seq(S)
          /\ IsInjective(Unregister(acc[i - 1], dead[i]))
          /\ ToSet(Unregister(acc[i - 1], dead[i])) = ToSet(acc[i - 1]) \ {dead[i]}
      BY <3>1, Unregistered
    <3>3. ToSet(acc[i - 1]) \ {dead[i]} = ToSet(list) \ before(i)
      BY <2>1, <2>2
    <3> QED
      BY <2>2, <3>2, <3>3
  <2> QED
    BY <1>1, <2>3
<1>6. Dropped(n)
  <2>1. \A i \in 0..n : i \in done
    <3> HIDE DEF n, done
    <3> QED
      BY <1>1, <1>4, <1>5, Dropping!InductionTo
  <2>2. n \in 0..n
    BY <1>1
  <2> QED
    BY <2>1, <2>2
<1>7. before(n) = ToSet(dead)
  BY <1>1 DEF ToSet
<1> HIDE DEF before, n
<1> QED
  BY <1>2, <1>3, <1>6, <1>7

--------------------------------------------------------------------------------
\* The parts of a step.

TicketInv == TicketTypes /\ AdmittedAreGone /\ ExpiredAreListed /\ TicketsAdmitOnce

\* A socket's end clears its ticket; nothing else changes one that is admitted.
SocketsKeep ==
  /\ sockets' \in Seq(Socket)
  /\ DOMAIN sockets' = DOMAIN sockets
  /\ \A s \in DOMAIN sockets :
       /\ sockets'[s].ticket \in {0, sockets[s].ticket}
       /\ sockets'[s].late = sockets[s].late

LEMMA SocketStep ==
  ASSUME TicketInv, SocketsKeep,
         UNCHANGED <<now, tickets, walks>>,
         presented' \in [Pages -> Nat]
  PROVE  TicketInv'
<1>1. TicketTypes'
  BY DEF TicketInv, TicketTypes, SocketsKeep
<1>2. AdmittedAreGone'
  BY DEF TicketInv, AdmittedAreGone, SocketsKeep
<1>3. ExpiredAreListed'
  BY DEF TicketInv, ExpiredAreListed
<1>4. TicketsAdmitOnce'
  <2> SUFFICES ASSUME NEW s \in DOMAIN sockets, sockets'[s].ticket # 0
               PROVE  /\ ~sockets'[s].late
                      /\ \A other \in DOMAIN sockets :
                           sockets'[other].ticket = sockets'[s].ticket => other = s
    BY DEF TicketsAdmitOnce, SocketsKeep
  <2>1. sockets'[s].ticket = sockets[s].ticket /\ sockets'[s].late = sockets[s].late
    BY DEF SocketsKeep
  <2>2. ASSUME NEW other \in DOMAIN sockets, sockets'[other].ticket = sockets'[s].ticket
        PROVE  sockets[other].ticket = sockets[s].ticket
    BY <2>1, <2>2 DEF SocketsKeep
  <2> QED
    BY <2>1, <2>2 DEF TicketInv, TicketsAdmitOnce
<1> QED
  BY <1>1, <1>2, <1>3, <1>4 DEF TicketInv

\* A thread begins, goes on with, or ends its walk.
LEMMA WalkStep ==
  ASSUME TicketInv, UNCHANGED <<now, tickets, sockets>>,
         NEW w \in Threads, NEW walk \in Walk \cup {None},
         walks' = [walks EXCEPT ![w] = walk],
         walk # None =>
           /\ IsFiniteSet(walk.expired)
           /\ walk.clock <= now
           /\ walk.at = "delete" =>
                \A t \in DOMAIN tickets \ walk.expired : walk.clock <= tickets[t],
         presented' \in [Pages -> Nat]
  PROVE  TicketInv'
<1>1. TicketTypes'
  BY DEF TicketInv, TicketTypes
<1>2. AdmittedAreGone' /\ TicketsAdmitOnce'
  BY DEF TicketInv, AdmittedAreGone, TicketsAdmitOnce
<1>3. ExpiredAreListed'
  BY DEF TicketInv, TicketTypes, ExpiredAreListed
<1> QED
  BY <1>1, <1>2, <1>3 DEF TicketInv

LEMMA BeginStep ==
  ASSUME TicketInv, NEW w \in Threads, NEW p \in Pages, NEW again \in BOOLEAN,
         BeginWalk(w, p, again),
         UNCHANGED <<now, tickets, sockets, presented>>
  PROVE  TicketInv'
<1> DEFINE walk == [at |-> "scan", page |-> p, ticket |-> presented[p], again |-> again,
                    clock |-> now, size |-> Cardinality(DOMAIN tickets), expired |-> {}]
<1>1. Cardinality(DOMAIN tickets) \in Nat /\ presented[p] \in Nat /\ now \in Nat
  BY FS_CardinalityType DEF TicketInv, TicketTypes
<1>2. walk \in Walk
  BY <1>1 DEF Walk
<1>3. IsFiniteSet(walk.expired) /\ walk.clock <= now /\ walk.at = "scan"
  BY <1>1, FS_EmptySet
<1>4. walks' = [walks EXCEPT ![w] = walk]
  BY DEF BeginWalk
<1>5. presented' \in [Pages -> Nat]
  BY DEF TicketInv, TicketTypes
<1> HIDE DEF walk
<1> QED
  BY <1>2, <1>3, <1>4, <1>5, WalkStep

LEMMA EndScanStep ==
  ASSUME TicketInv, NEW w \in Threads, EndScan(w)
  PROVE  TicketInv'
<1> DEFINE walk == [walks[w] EXCEPT !.at = "delete", !.expired = Expired(walks[w].clock)]
<1>1. walks[w] \in Walk /\ walks[w].clock \in Nat /\ walks[w].clock <= now
  BY DEF TicketInv, TicketTypes, ExpiredAreListed, EndScan, Walk
<1>2. /\ Expired(walks[w].clock) \subseteq DOMAIN tickets
      /\ IsFiniteSet(Expired(walks[w].clock))
      /\ Expired(walks[w].clock) \subseteq Nat
  BY FS_Subset DEF TicketInv, TicketTypes, Expired
<1>3. /\ walk \in Walk
      /\ walk.expired = Expired(walks[w].clock)
      /\ walk.clock = walks[w].clock
  BY <1>1, <1>2 DEF Walk
<1>4. \A t \in DOMAIN tickets \ Expired(walks[w].clock) : walks[w].clock <= tickets[t]
  BY <1>1 DEF Expired, TicketInv, TicketTypes
<1>5. walks' = [walks EXCEPT ![w] = walk]
  BY DEF EndScan, TicketInv, TicketTypes
<1>6. UNCHANGED <<now, tickets, sockets, presented>> /\ presented' \in [Pages -> Nat]
  BY DEF EndScan, pageVars, pushVars, TicketInv, TicketTypes
<1> HIDE DEF walk
<1> QED
  BY <1>1, <1>2, <1>3, <1>4, <1>5, <1>6, WalkStep

\* Tickets are taken out of the store, by a walk that strikes them off its list.
LEMMA RemoveStep ==
  ASSUME TicketInv, UNCHANGED <<now, sockets, presented>>,
         NEW gone, tickets' = Restrict(tickets, DOMAIN tickets \ {gone}),
         NEW w \in Threads, walks[w] # None,
         walks' = [walks EXCEPT ![w].expired = @ \ {gone}]
  PROVE  TicketInv'
<1>1. /\ DOMAIN tickets' = DOMAIN tickets \ {gone}
      /\ \A t \in DOMAIN tickets' : tickets'[t] = tickets[t]
      /\ tickets' \in [DOMAIN tickets' -> Nat]
  BY DEF Restrict, TicketInv, TicketTypes
<1>2. /\ walks[w] \in Walk /\ walks' = [walks EXCEPT ![w] = [walks[w] EXCEPT !.expired = @ \ {gone}]]
  BY DEF TicketInv, TicketTypes
<1> DEFINE walk == [walks[w] EXCEPT !.expired = @ \ {gone}]
<1>3. /\ walk \in Walk /\ walk.expired = walks[w].expired \ {gone}
      /\ walk.clock = walks[w].clock /\ walk.at = walks[w].at
  BY <1>2 DEF Walk
<1>4. IsFiniteSet(walk.expired)
  <2>1. IsFiniteSet(walks[w].expired)
    BY DEF TicketInv, TicketTypes
  <2>2. IsFiniteSet(walks[w].expired \ {gone})
    BY <2>1, FS_RemoveElement
  <2> QED
    BY <1>3, <2>2
<1>5. /\ walks'[w] = walk
      /\ \A v \in Threads \ {w} : walks'[v] = walks[v]
      /\ walks' \in [Threads -> Walk \cup {None}]
  BY <1>2, <1>3 DEF TicketInv, TicketTypes
<1> HIDE DEF walk
<1>6. TicketTypes'
  <2>1. IsFiniteSet(DOMAIN tickets) /\ DOMAIN tickets \subseteq Nat
    BY DEF TicketInv, TicketTypes
  <2>2. IsFiniteSet(DOMAIN tickets \ {gone})
    BY <2>1, FS_RemoveElement
  <2>3. IsFiniteSet(DOMAIN tickets') /\ DOMAIN tickets' \subseteq Nat
    BY <1>1, <2>1, <2>2
  <2> QED
    BY <1>1, <1>4, <1>5, <2>3 DEF TicketInv, TicketTypes
<1>7. AdmittedAreGone' /\ TicketsAdmitOnce'
  BY <1>1 DEF TicketInv, AdmittedAreGone, TicketsAdmitOnce
<1>8. ExpiredAreListed'
  <2> SUFFICES ASSUME NEW v \in Threads, walks'[v] # None
               PROVE  /\ walks'[v].clock <= now
                      /\ walks'[v].at = "delete" =>
                           \A t \in DOMAIN tickets' \ walks'[v].expired :
                             walks'[v].clock <= tickets'[t]
    BY DEF ExpiredAreListed
  <2>1. CASE v = w
    BY <1>1, <1>3, <1>5, <2>1 DEF TicketInv, ExpiredAreListed
  <2>2. CASE v # w
    BY <1>1, <1>5, <2>2 DEF TicketInv, ExpiredAreListed
  <2> QED
    BY <2>1, <2>2
<1> QED
  BY <1>6, <1>7, <1>8 DEF TicketInv

\* A new ticket is no old one, and has not expired for any walk under way.
LEMMA IssueStep ==
  ASSUME TicketInv, NEW p \in Pages, Issue(p)
  PROVE  TicketInv'
<1>1. Fresh \in Nat \ {0} /\ Fresh \notin InHands
  BY FreshIsFresh DEF TicketInv
<1>2. now \in Nat /\ now + TTL \in Nat /\ now <= now + TTL
  BY DashboardConstantsAreTyped DEF TicketInv, TicketTypes
<1>3. Fresh \notin DOMAIN tickets /\ \A s \in DOMAIN sockets : sockets[s].ticket # Fresh
  BY <1>1 DEF InHands
<1>4. /\ DOMAIN tickets' = DOMAIN tickets \cup {Fresh}
      /\ tickets'[Fresh] = now + TTL
      /\ \A t \in DOMAIN tickets : tickets'[t] = tickets[t]
      /\ tickets' \in [DOMAIN tickets' -> Nat]
  BY <1>2, <1>3 DEF Issue, TicketInv, TicketTypes
<1>5. UNCHANGED <<now, sockets>> /\ walks' = [walks EXCEPT ![p] = None]
  BY DEF Issue, Walked, pushVars
<1>6. presented' \in [Pages -> Nat]
  BY <1>1 DEF Issue, TicketInv, TicketTypes
<1>7. TicketTypes'
  <2>1. IsFiniteSet(DOMAIN tickets) /\ DOMAIN tickets \subseteq Nat
    BY DEF TicketInv, TicketTypes
  <2>2. IsFiniteSet(DOMAIN tickets \cup {Fresh})
    BY <2>1, FS_AddElement
  <2>3. IsFiniteSet(DOMAIN tickets') /\ DOMAIN tickets' \subseteq Nat
    BY <1>1, <1>4, <2>1, <2>2
  <2> QED
    BY <1>4, <1>5, <1>6, <2>3 DEF TicketInv, TicketTypes
<1>8. AdmittedAreGone' /\ TicketsAdmitOnce'
  BY <1>3, <1>4, <1>5 DEF TicketInv, AdmittedAreGone, TicketsAdmitOnce
<1>9. ExpiredAreListed'
  <2> SUFFICES ASSUME NEW v \in Threads, walks'[v] # None
               PROVE  /\ walks'[v].clock <= now
                      /\ walks'[v].at = "delete" =>
                           \A t \in DOMAIN tickets' \ walks'[v].expired :
                             walks'[v].clock <= tickets'[t]
    BY <1>5 DEF ExpiredAreListed
  <2>1. walks'[v] = walks[v] /\ walks[v] \in Walk /\ walks[v].clock \in Nat
    BY <1>5 DEF TicketInv, TicketTypes, Walk
  <2> QED
    BY <1>2, <1>4, <2>1 DEF TicketInv, ExpiredAreListed
<1> QED
  BY <1>7, <1>8, <1>9 DEF TicketInv

\* A ticket that admits is taken out of the store, where it was not expired
\* when the walk began, since the walk's list is empty.
LEMMA AdmitStep ==
  ASSUME TicketInv, Admit
  PROVE  TicketInv'
<1> DEFINE walk == walks[Loop]
           known == walk.ticket \in DOMAIN tickets
           socket == [ticket |-> IF known THEN walk.ticket ELSE 0,
                      late |-> known /\ tickets[walk.ticket] < walk.clock,
                      endpoint |-> "accepting", up |-> TRUE]
<1>1. Loop \in Threads
  BY DEF Threads
<1>2. /\ walk \in Walk /\ walk # None /\ walk.ticket \in Nat /\ walk.clock \in Nat
      /\ walk.at = "delete" /\ walk.expired = {}
  BY <1>1 DEF Admit, Walked, TicketInv, TicketTypes, Walk
<1>3. ~socket.late
  <2>1. known => walk.clock <= tickets[walk.ticket] /\ tickets[walk.ticket] \in Nat
    BY <1>1, <1>2 DEF TicketInv, TicketTypes, ExpiredAreListed
  <2>2. ~(known /\ tickets[walk.ticket] < walk.clock)
    BY <1>2, <2>1
  <2>3. socket.late = (known /\ tickets[walk.ticket] < walk.clock)
    BY Zenon
  <2> QED
    BY <2>2, <2>3, Zenon
<1>4. socket \in Socket
  BY <1>2 DEF Socket
<1>5. /\ DOMAIN tickets' = DOMAIN tickets \ {walk.ticket}
      /\ \A t \in DOMAIN tickets' : tickets'[t] = tickets[t]
      /\ tickets' \in [DOMAIN tickets' -> Nat]
  BY DEF Admit, Pop, Restrict, TicketInv, TicketTypes
<1>6. sockets' = Append(sockets, socket)
  BY DEF Admit
<1>7. UNCHANGED <<now, presented>> /\ walks' = [walks EXCEPT ![Loop] = None]
  BY DEF Admit, Walked
<1>8. /\ socket.ticket # 0 => socket.ticket = walk.ticket /\ known
  OBVIOUS
<1> HIDE DEF socket, walk
<1>9. /\ sockets' \in Seq(Socket)
      /\ DOMAIN sockets' = DOMAIN sockets \cup {Len(sockets) + 1}
      /\ Len(sockets) + 1 \notin DOMAIN sockets
      /\ sockets'[Len(sockets) + 1] = socket
      /\ \A s \in DOMAIN sockets : sockets'[s] = sockets[s]
  BY <1>4, <1>6 DEF TicketInv, TicketTypes
<1>10. TicketTypes'
  <2>1. IsFiniteSet(DOMAIN tickets) /\ DOMAIN tickets \subseteq Nat
    BY DEF TicketInv, TicketTypes
  <2>2. IsFiniteSet(DOMAIN tickets \ {walk.ticket})
    BY <2>1, FS_RemoveElement
  <2>3. IsFiniteSet(DOMAIN tickets') /\ DOMAIN tickets' \subseteq Nat
    BY <1>5, <2>1, <2>2
  <2> QED
    BY <1>1, <1>5, <1>7, <1>9, <2>3 DEF TicketInv, TicketTypes
<1>11. AdmittedAreGone'
  BY <1>5, <1>8, <1>9 DEF TicketInv, AdmittedAreGone
<1>12. TicketsAdmitOnce'
  <2>1. \A s \in DOMAIN sockets : sockets[s].ticket # 0 /\ known => sockets[s].ticket # walk.ticket
    BY DEF TicketInv, AdmittedAreGone
  <2> QED
    BY <1>3, <1>8, <1>9, <2>1 DEF TicketInv, TicketsAdmitOnce
<1>13. ExpiredAreListed'
  BY <1>1, <1>5, <1>7 DEF TicketInv, TicketTypes, ExpiredAreListed
<1> QED
  BY <1>10, <1>11, <1>12, <1>13 DEF TicketInv

\* The endpoints of sockets, and connections that break.
LEMMA AcceptStep ==
  ASSUME TicketInv, NEW s \in DOMAIN sockets, Accept(s) \/ EndpointEnds(s)
  PROVE  TicketInv'
<1>1. sockets \in [1..Len(sockets) -> Socket] /\ DOMAIN sockets = 1..Len(sockets)
      /\ Len(sockets) \in Nat
  BY DEF TicketInv, TicketTypes
<1>2. UNCHANGED <<now, tickets, walks, presented>>
  BY DEF Accept, EndpointEnds, ticketVars, pageVars
<1>3. PICK socket \in Socket :
        /\ sockets' = [sockets EXCEPT ![s] = socket]
        /\ socket.ticket \in {0, sockets[s].ticket}
        /\ socket.late = sockets[s].late
  <2> DEFINE serving == [sockets[s] EXCEPT !.endpoint = "serving"]
             done == [sockets[s] EXCEPT !.endpoint = "done", !.ticket = 0]
  <2>1. sockets[s] \in Socket
    BY <1>1
  <2>2. /\ serving \in Socket /\ serving.ticket = sockets[s].ticket
        /\ serving.late = sockets[s].late
    BY <2>1 DEF Socket
  <2>3. done \in Socket /\ done.ticket = 0 /\ done.late = sockets[s].late
    BY <2>1 DEF Socket
  <2>4. \/ sockets' = [sockets EXCEPT ![s] = serving]
        \/ sockets' = [sockets EXCEPT ![s] = done]
    BY <1>1 DEF Accept, EndpointEnds
  <2> HIDE DEF serving, done
  <2> QED
    BY <2>2, <2>3, <2>4
<1>4. SocketsKeep
  BY <1>1, <1>3 DEF SocketsKeep
<1> QED
  BY <1>2, <1>4, SocketStep DEF TicketInv, TicketTypes

LEMMA DropStep ==
  ASSUME TicketInv, NEW p \in Pages, Drop(p)
  PROVE  TicketInv'
<1>1. sockets \in [1..Len(sockets) -> Socket] /\ DOMAIN sockets = 1..Len(sockets)
      /\ Len(sockets) \in Nat
  BY DEF TicketInv, TicketTypes
<1>2. UNCHANGED <<now, tickets, walks>> /\ presented' \in [Pages -> Nat]
  BY DEF Drop, ticketVars, TicketInv, TicketTypes
<1> DEFINE c == connection[p]
           broken == [sockets[c] EXCEPT !.up = FALSE]
<1>3. CASE c \in DOMAIN sockets
  <2>1. sockets[c] \in Socket
    BY <1>1, <1>3
  <2>2. broken \in Socket /\ broken.ticket = sockets[c].ticket /\ broken.late = sockets[c].late
    BY <2>1 DEF Socket
  <2>3. sockets' = [sockets EXCEPT ![c] = broken]
    BY <1>1, <1>3 DEF Drop
  <2> HIDE DEF broken, c
  <2>4. SocketsKeep
    BY <1>1, <1>3, <2>2, <2>3 DEF SocketsKeep
  <2> QED
    BY <1>2, <2>4, SocketStep
<1>4. CASE c \notin DOMAIN sockets
  <2>1. sockets' = sockets
    BY <1>1, <1>4 DEF Drop
  <2>2. SocketsKeep
    BY <1>1, <2>1 DEF SocketsKeep
  <2> QED
    BY <1>2, <2>2, SocketStep
<1> QED
  BY <1>3, <1>4

LEMMA QuietDashStep ==
  ASSUME TicketInv, UNCHANGED <<now, tickets, walks, sockets>>,
         presented' \in [Pages -> Nat]
  PROVE  TicketInv'
<1>1. SocketsKeep
  BY DEF SocketsKeep, TicketInv, TicketTypes
<1> QED
  BY <1>1, SocketStep

LEMMA TimeStep ==
  ASSUME TicketInv, TimePasses
  PROVE  TicketInv'
<1>1. now' = now + 1 /\ UNCHANGED <<tickets, walks, sockets, presented>>
  BY DEF TimePasses, pageVars, pushVars
<1>2. TicketTypes'
  BY <1>1 DEF TicketInv, TicketTypes
<1>3. AdmittedAreGone' /\ TicketsAdmitOnce'
  BY <1>1 DEF TicketInv, AdmittedAreGone, TicketsAdmitOnce
<1>4. ExpiredAreListed'
  <2>1. \A w \in Threads : walks[w] # None => walks[w].clock \in Nat
    BY DEF TicketInv, TicketTypes, Walk
  <2> QED
    BY <1>1, <2>1 DEF TicketInv, TicketTypes, ExpiredAreListed
<1> QED
  BY <1>2, <1>3, <1>4 DEF TicketInv

\* A walk that ends, with a ticket handed out or refused or with an error.
LEMMA EndWalkStep ==
  ASSUME TicketInv, NEW w \in Threads, walks' = [walks EXCEPT ![w] = None],
         UNCHANGED <<now, tickets, sockets>>,
         presented' \in [Pages -> Nat]
  PROVE  TicketInv'
  BY WalkStep

--------------------------------------------------------------------------------
LEMMA TicketInvariant == DashSpec => []TicketInv
<1>1. DashInit => TicketInv
  <2> SUFFICES ASSUME DashInit
               PROVE  TicketInv
    OBVIOUS
  <2>1. DOMAIN tickets = {} /\ DOMAIN sockets = {} /\ sockets \in Seq(Socket)
    BY DEF DashInit
  <2>2. tickets \in [DOMAIN tickets -> Nat]
    BY <2>1 DEF DashInit
  <2>3. IsFiniteSet(DOMAIN tickets)
    BY <2>1, FS_EmptySet
  <2> QED
    BY <2>1, <2>2, <2>3 DEF DashInit, TicketInv, TicketTypes, AdmittedAreGone,
                            ExpiredAreListed, TicketsAdmitOnce
<1>2. TicketInv /\ [DashNext]_dashVars => TicketInv'
  <2> SUFFICES ASSUME TicketInv, [DashNext]_dashVars
               PROVE  TicketInv'
    OBVIOUS
  <2>1. Pages \subseteq Threads /\ Loop \in Threads
    BY DEF Threads
  <2>2. presented \in [Pages -> Nat]
    BY DEF TicketInv, TicketTypes
  <2>3. ASSUME NEW w \in Threads, EndScan(w) \/ DeleteExpired(w)
        PROVE  TicketInv'
    <3>1. CASE EndScan(w)
      BY <3>1, EndScanStep
    <3>2. CASE DeleteExpired(w)
      <4> DEFINE gone == Min(walks[w].expired)
      <4>1. /\ tickets' = Restrict(tickets, DOMAIN tickets \ {gone})
            /\ walks' = [walks EXCEPT ![w].expired = @ \ {gone}]
            /\ walks[w] # None
            /\ UNCHANGED <<now, sockets, presented>>
        BY <3>2 DEF DeleteExpired, pageVars, pushVars
      <4> HIDE DEF gone
      <4> QED
        BY <4>1, RemoveStep
    <3> QED
      BY <2>3, <3>1, <3>2
  <2>4. ASSUME NEW p \in Pages, PageStep(p)
        PROVE  TicketInv'
    <3>1. CASE FetchTicket(p)
      BY <2>1, <3>1, BeginStep DEF FetchTicket, pushVars
    <3>2. CASE EndScan(p) \/ DeleteExpired(p)
      BY <2>1, <2>3, <3>2
    <3>3. CASE Issue(p)
      BY <3>3, IssueStep
    <3>4. CASE IssueFails(p)
      <4>1. /\ walks' = [walks EXCEPT ![p] = None]
            /\ UNCHANGED <<now, tickets, sockets>>
            /\ presented' \in [Pages -> Nat]
        BY <2>2, <3>4 DEF IssueFails, Breaks, pushVars
      <4> QED
        BY <2>1, <4>1, EndWalkStep
    <3>5. CASE Handshake(p)
      BY <2>1, <3>5, BeginStep DEF Handshake, pageVars, pushVars
    <3> QED
      BY <2>4, <3>1, <3>2, <3>3, <3>4, <3>5 DEF PageStep
  <2>5. CASE ConsumeStep
    <3>1. CASE EndScan(Loop) \/ DeleteExpired(Loop)
      BY <2>1, <2>3, <3>1
    <3>2. CASE Admit
      BY <3>2, AdmitStep
    <3>3. CASE Refuse \/ ConsumeFails
      <4>1. /\ walks' = [walks EXCEPT ![Loop] = None]
            /\ UNCHANGED <<now, tickets, sockets>>
            /\ presented' \in [Pages -> Nat]
        BY <2>2, <3>3 DEF Refuse, ConsumeFails, Walked, Breaks, Closed, pushVars
      <4> QED
        BY <2>1, <4>1, EndWalkStep
    <3> QED
      BY <2>5, <3>1, <3>2, <3>3 DEF ConsumeStep
  <2>6. CASE \E s \in DOMAIN sockets : EndpointStep(s)
    BY <2>6, AcceptStep DEF EndpointStep
  <2>7. CASE \/ PublishTick
             \/ \E k \in Tasks, raised \in BOOLEAN : SendReturns(k, raised)
             \/ \E r \in Requests : Change(r)
             \/ UNCHANGED dashVars
    <3>1. UNCHANGED <<now, tickets, walks, sockets, presented>>
      BY <2>7 DEF PublishTick, SendReturns, Change, dashVars, ticketVars, pageVars, pushVars
    <3> QED
      BY <2>2, <3>1, QuietDashStep
  <2>8. CASE \E p \in Pages : Replay(p)
    BY <2>1, <2>8, BeginStep DEF Replay, pushVars
  <2>9. CASE \E p \in Pages : Drop(p)
    BY <2>9, DropStep
  <2>10. CASE TimePasses
    BY <2>10, TimeStep
  <2> QED
    BY <2>4, <2>5, <2>6, <2>7, <2>8, <2>9, <2>10 DEF DashNext
<1> QED
  BY <1>1, <1>2, PTL DEF DashSpec

\* Each ticket admits one socket, and none after it expired (WsTicketStore).
\* While a ticket is in the store it has admitted nobody (AdmittedAreGone), and a
\* walk that is through leaves in the store nothing that had expired when it
\* began (ExpiredAreListed), whatever other threads do to the store meanwhile.
THEOREM TicketsAdmit == DashSpec => []TicketsAdmitOnce
<1>1. TicketInv => TicketsAdmitOnce
  BY DEF TicketInv
<1> QED
  BY <1>1, TicketInvariant, PTL

--------------------------------------------------------------------------------
\* The broadcaster.

ListenerInv == ListsNameSockets /\ ListenersAreServed

\* No socket is forgotten, and none that is down comes back up.
SocketsGrow ==
  /\ DOMAIN sockets \subseteq DOMAIN sockets'
  /\ Down \subseteq Down'

LEMMA PublishesKeep ==
  ASSUME SocketsGrow, NEW pub \in Publish
  PROVE  pub \in Publish'
<1>1. /\ pub = [event |-> pub.event, at |-> pub.at, rest |-> pub.rest, dead |-> pub.dead]
      /\ pub.event \in Nat /\ pub.at \in DOMAIN sockets
      /\ pub.rest \in Seq(DOMAIN sockets) /\ pub.dead \in Seq(Down)
  BY DEF Publish
<1>2. pub.rest \in Seq(DOMAIN sockets') /\ pub.dead \in Seq(Down')
  BY <1>1, WiderSeq DEF SocketsGrow
<1> QED
  BY <1>1, <1>2 DEF Publish, SocketsGrow

\* The sockets change, and the list does not.
LEMMA ListStays ==
  ASSUME ListenerInv, SocketsGrow,
         UNCHANGED <<clients, publishing, version>>,
         connection' \in [Pages -> DOMAIN sockets' \cup {0}],
         \A s \in DOMAIN sockets' :
           sockets'[s].endpoint = "serving" /\ sockets'[s].up =>
             s \in DOMAIN sockets /\ sockets[s].endpoint = "serving" /\ sockets[s].up,
         \A s \in DOMAIN sockets :
           sockets[s].endpoint = "serving" => sockets'[s].endpoint = "serving"
  PROVE  ListenerInv'
<1>1. clients' \in Seq(DOMAIN sockets')
  BY WiderSeq DEF ListenerInv, ListsNameSockets, SocketsGrow
<1>2. publishing' \in [Tasks -> Publish' \cup {None}]
  BY PublishesKeep DEF ListenerInv, ListsNameSockets
<1>3. ListsNameSockets'
  BY <1>1, <1>2 DEF ListenerInv, ListsNameSockets
<1>4. ToSet(clients) \subseteq DOMAIN sockets
  BY DEF ListenerInv, ListsNameSockets, ToSet
<1>5. ListenersAreServed'
  BY <1>4 DEF ListenerInv, ListenersAreServed
<1> QED
  BY <1>3, <1>5 DEF ListenerInv

LEMMA AdmitListed ==
  ASSUME TicketInv, ListenerInv, Admit
  PROVE  ListenerInv'
<1>1. PICK socket : sockets' = Append(sockets, socket) /\ socket.endpoint = "accepting"
  BY DEF Admit
<1>2. sockets \in [1..Len(sockets) -> Socket] /\ Len(sockets) \in Nat
      /\ DOMAIN sockets = 1..Len(sockets)
  BY DEF TicketInv, TicketTypes
<1>3. /\ DOMAIN sockets' = DOMAIN sockets \cup {Len(sockets) + 1}
      /\ Len(sockets) + 1 \notin DOMAIN sockets /\ Len(sockets') = Len(sockets) + 1
      /\ sockets'[Len(sockets) + 1] = socket
      /\ \A s \in DOMAIN sockets : sockets'[s] = sockets[s]
  BY <1>1, <1>2
<1>4. SocketsGrow
  BY <1>3 DEF SocketsGrow, Down
<1>5. UNCHANGED <<clients, publishing, version>>
  BY DEF Admit
<1>6. connection' \in [Pages -> DOMAIN sockets' \cup {0}]
  BY <1>3 DEF Admit, ListenerInv, ListsNameSockets
<1> QED
  BY <1>1, <1>3, <1>4, <1>5, <1>6, ListStays

LEMMA DropListed ==
  ASSUME TicketInv, ListenerInv, NEW p \in Pages, Drop(p)
  PROVE  ListenerInv'
<1>1. /\ sockets \in [1..Len(sockets) -> Socket] /\ Len(sockets) \in Nat
      /\ DOMAIN sockets = 1..Len(sockets)
      /\ connection[p] \in DOMAIN sockets
  BY DEF TicketInv, TicketTypes, ListenerInv, ListsNameSockets, Drop
<1>2. sockets' = [sockets EXCEPT ![connection[p]].up = FALSE]
  BY DEF Drop
<1>3. /\ DOMAIN sockets' = DOMAIN sockets
      /\ \A s \in DOMAIN sockets : sockets'[s].endpoint = sockets[s].endpoint
      /\ \A s \in DOMAIN sockets : sockets'[s].up => sockets[s].up
  <2>1. /\ DOMAIN sockets' = DOMAIN sockets
        /\ \A s \in DOMAIN sockets \ {connection[p]} : sockets'[s] = sockets[s]
        /\ sockets'[connection[p]] = [sockets[connection[p]] EXCEPT !.up = FALSE]
    BY <1>1, <1>2
  <2>2. sockets[connection[p]] \in Socket
    BY <1>1
  <2>3. /\ sockets'[connection[p]].up = FALSE
        /\ sockets'[connection[p]].endpoint = sockets[connection[p]].endpoint
    BY <2>1, <2>2 DEF Socket
  <2> QED
    BY <2>1, <2>3
<1>4. SocketsGrow
  BY <1>3 DEF SocketsGrow, Down
<1>5. UNCHANGED <<clients, publishing, version>>
  BY DEF Drop
<1>6. connection' \in [Pages -> DOMAIN sockets' \cup {0}]
  BY <1>3 DEF Drop, ListenerInv, ListsNameSockets
<1> QED
  BY <1>3, <1>4, <1>5, <1>6, ListStays

\* An endpoint registers its socket, or unregisters it.
LEMMA EndpointListed ==
  ASSUME TicketInv, ListenerInv, NEW s \in DOMAIN sockets, EndpointStep(s)
  PROVE  ListenerInv'
<1>1. /\ sockets \in [1..Len(sockets) -> Socket] /\ Len(sockets) \in Nat
      /\ DOMAIN sockets = 1..Len(sockets) /\ sockets[s] \in Socket
  BY DEF TicketInv, TicketTypes
<1>2. /\ clients \in Seq(DOMAIN sockets) /\ IsInjective(clients)
      /\ ToSet(clients) \subseteq DOMAIN sockets
  BY DEF ListenerInv, ListsNameSockets, ListenersAreServed, ToSet
<1>3. ASSUME NEW next,
             next = [sockets[s] EXCEPT !.endpoint = "serving"]
               \/ next = [sockets[s] EXCEPT !.endpoint = "done", !.ticket = 0],
             sockets' = [sockets EXCEPT ![s] = next]
      PROVE  /\ SocketsGrow /\ DOMAIN sockets' = DOMAIN sockets
             /\ sockets'[s] = next
             /\ next.up = sockets[s].up
             /\ \A t \in DOMAIN sockets \ {s} : sockets'[t] = sockets[t]
  <2>1. /\ DOMAIN sockets' = DOMAIN sockets
        /\ sockets'[s] = next
        /\ \A t \in DOMAIN sockets \ {s} : sockets'[t] = sockets[t]
    BY <1>1, <1>3
  <2>2. next.up = sockets[s].up
    BY <1>1, <1>3 DEF Socket
  <2>3. sockets'[s].up = sockets[s].up
    BY <2>1, <2>2
  <2> QED
    BY <2>1, <2>2, <2>3 DEF SocketsGrow, Down
<1>4. UNCHANGED <<publishing, version, connection>>
  BY DEF EndpointStep, Accept, EndpointEnds, pageVars
<1>5. ASSUME NEW list, clients' = list, list \in Seq(DOMAIN sockets),
             SocketsGrow, DOMAIN sockets' = DOMAIN sockets
      PROVE  ListsNameSockets'
  <2>1. publishing' \in [Tasks -> Publish' \cup {None}]
    BY <1>4, <1>5, PublishesKeep DEF ListenerInv, ListsNameSockets
  <2> QED
    BY <1>4, <1>5, <2>1 DEF ListenerInv, ListsNameSockets
<1>6. CASE Accept(s) /\ sockets[s].up
  <2> DEFINE next == [sockets[s] EXCEPT !.endpoint = "serving"]
  <2>1. /\ sockets' = [sockets EXCEPT ![s] = next] /\ clients' = Append(clients, s)
        /\ sockets[s].endpoint = "accepting"
    BY <1>1, <1>6 DEF Accept
  <2>2. next.endpoint = "serving"
    BY <1>1 DEF Socket
  <2>3. s \notin ToSet(clients)
    BY <2>1 DEF ListenerInv, ListenersAreServed
  <2>4. /\ Append(clients, s) \in Seq(DOMAIN sockets)
        /\ IsInjective(Append(clients, s))
        /\ ToSet(Append(clients, s)) = ToSet(clients) \cup {s}
    <3>1. /\ Len(clients) \in Nat /\ DOMAIN clients = 1..Len(clients)
          /\ DOMAIN Append(clients, s) = 1..(Len(clients) + 1)
          /\ Append(clients, s)[Len(clients) + 1] = s
          /\ \A i \in 1..Len(clients) : Append(clients, s)[i] = clients[i]
      BY <1>2
    <3>2. \A i \in 1..Len(clients) : clients[i] # s
      BY <2>3, <3>1 DEF ToSet
    <3>3. 1..(Len(clients) + 1) = (1..Len(clients)) \cup {Len(clients) + 1}
      BY <3>1
    <3>4. IsInjective(Append(clients, s))
      BY <1>2, <3>1, <3>2, <3>3 DEF IsInjective
    <3>5. ToSet(Append(clients, s)) = ToSet(clients) \cup {s}
      BY <3>1, <3>3 DEF ToSet
    <3> QED
      BY <1>2, <3>4, <3>5
  <2> HIDE DEF next
  <2>5. /\ SocketsGrow /\ DOMAIN sockets' = DOMAIN sockets /\ sockets'[s] = next
        /\ \A t \in DOMAIN sockets \ {s} : sockets'[t] = sockets[t]
    BY <1>3, <2>1 DEF next
  <2>6. ListsNameSockets'
    BY <1>5, <2>1, <2>4, <2>5
  <2>7. ListenersAreServed'
    BY <2>1, <2>2, <2>4, <2>5 DEF ListenerInv, ListenersAreServed
  <2> QED
    BY <2>6, <2>7 DEF ListenerInv
<1>7. CASE Accept(s) /\ ~sockets[s].up
  <2> DEFINE next == [sockets[s] EXCEPT !.endpoint = "done", !.ticket = 0]
  <2>1. /\ sockets' = [sockets EXCEPT ![s] = next] /\ clients' = clients
        /\ sockets[s].endpoint = "accepting"
    BY <1>1, <1>7 DEF Accept
  <2>2. next.endpoint = "done"
    BY <1>1 DEF Socket
  <2> HIDE DEF next
  <2>3. /\ SocketsGrow /\ DOMAIN sockets' = DOMAIN sockets /\ sockets'[s] = next
        /\ \A t \in DOMAIN sockets \ {s} : sockets'[t] = sockets[t]
    BY <1>3, <2>1 DEF next
  <2>4. ListsNameSockets'
    BY <1>2, <1>5, <2>1, <2>3
  <2>5. ListenersAreServed'
    BY <2>1, <2>2, <2>3 DEF ListenerInv, ListenersAreServed
  <2> QED
    BY <2>4, <2>5 DEF ListenerInv
<1>8. CASE EndpointEnds(s)
  <2> DEFINE next == [sockets[s] EXCEPT !.endpoint = "done", !.ticket = 0]
  <2>1. /\ sockets' = [sockets EXCEPT ![s] = next]
        /\ clients' = Unregister(clients, s)
    BY <1>1, <1>8 DEF EndpointEnds
  <2>2. next.endpoint = "done"
    BY <1>1 DEF Socket
  <2> HIDE DEF next
  <2>3. /\ SocketsGrow /\ DOMAIN sockets' = DOMAIN sockets /\ sockets'[s] = next
        /\ \A t \in DOMAIN sockets \ {s} : sockets'[t] = sockets[t]
    BY <1>3, <2>1 DEF next
  <2>4. /\ Unregister(clients, s) \in Seq(DOMAIN sockets)
        /\ IsInjective(Unregister(clients, s))
        /\ ToSet(Unregister(clients, s)) = ToSet(clients) \ {s}
    BY <1>2, Unregistered
  <2>5. ListsNameSockets'
    BY <1>5, <2>1, <2>3, <2>4
  <2>6. ListenersAreServed'
    BY <2>1, <2>2, <2>3, <2>4 DEF ListenerInv, ListenersAreServed
  <2> QED
    BY <2>5, <2>6 DEF ListenerInv
<1> QED
  BY <1>6, <1>7, <1>8 DEF EndpointStep

\* A publish begins with a copy of the list.
LEMMA PublishListed ==
  ASSUME ListenerInv, NEW k \in Tasks, NEW event \in Nat, StartPublish(k, event),
         UNCHANGED <<sockets, clients, connection>>, version' \in Nat
  PROVE  ListenerInv'
<1>1. publishing' \in [Tasks -> Publish \cup {None}]
  <2>1. CASE clients = <<>>
    BY <2>1 DEF StartPublish, ListenerInv, ListsNameSockets
  <2>2. CASE clients # <<>>
    <3> DEFINE pub == [event |-> event, at |-> Head(clients), rest |-> Tail(clients),
                       dead |-> <<>>]
    <3>1. /\ Head(clients) \in DOMAIN sockets
          /\ Tail(clients) \in Seq(DOMAIN sockets) /\ <<>> \in Seq(Down)
      BY <2>2, HeadTailProperties DEF ListenerInv, ListsNameSockets
    <3>2. pub \in Publish
      BY <3>1 DEF Publish
    <3>3. publishing' = [publishing EXCEPT ![k] = pub]
      BY <2>2 DEF StartPublish
    <3> HIDE DEF pub
    <3> QED
      BY <3>2, <3>3 DEF ListenerInv, ListsNameSockets
  <2> QED
    BY <2>1, <2>2
<1>2. Publish' = Publish
  BY DEF Publish, Down
<1>3. ListsNameSockets'
  BY <1>1, <1>2 DEF ListenerInv, ListsNameSockets
<1>4. ListenersAreServed'
  BY DEF ListenerInv, ListenersAreServed
<1> QED
  BY <1>3, <1>4 DEF ListenerInv

\* What a publish has found dead is down, and those it drops at the end are.
LEMMA SendListed ==
  ASSUME TicketInv, ListenerInv, NEW k \in Tasks, NEW raised \in BOOLEAN,
         SendReturns(k, raised)
  PROVE  ListenerInv'
<1> DEFINE pub == publishing[k]
           dead == IF raised THEN Append(pub.dead, pub.at) ELSE pub.dead
<1>1. pub \in Publish
  BY DEF SendReturns, ListenerInv, ListsNameSockets
<1>2. /\ pub.event \in Nat /\ pub.at \in DOMAIN sockets
      /\ pub.rest \in Seq(DOMAIN sockets) /\ pub.dead \in Seq(Down)
  BY <1>1 DEF Publish
<1>3. dead \in Seq(Down)
  <2>1. CASE raised
    <3>1. pub.at \in Down
      BY <1>2, <2>1 DEF SendReturns, Down
    <3> QED
      BY <1>2, <2>1, <3>1
  <2>2. CASE ~raised
    BY <1>2, <2>2
  <2> QED
    BY <2>1, <2>2
<1>4. UNCHANGED <<sockets, connection, version>>
  BY DEF SendReturns, pageVars
<1>5. Publish' = Publish /\ DOMAIN sockets' = DOMAIN sockets
  BY <1>4 DEF Publish, Down
<1>6. CASE pub.rest # <<>>
  <2> DEFINE next == [pub EXCEPT !.at = Head(pub.rest), !.rest = Tail(pub.rest),
                                 !.dead = dead]
  <2>1. publishing' = [publishing EXCEPT ![k] = next] /\ clients' = clients
    BY <1>6 DEF SendReturns
  <2>2. /\ Head(pub.rest) \in DOMAIN sockets
        /\ Tail(pub.rest) \in Seq(DOMAIN sockets)
    BY <1>2, <1>6, HeadTailProperties
  <2> HIDE DEF dead
  <2>3. next \in Publish
    BY <1>1, <1>3, <2>2 DEF Publish
  <2> HIDE DEF next
  <2>4. ListsNameSockets'
    BY <1>4, <1>5, <2>1, <2>3 DEF ListenerInv, ListsNameSockets
  <2>5. ListenersAreServed'
    BY <1>4, <2>1 DEF ListenerInv, ListenersAreServed
  <2> QED
    BY <2>4, <2>5 DEF ListenerInv
<1>7. CASE pub.rest = <<>>
  <2>1. publishing' = [publishing EXCEPT ![k] = None]
        /\ clients' = DropDead(clients, dead)
    BY <1>7 DEF SendReturns
  <2> HIDE DEF dead
  <2>2. clients \in Seq(DOMAIN sockets) /\ IsInjective(clients)
    BY DEF ListenerInv, ListsNameSockets, ListenersAreServed
  <2>3. dead \in Seq(DOMAIN sockets)
    <3>1. Down \subseteq DOMAIN sockets
      BY DEF Down
    <3> QED
      BY <1>3, <3>1, WiderSeq
  <2>4. /\ clients' \in Seq(DOMAIN sockets)
        /\ IsInjective(clients')
        /\ ToSet(clients') = ToSet(clients) \ ToSet(dead)
    BY <2>1, <2>2, <2>3, DroppedAll
  <2>5. \A s \in ToSet(dead) : ~sockets[s].up
    <3>1. ToSet(dead) \subseteq Down
      BY <1>3 DEF ToSet
    <3> QED
      BY <3>1 DEF Down
  <2>6. ListsNameSockets'
    BY <1>4, <1>5, <2>1, <2>4 DEF ListenerInv, ListsNameSockets
  <2>7. ListenersAreServed'
    BY <1>4, <2>4, <2>5 DEF ListenerInv, ListenersAreServed
  <2> QED
    BY <2>6, <2>7 DEF ListenerInv
<1> QED
  BY <1>6, <1>7

LEMMA QuietListStep ==
  ASSUME ListenerInv, UNCHANGED <<sockets, clients, publishing, version, connection>>
  PROVE  ListenerInv'
<1>1. Publish' = Publish
  BY DEF Publish, Down
<1> QED
  BY <1>1 DEF ListenerInv, ListsNameSockets, ListenersAreServed

\* The list holds every open socket that is served, once, and no other
\* (Broadcaster, ws_endpoint): publishes drop only what is down, which stays down
\* (ListsNameSockets), and what an endpoint and a publish both drop is gone once.
THEOREM ListenersStayServed == DashSpec => []ListenersAreServed
<1>1. DashInit => ListenerInv
  <2> SUFFICES ASSUME DashInit
               PROVE  ListenerInv
    OBVIOUS
  <2>1. DOMAIN sockets = {} /\ clients \in Seq(DOMAIN sockets) /\ DOMAIN clients = {}
    BY DEF DashInit
  <2> QED
    BY <2>1 DEF DashInit, ListenerInv, ListsNameSockets, ListenersAreServed, ToSet,
                IsInjective
<1>2. TicketInv /\ ListenerInv /\ [DashNext]_dashVars => ListenerInv'
  <2> SUFFICES ASSUME TicketInv, ListenerInv, [DashNext]_dashVars
               PROVE  ListenerInv'
    OBVIOUS
  <2>1. CASE (\E p \in Pages : PageStep(p) \/ Replay(p)) \/ TimePasses \/ UNCHANGED dashVars
    <3>1. UNCHANGED <<sockets, clients, publishing, version, connection>>
      BY <2>1 DEF PageStep, FetchTicket, EndScan, DeleteExpired, Issue, IssueFails,
                  Handshake, Replay, TimePasses, dashVars, ticketVars, pageVars, pushVars
    <3> QED
      BY <3>1, QuietListStep
  <2>2. CASE ConsumeStep /\ ~Admit
    <3>1. UNCHANGED <<sockets, clients, publishing, version, connection>>
      BY <2>2 DEF ConsumeStep, EndScan, DeleteExpired, Refuse, ConsumeFails, pageVars,
                  pushVars
    <3> QED
      BY <3>1, QuietListStep
  <2>3. CASE Admit
    BY <2>3, AdmitListed
  <2>4. CASE \E s \in DOMAIN sockets : EndpointStep(s)
    BY <2>4, EndpointListed
  <2>5. CASE PublishTick
    <3>1. /\ StartPublish(Tick, version) /\ UNCHANGED <<sockets, clients, connection, version>>
          /\ Tick \in Tasks /\ version \in Nat
      BY <2>5 DEF PublishTick, Snapshot, pageVars, Tasks, ListenerInv, ListsNameSockets
    <3> QED
      BY <3>1, PublishListed
  <2>6. CASE \E r \in Requests : Change(r)
    <3>1. PICK r \in Requests : Change(r)
      BY <2>6
    <3>2. /\ StartPublish(r, version + 1) /\ UNCHANGED <<sockets, clients, connection>>
          /\ r \in Tasks /\ version' = version + 1 /\ version + 1 \in Nat
      BY <3>1 DEF Change, Snapshot, pageVars, Tasks, ListenerInv, ListsNameSockets
    <3> QED
      BY <3>2, PublishListed
  <2>7. CASE \E k \in Tasks, raised \in BOOLEAN : SendReturns(k, raised)
    BY <2>7, SendListed
  <2>8. CASE \E p \in Pages : Drop(p)
    BY <2>8, DropListed
  <2> QED
    BY <2>1, <2>2, <2>3, <2>4, <2>5, <2>6, <2>7, <2>8 DEF DashNext
<1>3. ListenerInv => ListenersAreServed
  BY DEF ListenerInv
<1> QED
  BY <1>1, <1>2, <1>3, TicketInvariant, PTL DEF DashSpec
================================================================================

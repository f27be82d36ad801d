----------------------------- MODULE ScansProofs ------------------------------
(***************************************************************************)
(* Theorems about the detection, for every value of its constants: the     *)
(* filters keep the best of each route; the books stay sorted, and a walk  *)
(* along them costs what the best prices there are cost; and with that,    *)
(* what a tick offers, the verification before a trade, and the slippage   *)
(* of its buy order are what they say, however the books move.             *)
(***************************************************************************)
EXTENDS Filtering, Pricing, FiniteSetTheorems, SequenceTheorems, TLAPS

INSTANCE FoldTheorems WITH op <- +

Walking == INSTANCE FoldTheorems WITH op <- Take
Keeping == INSTANCE FoldTheorems WITH op <- KeepWorthy
Converting == INSTANCE FoldTheorems WITH op <- Convert

-------------------------------------------------------------------------------
\* The filters.

\* What the first k of a tick's findings have left in the dict: of each route
\* the preferred one, every route worth trading, and of two routes first the
\* one that was found first.
Preferable(best, finds, k) ==
  \A m \in 1..Len(best) : \E i \in 1..k :
    /\ best[m] = finds[i]
    /\ Worth(finds[i])
    /\ \A j \in 1..k :
         Worth(finds[j]) /\ RouteKey(finds[j]) = RouteKey(finds[i])
           => Preferred(finds, i, j)

Exhaustive(best, finds, k) ==
  \A j \in 1..k : Worth(finds[j]) =>
    \E m \in 1..Len(best) : RouteKey(best[m]) = RouteKey(finds[j])

InOrder(best, finds, k) ==
  \A l, m \in 1..Len(best) : l < m =>
    \E j \in 1..k :
      /\ Worth(finds[j])
      /\ RouteKey(finds[j]) = RouteKey(best[l])
      /\ \A i \in 1..k :
           Worth(finds[i]) /\ RouteKey(finds[i]) = RouteKey(best[m]) => j < i

KeptOf(S, best, finds, k) ==
  /\ best \in Seq(S)
  /\ Preferable(best, finds, k)
  /\ Exhaustive(best, finds, k)
  /\ InOrder(best, finds, k)

LEMMA KeptOfNone ==
  ASSUME NEW S, \A o \in S : o.net_profit_pct \in Int, NEW finds \in Seq(S)
  PROVE  KeptOf(S, <<>>, finds, 0)
<1>1. <<>> \in Seq(S) /\ 1..Len(<<>>) = {} /\ 1..0 = {}
  OBVIOUS
<1> QED
  BY <1>1 DEF KeptOf, Preferable, Exhaustive, InOrder

LEMMA KeptOfMore ==
  ASSUME NEW S, \A o \in S : o.net_profit_pct \in Int, NEW finds \in Seq(S), NEW k \in 1..Len(finds),
         NEW best, KeptOf(S, best, finds, k - 1)
  PROVE  KeptOf(S, KeepWorthy(best, finds[k]), finds, k)
<1> DEFINE o == finds[k]
           n == Len(best)
<1>1. /\ o \in S /\ best \in Seq(S)
      /\ n \in Nat /\ DOMAIN best = 1..n /\ \A m \in 1..n : best[m] \in S
  BY DEF KeptOf
<1>2. k \in 1..k /\ \A j : j \in 1..k <=> j \in 1..(k - 1) \/ j = k
  OBVIOUS
<1>3. \A m \in 1..n : \E i \in 1..(k - 1) :
        /\ best[m] = finds[i]
        /\ Worth(finds[i])
        /\ \A j \in 1..(k - 1) :
             Worth(finds[j]) /\ RouteKey(finds[j]) = RouteKey(finds[i])
               => Preferred(finds, i, j)
  BY DEF KeptOf, Preferable
<1>4. \A j \in 1..(k - 1) : Worth(finds[j]) =>
        \E m \in 1..n : RouteKey(best[m]) = RouteKey(finds[j])
  BY DEF KeptOf, Exhaustive
<1>5. \A l, m \in 1..n : l < m =>
        \E j \in 1..(k - 1) :
          /\ Worth(finds[j])
          /\ RouteKey(finds[j]) = RouteKey(best[l])
          /\ \A i \in 1..(k - 1) :
               Worth(finds[i]) /\ RouteKey(finds[i]) = RouteKey(best[m]) => j < i
  BY DEF KeptOf, InOrder
<1> HIDE DEF n
<1>6. CASE ~Worth(o)
  <2>1. KeepWorthy(best, o) = best
    BY <1>6 DEF KeepWorthy
  <2>2. \A m \in 1..n : \E i \in 1..k :
          /\ best[m] = finds[i]
          /\ Worth(finds[i])
          /\ \A j \in 1..k :
               Worth(finds[j]) /\ RouteKey(finds[j]) = RouteKey(finds[i])
                 => Preferred(finds, i, j)
    BY <1>2, <1>3, <1>6
  <2>3. \A j \in 1..k : Worth(finds[j]) =>
          \E m \in 1..n : RouteKey(best[m]) = RouteKey(finds[j])
    BY <1>2, <1>4, <1>6
  <2>4. \A l, m \in 1..n : l < m =>
          \E j \in 1..k :
            /\ Worth(finds[j])
            /\ RouteKey(finds[j]) = RouteKey(best[l])
            /\ \A i \in 1..k :
                 Worth(finds[i]) /\ RouteKey(finds[i]) = RouteKey(best[m]) => j < i
    BY <1>2, <1>5, <1>6
  <2>5. KeptOf(S, best, finds, k)
    <3>1. Preferable(best, finds, k)
      BY <2>2 DEF Preferable, n
    <3>2. Exhaustive(best, finds, k)
      BY <2>3 DEF Exhaustive, n
    <3>3. InOrder(best, finds, k)
      BY <2>4 DEF InOrder, n
    <3> QED
      BY <1>1, <3>1, <3>2, <3>3 DEF KeptOf
  <2> QED
    BY <2>1, <2>5
<1> DEFINE rivals == {i \in DOMAIN best : RouteKey(best[i]) = RouteKey(o)}
<1>7. CASE Worth(o) /\ rivals = {}
  <2> DEFINE more == Append(best, o)
  <2>1. KeepWorthy(best, o) = more
    BY <1>7 DEF KeepWorthy, KeepBetter
  <2>2. /\ more \in Seq(S) /\ Len(more) = n + 1
        /\ \A m \in 1..n : more[m] = best[m]
        /\ more[n + 1] = o
        /\ \A m : m \in 1..(n + 1) <=> m \in 1..n \/ m = n + 1
    BY <1>1 DEF n
  <2>3. \A m \in 1..n : RouteKey(best[m]) # RouteKey(o)
    BY <1>1, <1>7
  <2>4. \A j \in 1..(k - 1) : Worth(finds[j]) => RouteKey(finds[j]) # RouteKey(o)
    BY <1>4, <2>3
  <2> HIDE DEF more, rivals
  <2>5. ASSUME NEW m \in 1..(n + 1)
        PROVE  \E i \in 1..k :
                 /\ more[m] = finds[i]
                 /\ Worth(finds[i])
                 /\ \A j \in 1..k :
                      Worth(finds[j]) /\ RouteKey(finds[j]) = RouteKey(finds[i])
                        => Preferred(finds, i, j)
    <3>1. CASE m \in 1..n
      BY <1>2, <1>3, <2>2, <2>3, <3>1
    <3>2. CASE m = n + 1
      <4>1. Preferred(finds, k, k)
        BY <1>1 DEF Preferred
      <4> QED
        BY <1>2, <1>7, <2>2, <2>4, <3>2, <4>1
    <3> QED
      BY <2>2, <3>1, <3>2
  <2>6. ASSUME NEW j \in 1..k, Worth(finds[j])
        PROVE  \E m \in 1..(n + 1) : RouteKey(more[m]) = RouteKey(finds[j])
    BY <1>2, <1>4, <2>2, <2>6
  <2>7. ASSUME NEW l \in 1..(n + 1), NEW m \in 1..(n + 1), l < m
        PROVE  \E j \in 1..k :
                 /\ Worth(finds[j])
                 /\ RouteKey(finds[j]) = RouteKey(more[l])
                 /\ \A i \in 1..k :
                      Worth(finds[i]) /\ RouteKey(finds[i]) = RouteKey(more[m]) => j < i
    <3>1. l \in 1..n /\ more[l] = best[l]
      BY <1>1, <2>2, <2>7 DEF n
    <3>2. CASE m \in 1..n
      <4>1. more[m] = best[m] /\ RouteKey(best[m]) # RouteKey(o)
        BY <2>2, <2>3, <3>2
      <4> QED
        BY <1>2, <1>5, <2>7, <3>1, <3>2, <4>1
    <3>3. CASE m = n + 1
      <4>1. PICK j \in 1..(k - 1) : best[l] = finds[j] /\ Worth(finds[j])
        BY <1>3, <3>1
      <4>2. j \in 1..k /\ j < k
        OBVIOUS
      <4> QED
        BY <1>2, <2>2, <2>4, <3>1, <3>3, <4>1, <4>2
    <3> QED
      BY <2>2, <3>2, <3>3
  <2>8. KeptOf(S, more, finds, k)
    <3>1. Preferable(more, finds, k)
      BY <2>2, <2>5 DEF Preferable
    <3>2. Exhaustive(more, finds, k)
      BY <2>2, <2>6 DEF Exhaustive
    <3>3. InOrder(more, finds, k)
      BY <2>2, <2>7 DEF InOrder
    <3> QED
      BY <2>2, <3>1, <3>2, <3>3 DEF KeptOf
  <2> QED
    BY <2>1, <2>8
<1>8. CASE Worth(o) /\ rivals # {}
  <2> DEFINE next == [i \in DOMAIN best |->
                        IF i \in rivals /\ o.net_profit_pct > best[i].net_profit_pct
                        THEN o ELSE best[i]]
  <2>1. KeepWorthy(best, o) = next
    BY <1>8 DEF KeepWorthy, KeepBetter
  <2>2. \A m \in 1..n :
          next[m] = IF m \in rivals /\ o.net_profit_pct > best[m].net_profit_pct
                    THEN o ELSE best[m]
    BY <1>1
  <2>3. Len(next) = n /\ n \in Nat
    BY <1>1
  <2>4. next \in Seq(S)
    <3>1. \A m \in 1..n : next[m] \in S
      BY <1>1, <2>2
    <3>2. next \in [1..n -> S]
      BY <1>1, <3>1
    <3> HIDE DEF next
    <3> QED
      BY <2>3, <3>2
  <2>5. \A m \in 1..n : m \in rivals <=> RouteKey(best[m]) = RouteKey(o)
    BY <1>1
  <2> HIDE DEF next, rivals
  <2>6. \A m \in 1..n : RouteKey(next[m]) = RouteKey(best[m])
    BY <2>2, <2>5
  <2>7. ASSUME NEW m \in 1..n
        PROVE  \E i \in 1..k :
                 /\ next[m] = finds[i]
                 /\ Worth(finds[i])
                 /\ \A j \in 1..k :
                      Worth(finds[j]) /\ RouteKey(finds[j]) = RouteKey(finds[i])
                        => Preferred(finds, i, j)
    <3>1. PICK i \in 1..(k - 1) :
            /\ best[m] = finds[i]
            /\ Worth(finds[i])
            /\ \A j \in 1..(k - 1) :
                 Worth(finds[j]) /\ RouteKey(finds[j]) = RouteKey(finds[i])
                   => Preferred(finds, i, j)
      BY <1>3
    <3>2. i \in 1..k /\ i <= k /\ i \in Int /\ k \in Int
      OBVIOUS
    <3>3. \A j \in 1..k : finds[j] \in S /\ finds[j].net_profit_pct \in Int
      OBVIOUS
    <3>4. CASE ~(m \in rivals)
      <4>1. next[m] = finds[i] /\ RouteKey(finds[i]) # RouteKey(o)
        BY <2>2, <2>5, <3>1, <3>4
      <4> QED
        BY <1>2, <3>1, <3>2, <4>1
    <3>5. CASE m \in rivals /\ ~(o.net_profit_pct > best[m].net_profit_pct)
      <4>1. next[m] = finds[i]
        BY <2>2, <3>1, <3>5
      <4>2. Preferred(finds, i, k)
        BY <3>1, <3>2, <3>3, <3>5 DEF Preferred
      <4> QED
        BY <1>2, <3>1, <3>2, <4>1, <4>2
    <3>6. CASE m \in rivals /\ o.net_profit_pct > best[m].net_profit_pct
      <4>1. next[m] = finds[k] /\ RouteKey(finds[k]) = RouteKey(finds[i])
        BY <2>2, <2>5, <3>1, <3>6
      <4>2. ASSUME NEW j \in 1..k, Worth(finds[j]), RouteKey(finds[j]) = RouteKey(finds[k])
            PROVE  Preferred(finds, k, j)
        <5>1. CASE j = k
          BY <3>3, <5>1 DEF Preferred
        <5>2. CASE j \in 1..(k - 1)
          <6>1. Preferred(finds, i, j)
            BY <3>1, <4>1, <4>2, <5>2
          <6>2. /\ finds[k].net_profit_pct > finds[i].net_profit_pct
                /\ finds[i].net_profit_pct >= finds[j].net_profit_pct
                /\ finds[k].net_profit_pct \in Int /\ finds[i].net_profit_pct \in Int
                /\ finds[j].net_profit_pct \in Int
            BY <3>1, <3>2, <3>3, <3>6, <6>1 DEF Preferred
          <6>3. finds[k].net_profit_pct > finds[j].net_profit_pct
            BY <6>2
          <6> QED
            BY <6>3 DEF Preferred
        <5> QED
          BY <1>2, <5>1, <5>2
      <4> QED
        BY <1>2, <1>8, <4>1, <4>2
    <3> QED
      BY <3>4, <3>5, <3>6
  <2>8. ASSUME NEW j \in 1..k, Worth(finds[j])
        PROVE  \E m \in 1..n : RouteKey(next[m]) = RouteKey(finds[j])
    <3>1. CASE j = k
      <4>1. PICK m \in 1..n : m \in rivals
        BY <1>1, <1>8 DEF rivals
      <4> QED
        BY <2>5, <2>6, <3>1, <4>1
    <3>2. CASE j \in 1..(k - 1)
      BY <1>4, <2>6, <2>8, <3>2
    <3> QED
      BY <1>2, <3>1, <3>2
  <2>9. ASSUME NEW l \in 1..n, NEW m \in 1..n, l < m
        PROVE  \E j \in 1..k :
                 /\ Worth(finds[j])
                 /\ RouteKey(finds[j]) = RouteKey(next[l])
                 /\ \A i \in 1..k :
                      Worth(finds[i]) /\ RouteKey(finds[i]) = RouteKey(next[m]) => j < i
    <3>1. PICK j \in 1..(k - 1) :
            /\ Worth(finds[j])
            /\ RouteKey(finds[j]) = RouteKey(best[l])
            /\ \A i \in 1..(k - 1) :
                 Worth(finds[i]) /\ RouteKey(finds[i]) = RouteKey(best[m]) => j < i
      BY <1>5, <2>9
    <3>2. j \in 1..k /\ j < k
      OBVIOUS
    <3> QED
      BY <1>2, <2>6, <3>1, <3>2
  <2>10. KeptOf(S, next, finds, k)
    <3>1. Preferable(next, finds, k)
      BY <2>3, <2>7 DEF Preferable
    <3>2. Exhaustive(next, finds, k)
      BY <2>3, <2>8 DEF Exhaustive
    <3>3. InOrder(next, finds, k)
      BY <2>3, <2>9 DEF InOrder
    <3> QED
      BY <2>4, <3>1, <3>2, <3>3 DEF KeptOf
  <2> QED
    BY <2>1, <2>10
<1> QED
  BY <1>6, <1>7, <1>8

LEMMA KeptOfAll ==
  ASSUME NEW S, \A o \in S : o.net_profit_pct \in Int, NEW finds \in Seq(S)
  PROVE  KeptOf(S, Kept(finds), finds, Len(finds))
<1> DEFINE n == Len(finds)
<1>1. n \in Nat /\ n \in 0..n /\ DOMAIN finds = 1..n
  OBVIOUS
<1>2. PICK acc : /\ acc[0] = <<>>
                 /\ \A i \in 1..n : acc[i] = KeepWorthy(acc[i - 1], finds[i])
                 /\ Kept(finds) = acc[n]
  <2> DEFINE none == <<>>
  <2>1. Kept(finds) = Keeping!Folded(none, finds)
    BY DEF Kept, Keeping!Folded, FoldLeft, MapThenFoldSet, Max
  <2> HIDE DEF n, none
  <2>2. Keeping!FoldsTo(none, finds, n)
    BY <1>1, Keeping!Folding
  <2> QED
    BY <2>1, <2>2 DEF Keeping!FoldsTo, none
<1> DEFINE done == {k \in 0..n : KeptOf(S, acc[k], finds, k)}
<1>3. 0 \in done
  BY <1>1, <1>2, KeptOfNone
<1>4. ASSUME NEW k \in 1..n, k - 1 \in done
      PROVE  k \in done
  <2>1. KeptOf(S, acc[k - 1], finds, k - 1) /\ k \in 0..n
    BY <1>4
  <2> QED
    BY <1>2, <2>1, KeptOfMore
<1>5. n \in done
  <2> HIDE DEF done, n
  <2> QED
    BY <1>1, <1>3, <1>4, InductionTo
<1> QED
  BY <1>2, <1>5

LEMMA KeptTyped ==
  ASSUME NEW S, \A o \in S : o.net_profit_pct \in Int, NEW finds \in Seq(S)
  PROVE  Kept(finds) \in Seq(S)
BY KeptOfAll DEF KeptOf

\* Of a tick's findings, exactly the best of each route worth trading are
\* recorded, traded and counted, once each, whatever else was found and in
\* whatever order (dedupe_by_route after the two filters).
THEOREM FilterKeepsTheBest ==
  ASSUME NEW S, \A o \in S : o.net_profit_pct \in Int, NEW finds \in Seq(S)
  PROVE  KeepsTheBest(finds)
<1> DEFINE n == Len(finds)
           kept == Kept(finds)
           last == Len(kept)
           best == BestPlaces(finds)
           route(m) == RouteKey(kept[m])
           first(m) == FirstPlace(finds, route(m))
<1>1. /\ n \in Nat /\ DOMAIN finds = 1..n
      /\ last \in Nat /\ DOMAIN kept = 1..last
      /\ \A i \in 1..n : finds[i] \in S
  BY KeptTyped
<1>2. /\ Preferable(kept, finds, n)
      /\ Exhaustive(kept, finds, n)
      /\ InOrder(kept, finds, n)
  BY KeptOfAll DEF KeptOf
<1>3. \A r, j : j \in PlacesOf(finds, r)
                  <=> j \in 1..n /\ Worth(finds[j]) /\ RouteKey(finds[j]) = r
  BY <1>1 DEF PlacesOf
<1>4. \A i : i \in best
               <=> /\ i \in 1..n /\ Worth(finds[i])
                   /\ \A j \in 1..n :
                        Worth(finds[j]) /\ RouteKey(finds[j]) = RouteKey(finds[i])
                          => Preferred(finds, i, j)
  BY <1>1 DEF BestPlaces, PlacesOf
<1>5. \A m \in 1..last : \E i \in best : kept[m] = finds[i]
  BY <1>2, <1>4 DEF Preferable
<1>6. \A i \in best : \E m \in 1..last : route(m) = RouteKey(finds[i])
  BY <1>2, <1>4 DEF Exhaustive
<1>7. \A l, m \in 1..last : l < m =>
        \E j \in 1..n :
          /\ Worth(finds[j]) /\ RouteKey(finds[j]) = route(l)
          /\ \A i \in 1..n :
               Worth(finds[i]) /\ RouteKey(finds[i]) = route(m) => j < i
  BY <1>2 DEF InOrder
<1>8. \A i \in 1..n : finds[i].net_profit_pct \in Int
  BY <1>1
<1> HIDE DEF n, last, kept, best
<1>9. ASSUME NEW h \in best, NEW i \in best, RouteKey(finds[h]) = RouteKey(finds[i])
      PROVE  h = i
  <2>1. Preferred(finds, h, i) /\ Preferred(finds, i, h)
    BY <1>4, <1>9
  <2>2. /\ finds[h].net_profit_pct \in Int /\ finds[i].net_profit_pct \in Int
        /\ h \in Int /\ i \in Int
    BY <1>4, <1>8
  <2> QED
    BY <2>1, <2>2 DEF Preferred
<1>10. \A i \in best : \E m \in 1..last : kept[m] = finds[i]
  BY <1>5, <1>6, <1>9
<1>11. ToSet(kept) = {finds[i] : i \in best}
  <2>1. ToSet(kept) = {kept[m] : m \in 1..last}
    BY <1>1 DEF ToSet
  <2> QED
    BY <1>5, <1>10, <2>1
<1>12. \A l, m \in 1..last : l # m => kept[l] # kept[m]
  <2>1. ASSUME NEW l \in 1..last, NEW m \in 1..last, l < m
        PROVE  kept[l] # kept[m]
    <3>1. PICK j \in 1..n :
            /\ Worth(finds[j]) /\ RouteKey(finds[j]) = route(l)
            /\ \A i \in 1..n :
                 Worth(finds[i]) /\ RouteKey(finds[i]) = route(m) => j < i
      BY <1>7, <2>1
    <3>2. ~(j < j)
      OBVIOUS
    <3> QED
      BY <3>1, <3>2
  <2>2. \A l, m \in 1..last : l # m => l < m \/ m < l
    BY <1>1
  <2> QED
    BY <2>1, <2>2
<1>13. Cardinality(best) = last
  <2> DEFINE place == [m \in 1..last |-> CHOOSE i \in best : kept[m] = finds[i]]
  <2>1. \A m \in 1..last : place[m] \in best /\ kept[m] = finds[place[m]]
    BY <1>5
  <2>2. place \in [1..last -> best]
    BY <2>1
  <2> HIDE DEF place
  <2>3. \A l, m \in 1..last : l # m => place[l] # place[m]
    BY <1>12, <2>1
  <2>4. \A i \in best : \E m \in 1..last : place[m] = i
    BY <1>9, <1>10, <2>1
  <2> QED
    BY <1>1, <2>2, <2>3, <2>4, Counted
<1>14. ASSUME NEW m \in 1..last
       PROVE  first(m) \in PlacesOf(finds, route(m))
              /\ \A j \in PlacesOf(finds, route(m)) : first(m) <= j
  <2> DEFINE places == PlacesOf(finds, route(m))
  <2>1. PICK i \in best : kept[m] = finds[i]
    BY <1>5
  <2>2. i \in places
    BY <1>3, <1>4, <2>1
  <2>3. places \subseteq Nat /\ places # {}
    BY <1>1, <1>3, <2>2
  <2> HIDE DEF places
  <2>4. \E j \in places : \A k \in places : j <= k
    BY <2>3, LeastOf
  <2> QED
    BY <2>4 DEF FirstPlace, places
<1>15. ASSUME NEW l \in 1..last, NEW m \in 1..last, l < m
       PROVE  first(l) < first(m)
  <2>1. PICK j \in 1..n :
          /\ Worth(finds[j]) /\ RouteKey(finds[j]) = route(l)
          /\ \A i \in 1..n :
               Worth(finds[i]) /\ RouteKey(finds[i]) = route(m) => j < i
    BY <1>7, <1>15
  <2>2. first(l) \in PlacesOf(finds, route(l)) /\ first(l) <= j
    BY <1>3, <1>14, <2>1
  <2>3. first(m) \in PlacesOf(finds, route(m))
    BY <1>14
  <2> HIDE DEF first, route
  <2>4. first(l) \in 1..n /\ first(m) \in 1..n /\ j < first(m)
    BY <1>3, <2>1, <2>2, <2>3
  <2> QED
    BY <1>1, <2>2, <2>4
<1> QED
  <2> USE DEF kept, last, best
  <2> QED
    BY <1>1, <1>11, <1>13, <1>15 DEF KeepsTheBest

\* Whatever the strategies find in a tick, in whatever order, main goes on with
\* the best of each physical trade.
THEOREM BestOfEachRoute == FilterSpec => []OneBestPerRoute
<1> DEFINE Inv == found \in Seq(Opportunities)
<1>1. FilterInit => Inv
  BY DEF FilterInit
<1>2. Inv /\ [FilterNext]_found => Inv'
  BY DEF FilterNext, Find
<1>3. Inv => OneBestPerRoute
  <2>1. \A o \in Opportunities : o.net_profit_pct \in Int
    BY OpportunitiesAreTyped DEF OpportunityRecord
  <2> QED
    BY <2>1, FilterKeepsTheBest DEF OneBestPerRoute
<1> QED
  BY <1>1, <1>2, <1>3, PTL DEF FilterSpec

-------------------------------------------------------------------------------
\* Books stay sorted.

\* A side from its best price on, one level of each price.
Ordered(levels, side) ==
  \A m, n \in 1..Len(levels) : m < n => Better(levels[m], levels[n], side)

GoodBook(b) ==
  /\ b \in Book
  /\ Ordered(b.bids, "sell") /\ Ordered(b.asks, "buy")
  /\ \A n \in 1..Len(b.asks) : MaxTradeUsd % b.asks[n].price = 0

BooksInv ==
  /\ DOMAIN books = Listed
  /\ \A k \in Listed : books[k] # None => GoodBook(books[k])

LEMMA LevelFields ==
  ASSUME NEW l \in Level
  PROVE  l.price \in Nat \ {0} /\ l.size \in Nat \ {0}
BY DEF Level

LEMMA OneKey ==
  ASSUME NEW a \in Int, NEW b \in Int
  PROVE  Precedes(<<a>>, <<b>>) <=> a < b
<1>1. DOMAIN <<a>> = 1..1 /\ <<a>>[1] = a /\ <<b>>[1] = b
  OBVIOUS
<1>2. 1..1 = {1} /\ 1..(1 - 1) = {}
  OBVIOUS
<1> QED
  BY <1>1, <1>2 DEF Precedes

\* A side sorted by its prices, times one or minus one.
LEMMA SortedByPrice ==
  ASSUME NEW L \in SUBSET Level, IsSide(L), NEW sign \in {-1, 1}
  PROVE  LET list == SortedBy(L, [l \in L |-> <<sign * l.price>>])
         IN /\ list \in Seq(Level)
            /\ \A x : x \in L <=> \E n \in 1..Len(list) : list[n] = x
            /\ \A m, n \in 1..Len(list) :
                 m < n => sign * list[m].price < sign * list[n].price
<1> DEFINE rank == [l \in L |-> <<sign * l.price>>]
           list == SortedBy(L, rank)
           one == 1
<1>1. IsFiniteSet(L) /\ \A a, b \in L : a.price = b.price => a = b
  BY DEF IsSide
<1>2. \A l \in L : l.price \in Int /\ sign * l.price \in Int /\ rank[l] = <<sign * l.price>>
  BY LevelFields
<1>3. rank \in [L -> [1..one -> Int]] /\ one \in Nat
  BY <1>2
<1>4. ASSUME NEW a \in L, NEW b \in L, rank[a] = rank[b]
      PROVE  a = b
  <2>1. sign * a.price = sign * b.price
    BY <1>2, <1>4
  <2>2. \A x, y \in Int : sign * x = sign * y => x = y
    <3>1. CASE sign = 1
      BY <3>1
    <3>2. CASE sign = -1
      BY <3>2
    <3> QED
      BY <3>1, <3>2
  <2>3. a.price = b.price
    BY <1>2, <2>1, <2>2
  <2> QED
    BY <1>1, <2>3
<1> HIDE DEF rank, one
<1>5. /\ list \in Seq(L)
      /\ \A x \in L : \E n \in 1..Len(list) : list[n] = x
      /\ \A m, n \in 1..Len(list) : m < n => Precedes(rank[list[m]], rank[list[n]])
  <2>1. list \in Seq(L)
    BY <1>1, <1>3, <1>4, SortedByOrders
  <2>2. \A x \in L : \E n \in 1..Len(list) : list[n] = x
    BY <1>1, <1>3, <1>4, SortedByOrders
  <2>3. \A m, n \in 1..Len(list) : m < n => Precedes(rank[list[m]], rank[list[n]])
    BY <1>1, <1>3, <1>4, SortedByOrders
  <2> QED
    BY <2>1, <2>2, <2>3
<1> HIDE DEF list
<1>6. \A n \in 1..Len(list) : list[n] \in L
  BY <1>5
<1>7. list \in Seq(Level)
  BY <1>5
<1>8. ASSUME NEW m \in 1..Len(list), NEW n \in 1..Len(list), m < n
      PROVE  sign * list[m].price < sign * list[n].price
  <2>1. Precedes(rank[list[m]], rank[list[n]])
    BY <1>5, <1>8
  <2>2. Precedes(<<sign * list[m].price>>, <<sign * list[n].price>>)
    BY <1>2, <1>6, <2>1
  <2> QED
    BY <1>2, <1>6, <2>2, OneKey
<1> QED
  BY <1>5, <1>6, <1>7, <1>8 DEF list, rank

LEMMA SidesAreSorted ==
  ASSUME NEW L \in SUBSET Level, IsSide(L)
  PROVE  /\ Cheapest(L) \in Seq(Level) /\ Ordered(Cheapest(L), "buy")
         /\ \A n \in 1..Len(Cheapest(L)) : Cheapest(L)[n] \in L
         /\ Dearest(L) \in Seq(Level) /\ Ordered(Dearest(L), "sell")
<1>1. \A l \in L : l.price \in Int
  BY LevelFields
<1>2. /\ Cheapest(L) \in Seq(Level) /\ Ordered(Cheapest(L), "buy")
      /\ \A n \in 1..Len(Cheapest(L)) : Cheapest(L)[n] \in L
  <2> DEFINE sign == 1
             rank == [l \in L |-> <<sign * l.price>>]
             list == SortedBy(L, rank)
  <2>1. rank = [l \in L |-> <<l.price>>]
    BY <1>1
  <2>2. Cheapest(L) = list
    BY <2>1 DEF Cheapest
  <2>3. sign \in {-1, 1}
    OBVIOUS
  <2>4. \A x \in Int : sign * x = x
    OBVIOUS
  <2> HIDE DEF sign
  <2>5. /\ list \in Seq(Level)
        /\ \A x : x \in L <=> \E n \in 1..Len(list) : list[n] = x
        /\ \A m, n \in 1..Len(list) :
             m < n => sign * list[m].price < sign * list[n].price
    BY <2>3, SortedByPrice
  <2> HIDE DEF list
  <2>6. \A n \in 1..Len(list) : list[n] \in L
    BY <2>5
  <2>7. Ordered(list, "buy")
    BY <1>1, <2>4, <2>5, <2>6 DEF Ordered, Better
  <2> QED
    BY <2>2, <2>5, <2>6, <2>7
<1>3. Dearest(L) \in Seq(Level) /\ Ordered(Dearest(L), "sell")
  <2> DEFINE sign == -1
             rank == [l \in L |-> <<sign * l.price>>]
             list == SortedBy(L, rank)
  <2>1. rank = [l \in L |-> <<-l.price>>]
    BY <1>1
  <2>2. Dearest(L) = list
    BY <2>1 DEF Dearest
  <2>3. sign \in {-1, 1}
    OBVIOUS
  <2>4. \A x \in Int : sign * x = -x
    OBVIOUS
  <2> HIDE DEF sign
  <2>5. /\ list \in Seq(Level)
        /\ \A x : x \in L <=> \E n \in 1..Len(list) : list[n] = x
        /\ \A m, n \in 1..Len(list) :
             m < n => sign * list[m].price < sign * list[n].price
    BY <2>3, SortedByPrice
  <2> HIDE DEF list
  <2>6. \A n \in 1..Len(list) : list[n] \in L
    BY <2>5
  <2>7. Ordered(list, "sell")
    BY <1>1, <2>4, <2>5, <2>6 DEF Ordered, Better
  <2> QED
    BY <2>2, <2>5, <2>7
<1> QED
  BY <1>2, <1>3

\* A diff of a sorted side leaves one level of each price.
LEMMA PatchedSide ==
  ASSUME NEW levels \in Seq(Level), NEW side, Ordered(levels, side),
         NEW updates \in SUBSET Change, IsSide(updates)
  PROVE  /\ Patched(levels, updates) \in SUBSET Level
         /\ IsSide(Patched(levels, updates))
         /\ \A l \in Patched(levels, updates) :
              l \in updates \/ \E n \in 1..Len(levels) : l = levels[n]
<1> DEFINE old == {l \in ToSet(levels) : \A u \in updates : u.price # l.price}
           new == {u \in updates : u.size > 0}
<1>1. \A l : l \in ToSet(levels) <=> \E n \in 1..Len(levels) : l = levels[n]
  BY DEF ToSet
<1>2. \A n \in 1..Len(levels) : levels[n] \in Level /\ levels[n].price \in Nat
  BY LevelFields
<1>3. \A u \in updates : u.price \in Nat \ {0} /\ u.size \in Nat /\ (u.size > 0 => u \in Level)
  BY DEF Change, Level
<1>4. IsFiniteSet(ToSet(levels))
  <2>1. ToSet(levels) = Range(levels)
    BY DEF ToSet, Range
  <2> QED
    BY <2>1, RangeOfList
<1>5. IsFiniteSet(old \cup new)
  <2>1. IsFiniteSet(old)
    <3>1. old \in SUBSET ToSet(levels)
      OBVIOUS
    <3> QED
      BY <1>4, <3>1, FS_Subset
  <2>2. IsFiniteSet(new)
    <3>1. new \in SUBSET updates /\ IsFiniteSet(updates)
      BY DEF IsSide
    <3> QED
      BY <3>1, FS_Subset
  <2> QED
    BY <2>1, <2>2, FS_Union
<1>6. \A m, n \in 1..Len(levels) : levels[m].price = levels[n].price => m = n
  <2>1. ASSUME NEW m \in 1..Len(levels), NEW n \in 1..Len(levels), m < n
        PROVE  levels[m].price # levels[n].price
    BY <1>2, <2>1 DEF Ordered, Better
  <2>2. \A m, n \in 1..Len(levels) : m < n \/ n < m \/ m = n
    OBVIOUS
  <2> QED
    BY <2>1, <2>2
<1>7. \A a, b \in old \cup new : a.price = b.price => a = b
  <2>1. \A a, b \in old : a.price = b.price => a = b
    BY <1>1, <1>6
  <2>2. \A a, b \in new : a.price = b.price => a = b
    BY DEF IsSide
  <2>3. \A a \in old, b \in new : a.price # b.price
    OBVIOUS
  <2> QED
    BY <2>1, <2>2, <2>3
<1>8. Patched(levels, updates) = old \cup new
  BY DEF Patched
<1>9. old \cup new \in SUBSET Level
  BY <1>1, <1>2, <1>3
<1>10. \A l \in old \cup new : l \in updates \/ \E n \in 1..Len(levels) : l = levels[n]
  BY <1>1
<1> QED
  BY <1>5, <1>7, <1>8, <1>9, <1>10 DEF IsSide

LEMMA NewBook ==
  ASSUME NEW bids \in SUBSET Level, IsSide(bids), NEW asks \in SUBSET Level, IsSide(asks),
         \A l \in asks : MaxTradeUsd % l.price = 0
  PROVE  GoodBook(State(bids, asks))
<1>1. /\ Dearest(bids) \in Seq(Level) /\ Ordered(Dearest(bids), "sell")
      /\ Cheapest(asks) \in Seq(Level) /\ Ordered(Cheapest(asks), "buy")
      /\ \A n \in 1..Len(Cheapest(asks)) : Cheapest(asks)[n] \in asks
  BY SidesAreSorted
<1>2. 0 \in 0 .. Staleness + 1
  BY BooksConstantsAreTyped
<1> QED
  BY <1>1, <1>2 DEF GoodBook, Book, State

LEMMA NotNone ==
  ASSUME NEW b, GoodBook(b)
  PROVE  b # None
BY NoneIsNoBook DEF GoodBook

LEMMA BooksStart == PricingInit => BooksInv
BY DEF PricingInit, BooksInit, BooksInv

\* A step leaves a book as it is, or makes a good one of it.
BooksMove ==
  /\ DOMAIN books' = Listed
  /\ \A k \in Listed : books'[k] = books[k] \/ GoodBook(books'[k])

LEMMA PollStep ==
  ASSUME BooksInv, NEW k \in Listed, Poll(k)
  PROVE  BooksMove
<1>1. PICK sides \in Polled[k] : books' = [books EXCEPT ![k] = State(sides[1], sides[2])]
  BY DEF Poll, Replace
<1>2. /\ sides[1] \in SUBSET Level /\ IsSide(sides[1])
      /\ sides[2] \in SUBSET Level /\ IsSide(sides[2])
  BY PricingConstantsAreTyped
<1>3. \A l \in sides[2] : MaxTradeUsd % l.price = 0
  BY TradesAreExact
<1>4. GoodBook(State(sides[1], sides[2]))
  BY <1>2, <1>3, NewBook
<1> QED
  BY <1>1, <1>4 DEF BooksInv, BooksMove

LEMMA PatchStep ==
  ASSUME BooksInv, NEW k \in Listed, Patch(k)
  PROVE  BooksMove
<1> DEFINE bids(sides) == Patched(books[k].bids, sides[1])
           asks(sides) == Patched(books[k].asks, sides[2])
<1>1. PICK sides \in Patches[k] :
        books' = [books EXCEPT ![k] = State(bids(sides), asks(sides))] /\ Known(k)
  BY DEF Patch, ApplyDiff
<1>2. /\ sides[1] \in SUBSET Change /\ IsSide(sides[1])
      /\ sides[2] \in SUBSET Change /\ IsSide(sides[2])
  BY PricingConstantsAreTyped
<1>3. GoodBook(books[k])
  BY <1>1 DEF BooksInv, Known
<1>4. bids(sides) \in SUBSET Level /\ IsSide(bids(sides))
  BY <1>2, <1>3, PatchedSide DEF GoodBook, Book
<1>5. /\ asks(sides) \in SUBSET Level /\ IsSide(asks(sides))
      /\ \A l \in asks(sides) :
           l \in sides[2] \/ \E n \in 1..Len(books[k].asks) : l = books[k].asks[n]
  BY <1>2, <1>3, PatchedSide DEF GoodBook, Book
<1>6. \A l \in asks(sides) : MaxTradeUsd % l.price = 0
  BY <1>3, <1>5, TradesAreExact DEF GoodBook, Book
<1> HIDE DEF bids, asks
<1>7. GoodBook(State(bids(sides), asks(sides)))
  BY <1>4, <1>5, <1>6, NewBook
<1> QED
  BY <1>1, <1>7 DEF BooksInv, BooksMove

LEMMA WaitStep ==
  ASSUME BooksInv, Wait
  PROVE  BooksMove
<1>1. books' = [k \in Listed |->
                  IF Known(k) /\ books[k].age <= Staleness
                  THEN [books[k] EXCEPT !.age = @ + 1] ELSE books[k]]
  BY DEF Wait, Age
<1>2. ASSUME NEW k \in Listed
      PROVE  books'[k] = books[k] \/ GoodBook(books'[k])
  <2>1. CASE Known(k) /\ books[k].age <= Staleness
    <3>1. GoodBook(books[k])
      BY <2>1 DEF BooksInv, Known
    <3>2. books'[k] = [books[k] EXCEPT !.age = @ + 1]
      BY <1>1, <2>1
    <3> QED
      BY <2>1, <3>1, <3>2, BooksConstantsAreTyped DEF GoodBook, Book
  <2>2. CASE ~(Known(k) /\ books[k].age <= Staleness)
    BY <1>1, <2>2
  <2> QED
    BY <2>1, <2>2
<1> QED
  BY <1>1, <1>2 DEF BooksMove

\* The books stay good, and in the store.
LEMMA BooksStep ==
  ASSUME BooksInv, [PricingNext]_pricingVars
  PROVE  BooksInv' /\ \A k : Known(k) => Known(k)'
<1>1. BooksMove
  <2>1. CASE \E k \in Listed : Poll(k) \/ Patch(k)
    BY <2>1, PollStep, PatchStep
  <2>2. CASE Wait
    BY <2>2, WaitStep
  <2>3. CASE books' = books
    BY <2>3 DEF BooksInv, BooksMove
  <2> QED
    BY <2>1, <2>2, <2>3 DEF PricingNext, pricingVars, Pick
<1>2. \A k \in Listed : books'[k] # None => GoodBook(books'[k])
  BY <1>1 DEF BooksInv, BooksMove
<1>3. BooksInv'
  BY <1>1, <1>2 DEF BooksInv, BooksMove, GoodBook, Book, Ordered, Better
<1>4. \A k : Known(k) => Known(k)'
  BY <1>1, NotNone DEF BooksMove, Known
<1> QED
  BY <1>3, <1>4

-------------------------------------------------------------------------------
\* A walk along a sorted side costs what the best prices cost.

\* The best of a side, so many levels.
Beginning(s, i) == {s[m] : m \in 1..i}

LEMMA DepthIs ==
  ASSUME NEW P \in SUBSET Level, IsFiniteSet(P)
  PROVE  Depth(P) \in Nat
<1> DEFINE sizes == [l \in P |-> l.size]
<1>1. \A l \in P : sizes[l] \in Int /\ sizes[l] >= 0
  BY LevelFields
<1>2. Depth(P) = SumFunctionOnSet(sizes, P)
  BY DEF Depth, SumFunction
<1> HIDE DEF sizes
<1>3. SumFunctionOnSet(sizes, P) \in Int /\ SumFunctionOnSet(sizes, P) >= 0
  BY <1>1, SumType
<1> QED
  BY <1>2, <1>3

LEMMA DepthOfNone == Depth({}) = 0
BY SumEmpty DEF Depth, SumFunction

LEMMA DepthMore ==
  ASSUME NEW P \in SUBSET Level, IsFiniteSet(P), NEW l \in Level, l \notin P
  PROVE  Depth(P \cup {l}) = Depth(P) + l.size
<1> DEFINE all == P \cup {l}
           sizes == [x \in all |-> x.size]
           before == [x \in P |-> x.size]
<1>1. \A x \in all : sizes[x] \in Int
  BY LevelFields
<1>2. \A x \in P : sizes[x] = before[x]
  OBVIOUS
<1>3. sizes[l] = l.size
  OBVIOUS
<1>4. Depth(all) = SumFunctionOnSet(sizes, all) /\ Depth(P) = SumFunctionOnSet(before, P)
  BY DEF Depth, SumFunction
<1> HIDE DEF sizes, before
<1>5. SumFunctionOnSet(sizes, P) = SumFunctionOnSet(before, P)
  BY <1>2, SumEqual
<1>6. SumFunctionOnSet(sizes, P \cup {l}) = SumFunctionOnSet(sizes, P) + sizes[l]
  <2>1. sizes[l] \in Int /\ \A y \in P : sizes[y] \in Int
    BY <1>1
  <2> QED
    BY <2>1, SumInsert
<1> QED
  BY <1>3, <1>4, <1>5, <1>6

\* The levels before one are those with a better price.
LEMMA Beginnings ==
  ASSUME NEW side, NEW s \in Seq(Level), Ordered(s, side)
  PROVE  /\ \A i \in 0..Len(s) :
              Beginning(s, i) \in SUBSET Level /\ IsFiniteSet(Beginning(s, i))
         /\ Beginning(s, 0) = {} /\ Beginning(s, Len(s)) = ToSet(s)
         /\ \A i \in 1..Len(s) :
              /\ s[i] \in Level
              /\ Beginning(s, i) = Beginning(s, i - 1) \cup {s[i]}
              /\ s[i] \notin Beginning(s, i - 1)
              /\ {b \in ToSet(s) : Better(b, s[i], side)} = Beginning(s, i - 1)
<1>1. /\ Len(s) \in Nat /\ DOMAIN s = 1..Len(s)
      /\ \A i \in 1..Len(s) : s[i] \in Level /\ s[i].price \in Nat
  BY LevelFields
<1>2. \A m, n \in 1..Len(s) : m < n <=> Better(s[m], s[n], side)
  <2>1. ASSUME NEW m \in 1..Len(s), NEW n \in 1..Len(s)
        PROVE  m < n <=> Better(s[m], s[n], side)
    <3>1. m < n => Better(s[m], s[n], side)
      BY DEF Ordered
    <3>2. n < m => Better(s[n], s[m], side)
      BY DEF Ordered
    <3>3. m < n \/ n < m \/ m = n
      OBVIOUS
    <3> QED
      BY <1>1, <3>1, <3>2, <3>3 DEF Better
  <2> QED
    BY <2>1
<1>3. ToSet(s) = Beginning(s, Len(s))
  BY <1>1 DEF ToSet, Beginning
<1>4. IsFiniteSet(ToSet(s))
  <2>1. ToSet(s) = Range(s)
    BY DEF ToSet, Range
  <2> QED
    BY <2>1, RangeOfList
<1>5. ASSUME NEW i \in 0..Len(s)
      PROVE  Beginning(s, i) \in SUBSET Level /\ IsFiniteSet(Beginning(s, i))
  <2>1. Beginning(s, i) \in SUBSET Level /\ Beginning(s, i) \subseteq Beginning(s, Len(s))
    BY <1>1 DEF Beginning
  <2> QED
    BY <1>3, <1>4, <2>1, FS_Subset
<1>6. Beginning(s, 0) = {}
  BY DEF Beginning
<1>7. ASSUME NEW i \in 1..Len(s)
      PROVE  /\ Beginning(s, i) = Beginning(s, i - 1) \cup {s[i]}
             /\ s[i] \notin Beginning(s, i - 1)
             /\ {b \in ToSet(s) : Better(b, s[i], side)} = Beginning(s, i - 1)
  <2>1. \A m : m \in 1..i <=> m \in 1..(i - 1) \/ m = i
    OBVIOUS
  <2>2. \A m : m \in 1..(i - 1) <=> m \in 1..Len(s) /\ m < i
    BY <1>1
  <2>3. Beginning(s, i) = Beginning(s, i - 1) \cup {s[i]}
    BY <2>1 DEF Beginning
  <2>4. \A x : x \in Beginning(s, i - 1) <=> \E m \in 1..(i - 1) : x = s[m]
    BY DEF Beginning
  <2>5. \A x : x \in ToSet(s) <=> \E m \in 1..Len(s) : x = s[m]
    BY <1>3 DEF Beginning
  <2>6. \A x : x \in Beginning(s, i - 1) <=> x \in ToSet(s) /\ Better(x, s[i], side)
    BY <1>2, <2>2, <2>4, <2>5
  <2>7. ~Better(s[i], s[i], side)
    BY <1>1 DEF Better
  <2> QED
    BY <2>3, <2>6, <2>7
<1> QED
  BY <1>1, <1>3, <1>5, <1>6, <1>7

LEMMA Depths ==
  ASSUME NEW side, NEW s \in Seq(Level), Ordered(s, side)
  PROVE  /\ Depth(Beginning(s, 0)) = 0
         /\ \A i \in 0..Len(s) : Depth(Beginning(s, i)) \in Nat
         /\ \A i \in 1..Len(s) :
              Depth(Beginning(s, i)) = Depth(Beginning(s, i - 1)) + s[i].size
<1>1. Depth(Beginning(s, 0)) = 0
  BY Beginnings, DepthOfNone
<1>2. \A i \in 0..Len(s) : Depth(Beginning(s, i)) \in Nat
  BY Beginnings, DepthIs
<1>3. ASSUME NEW i \in 1..Len(s)
      PROVE  Depth(Beginning(s, i)) = Depth(Beginning(s, i - 1)) + s[i].size
  <2>1. i - 1 \in 0..Len(s)
    OBVIOUS
  <2>2. /\ Beginning(s, i - 1) \in SUBSET Level /\ IsFiniteSet(Beginning(s, i - 1))
        /\ s[i] \in Level /\ s[i] \notin Beginning(s, i - 1)
        /\ Beginning(s, i) = Beginning(s, i - 1) \cup {s[i]}
    BY <2>1, Beginnings
  <2> QED
    BY <2>2, DepthMore
<1> QED
  BY <1>1, <1>2, <1>3

\* What is taken of the level at a place.
LEMMA TradedAt ==
  ASSUME NEW side, NEW s \in Seq(Level), Ordered(s, side), NEW size \in Nat,
         NEW i \in 1..Len(s)
  PROVE  LET left == size - Depth(Beginning(s, i - 1))
         IN /\ Traded(ToSet(s), side, s[i], size)
                 = IF left <= 0 THEN 0 ELSE Smaller(left, s[i].size)
            /\ Traded(ToSet(s), side, s[i], size) \in Nat
<1>1. {b \in ToSet(s) : Better(b, s[i], side)} = Beginning(s, i - 1)
  BY Beginnings
<1>2. Depth(Beginning(s, i - 1)) \in Nat /\ s[i].size \in Nat
  <2>1. i - 1 \in 0..Len(s) /\ s[i] \in Level
    OBVIOUS
  <2> QED
    BY <2>1, Depths, LevelFields
<1> DEFINE left == size - Depth(Beginning(s, i - 1))
<1>3. Traded(ToSet(s), side, s[i], size) = IF left <= 0 THEN 0 ELSE Smaller(left, s[i].size)
  BY <1>1 DEF Traded
<1>4. left \in Int
  BY <1>2
<1> HIDE DEF left
<1>5. Traded(ToSet(s), side, s[i], size) \in Nat
  BY <1>2, <1>3, <1>4 DEF Smaller
<1> QED
  BY <1>3, <1>5 DEF left

\* What the best levels cost, so many of them.
LEMMA Costs ==
  ASSUME NEW side, NEW s \in Seq(Level), Ordered(s, side), NEW size \in Nat
  PROVE  \E cost :
           /\ cost[0] = 0
           /\ \A i \in 0..Len(s) : cost[i] \in Nat
           /\ \A i \in 1..Len(s) :
                cost[i] = cost[i - 1] + Traded(ToSet(s), side, s[i], size) * s[i].price
           /\ BestCost(ToSet(s), side, size) = cost[Len(s)]
<1> DEFINE L == ToSet(s)
           f == [l \in L |-> Traded(L, side, l, size) * l.price]
           cost == [i \in 0..Len(s) |-> SumFunctionOnSet(f, Beginning(s, i))]
<1>1. Len(s) \in Nat /\ \A x : x \in L <=> \E m \in 1..Len(s) : x = s[m]
  <2>1. L = Beginning(s, Len(s))
    BY Beginnings
  <2> QED
    BY <2>1 DEF Beginning
<1>2. \A i \in 1..Len(s) : f[s[i]] = Traded(L, side, s[i], size) * s[i].price
  BY <1>1
<1>3. \A l \in L : f[l] \in Nat
  <2>1. ASSUME NEW i \in 1..Len(s)
        PROVE  f[s[i]] \in Nat
    <3>1. Traded(L, side, s[i], size) \in Nat
      BY TradedAt
    <3>2. s[i].price \in Nat
      <4>1. s[i] \in Level
        OBVIOUS
      <4> QED
        BY <4>1, LevelFields
    <3>3. \A a, b \in Nat : a * b \in Nat
      OBVIOUS
    <3> HIDE DEF f, L
    <3> QED
      BY <1>2, <3>1, <3>2, <3>3
  <2> HIDE DEF f, L
  <2> QED
    BY <1>1, <2>1
<1>4. BestCost(L, side, size) = SumFunctionOnSet(f, L)
  BY DEF BestCost, SumFunction
<1> HIDE DEF f
<1>5. cost[0] = 0 /\ BestCost(L, side, size) = cost[Len(s)]
  <2>1. Beginning(s, 0) = {} /\ Beginning(s, Len(s)) = L
    BY Beginnings
  <2>2. 0 \in 0..Len(s) /\ Len(s) \in 0..Len(s)
    BY <1>1
  <2> QED
    BY <1>4, <2>1, <2>2, SumEmpty
<1>6. ASSUME NEW i \in 0..Len(s)
      PROVE  cost[i] \in Nat
  <2>1. IsFiniteSet(Beginning(s, i)) /\ \A x \in Beginning(s, i) : x \in L
    BY <1>1, Beginnings DEF Beginning
  <2>2. \A x \in Beginning(s, i) : f[x] \in Int /\ f[x] >= 0
    BY <1>3, <2>1
  <2>3. /\ SumFunctionOnSet(f, Beginning(s, i)) \in Int
        /\ SumFunctionOnSet(f, Beginning(s, i)) >= 0
    BY <2>1, <2>2, SumType
  <2> QED
    BY <2>3
<1>7. ASSUME NEW i \in 1..Len(s)
      PROVE  cost[i] = cost[i - 1] + Traded(L, side, s[i], size) * s[i].price
  <2>1. i - 1 \in 0..Len(s) /\ i \in 0..Len(s)
    OBVIOUS
  <2>2. /\ IsFiniteSet(Beginning(s, i - 1))
        /\ \A x \in Beginning(s, i - 1) : x \in L
        /\ s[i] \in L
    <3>1. IsFiniteSet(Beginning(s, i - 1))
      BY <2>1, Beginnings
    <3>2. \A m \in 1..(i - 1) : m \in 1..Len(s)
      BY <1>1
    <3>3. \A x \in Beginning(s, i - 1) : x \in L
      BY <1>1, <3>2 DEF Beginning
    <3> QED
      BY <1>1, <3>1, <3>3
  <2>3. /\ s[i] \notin Beginning(s, i - 1)
        /\ Beginning(s, i) = Beginning(s, i - 1) \cup {s[i]}
    BY Beginnings
  <2>4. \A x \in L : f[x] \in Int
    BY <1>3
  <2>5. SumFunctionOnSet(f, Beginning(s, i - 1) \cup {s[i]})
          = SumFunctionOnSet(f, Beginning(s, i - 1)) + f[s[i]]
    BY <2>2, <2>3, <2>4, SumInsert
  <2> QED
    BY <1>2, <2>1, <2>3, <2>5
<1> HIDE DEF cost
<1> QED
  BY <1>5, <1>6, <1>7

\* Whatever a side looks like, vwap_fill_price walks it at the best prices, and
\* fills as much as there is.
LEMMA WalkIsGreedy ==
  ASSUME NEW side, NEW s \in Seq(Level), Ordered(s, side), NEW size \in Nat
  PROVE  FoldLeft(Take, [cost |-> 0, filled |-> 0, remaining |-> size], s)
           = [cost |-> BestCost(ToSet(s), side, size),
              filled |-> Smaller(size, Depth(ToSet(s))),
              remaining |-> size - Smaller(size, Depth(ToSet(s)))]
<1> DEFINE n == Len(s)
           base == [cost |-> 0, filled |-> 0, remaining |-> size]
           depth(i) == Depth(Beginning(s, i))
           traded(i) == Traded(ToSet(s), side, s[i], size)
<1>1. n \in Nat /\ n \in 0..n /\ 0 \in 0..n /\ DOMAIN s = 1..n
      /\ \A i \in 1..n : i - 1 \in 0..n /\ i \in 0..n /\ s[i] \in Level
  OBVIOUS
<1>2. PICK acc : /\ acc[0] = base
                 /\ \A i \in 1..n : acc[i] = Take(acc[i - 1], s[i])
                 /\ FoldLeft(Take, base, s) = acc[n]
  <2>1. FoldLeft(Take, base, s) = Walking!Folded(base, s)
    BY DEF Walking!Folded, FoldLeft, MapThenFoldSet, Max
  <2> HIDE DEF n, base
  <2>2. Walking!FoldsTo(base, s, n)
    BY <1>1, Walking!Folding
  <2> QED
    BY <2>1, <2>2 DEF Walking!FoldsTo
<1>3. PICK cost :
        /\ cost[0] = 0
        /\ \A i \in 0..n : cost[i] \in Nat
        /\ \A i \in 1..n : cost[i] = cost[i - 1] + traded(i) * s[i].price
        /\ BestCost(ToSet(s), side, size) = cost[n]
  BY Costs
<1>4. /\ depth(0) = 0
      /\ \A i \in 0..n : depth(i) \in Nat
      /\ \A i \in 1..n : depth(i) = depth(i - 1) + s[i].size
      /\ depth(n) = Depth(ToSet(s))
  BY Depths, Beginnings
<1>5. \A i \in 1..n :
        /\ traded(i) = IF size - depth(i - 1) <= 0 THEN 0
                       ELSE Smaller(size - depth(i - 1), s[i].size)
        /\ s[i].size \in Nat /\ s[i].price \in Nat
  <2>1. ASSUME NEW i \in 1..n
        PROVE  /\ traded(i) = IF size - depth(i - 1) <= 0 THEN 0
                               ELSE Smaller(size - depth(i - 1), s[i].size)
               /\ s[i].size \in Nat /\ s[i].price \in Nat
    <3>1. traded(i) = IF size - depth(i - 1) <= 0 THEN 0
                      ELSE Smaller(size - depth(i - 1), s[i].size)
      BY TradedAt
    <3>2. s[i] \in Level
      BY <1>1
    <3> QED
      BY <3>1, <3>2, LevelFields
  <2> QED
    BY <2>1
<1> HIDE DEF n, depth, traded
<1> DEFINE at(i) == [cost |-> cost[i],
                     filled |-> Smaller(size, depth(i)),
                     remaining |-> size - Smaller(size, depth(i))]
           done == {i \in 0..n : acc[i] = at(i)}
<1>6. 0 \in done
  BY <1>1, <1>2, <1>3, <1>4 DEF Smaller
<1>7. ASSUME NEW i \in 1..n, i - 1 \in done
      PROVE  i \in done
  <2> DEFINE before == at(i - 1)
             left == before.remaining
             take == IF left < s[i].size THEN left ELSE s[i].size
  <2>1. acc[i] = Take(before, s[i])
    BY <1>2, <1>7
  <2>2. acc[i] = [cost |-> before.cost + take * s[i].price,
                  filled |-> before.filled + take,
                  remaining |-> left - take]
    BY <2>1 DEF Take
  <2>3. /\ before.cost = cost[i - 1]
        /\ before.filled = Smaller(size, depth(i - 1))
        /\ left = size - Smaller(size, depth(i - 1))
    OBVIOUS
  <2>4. depth(i - 1) \in Nat /\ depth(i) = depth(i - 1) + s[i].size
        /\ s[i].size \in Nat
    BY <1>1, <1>4, <1>5
  <2> HIDE DEF before, left
  <2>5. take = traded(i)
    BY <1>5, <2>3, <2>4 DEF Smaller
  <2>6. before.filled + take = Smaller(size, depth(i))
    BY <2>3, <2>4 DEF Smaller
  <2>7. left - take = size - Smaller(size, depth(i))
    BY <2>3, <2>4 DEF Smaller
  <2>8. before.cost + take * s[i].price = cost[i]
    BY <1>3, <2>3, <2>5
  <2> HIDE DEF take
  <2>9. acc[i] = at(i)
    BY <2>2, <2>6, <2>7, <2>8
  <2> QED
    BY <1>1, <2>9
<1>8. n \in done
  <2> HIDE DEF done
  <2> QED
    BY <1>1, <1>6, <1>7, InductionTo
<1>9. FoldLeft(Take, base, s) = at(n)
  BY <1>2, <1>8
<1> QED
  BY <1>3, <1>4, <1>9

LEMMA BestCostType ==
  ASSUME NEW side, NEW s \in Seq(Level), Ordered(s, side), NEW size \in Nat
  PROVE  BestCost(ToSet(s), side, size) \in Nat
<1>1. Len(s) \in 0..Len(s)
  OBVIOUS
<1> QED
  BY <1>1, Costs

LEMMA Products ==
  /\ \A x, y \in Int : x * y \in Int /\ x * y = y * x
  /\ \A x, y \in Nat : x * y \in Nat
  /\ \A x, y, z \in Int : x * (y + z) = x * y + x * z /\ x * (y - z) = x * y - x * z
  /\ \A x, y, z \in Int : x * (y * z) = (x * y) * z
  /\ \A x \in Nat, y, z \in Int : y <= z => x * y <= x * z
OBVIOUS

\* More at a price that is no better than before: an average grows with the size.
LEMMA Mixing ==
  ASSUME NEW c \in Nat, NEW d \in Nat, NEW p \in Nat, NEW a \in Nat, NEW b \in Nat,
         c <= p * d, a <= b
  PROVE  (c + a * p) * (d + b) <= (c + b * p) * (d + a)
<1> DEFINE x == b - a
<1>1. x \in Nat /\ b = a + x
  OBVIOUS
<1>2. x * c <= x * (p * d)
  BY <1>1
<1>3. (c + a * p) * (d + (a + x)) = (c + a * p) * (d + a) + (x * c + x * (a * p))
  BY <1>1
<1>4. (c + (a + x) * p) * (d + a) = (c + a * p) * (d + a) + (x * (p * d) + x * (a * p))
  BY <1>1
<1> HIDE DEF x
<1> QED
  BY <1>1, <1>2, <1>3, <1>4

\* What an order takes of a level of size z at depth D.
Part(order, D, z) == IF order - D <= 0 THEN 0 ELSE Smaller(order - D, z)

\* Of one side, a smaller order does not cost more for a unit than a larger.
LEMMA AverageRises ==
  ASSUME NEW s \in Seq(Level), Ordered(s, "buy"), NEW m \in Nat, NEW q \in Nat,
         m <= q, m <= Depth(ToSet(s))
  PROVE  BestCost(ToSet(s), "buy", m) * Smaller(q, Depth(ToSet(s)))
           <= BestCost(ToSet(s), "buy", q) * m
<1> DEFINE n == Len(s)
           depth(i) == Depth(Beginning(s, i))
           small(i) == Traded(ToSet(s), "buy", s[i], m)
           large(i) == Traded(ToSet(s), "buy", s[i], q)
<1>1. n \in Nat /\ n \in 0..n /\ 0 \in 0..n
      /\ \A i \in 1..n : i - 1 \in 0..n /\ i \in 0..n /\ s[i] \in Level
  OBVIOUS
<1>2. PICK cheap :
        /\ cheap[0] = 0
        /\ \A i \in 0..n : cheap[i] \in Nat
        /\ \A i \in 1..n : cheap[i] = cheap[i - 1] + small(i) * s[i].price
        /\ BestCost(ToSet(s), "buy", m) = cheap[n]
  BY Costs
<1>3. PICK dear :
        /\ dear[0] = 0
        /\ \A i \in 0..n : dear[i] \in Nat
        /\ \A i \in 1..n : dear[i] = dear[i - 1] + large(i) * s[i].price
        /\ BestCost(ToSet(s), "buy", q) = dear[n]
  BY Costs
<1>4. /\ depth(0) = 0
      /\ \A i \in 0..n : depth(i) \in Nat
      /\ \A i \in 1..n : depth(i) = depth(i - 1) + s[i].size
      /\ depth(n) = Depth(ToSet(s))
  BY Depths, Beginnings
<1>5. \A i \in 1..n :
        /\ small(i) = IF m - depth(i - 1) <= 0 THEN 0
                      ELSE Smaller(m - depth(i - 1), s[i].size)
        /\ large(i) = IF q - depth(i - 1) <= 0 THEN 0
                      ELSE Smaller(q - depth(i - 1), s[i].size)
        /\ small(i) \in Nat /\ large(i) \in Nat
        /\ s[i].size \in Nat /\ s[i].price \in Nat
  <2>1. ASSUME NEW i \in 1..n
        PROVE  /\ small(i) = IF m - depth(i - 1) <= 0 THEN 0
                             ELSE Smaller(m - depth(i - 1), s[i].size)
               /\ large(i) = IF q - depth(i - 1) <= 0 THEN 0
                             ELSE Smaller(q - depth(i - 1), s[i].size)
               /\ small(i) \in Nat /\ large(i) \in Nat
               /\ s[i].size \in Nat /\ s[i].price \in Nat
    <3>1. /\ small(i) = IF m - depth(i - 1) <= 0 THEN 0
                        ELSE Smaller(m - depth(i - 1), s[i].size)
          /\ small(i) \in Nat
      BY TradedAt
    <3>2. /\ large(i) = IF q - depth(i - 1) <= 0 THEN 0
                        ELSE Smaller(q - depth(i - 1), s[i].size)
          /\ large(i) \in Nat
      BY TradedAt
    <3>3. s[i] \in Level
      BY <1>1
    <3> QED
      BY <3>1, <3>2, <3>3, LevelFields
  <2> QED
    BY <2>1
<1>6. \A i, k \in 1..n : i <= k => s[i].price <= s[k].price
  <2>1. \A i, k \in 1..n : i < k => s[i].price < s[k].price
    BY DEF Ordered, Better
  <2>2. \A i \in 1..n : s[i].price \in Nat
    BY <1>5
  <2> HIDE DEF n
  <2>3. \A i, k \in 1..n : i <= k => i < k \/ i = k
    BY <1>1
  <2> QED
    BY <2>1, <2>2, <2>3
<1> HIDE DEF n, depth, small, large
<1> DEFINE few(i) == Smaller(m, depth(i))
           many(i) == Smaller(q, depth(i))
           Fair(i) ==
             /\ cheap[i] * many(i) <= dear[i] * few(i)
             /\ \A k \in 1..n : i <= k => cheap[i] <= s[k].price * few(i)
             /\ few(i) < m => cheap[i] = dear[i] /\ few(i) = many(i)
           done == {i \in 0..n : Fair(i)}
<1>7. 0 \in done
  <2>1. few(0) = 0 /\ many(0) = 0
    BY <1>4 DEF Smaller
  <2>2. \A k \in 1..n : s[k].price * 0 = 0
    BY <1>5
  <2> HIDE DEF few, many
  <2> QED
    BY <1>1, <1>2, <1>3, <2>1, <2>2
<1>8. ASSUME NEW i \in 1..n, i - 1 \in done
      PROVE  i \in done
  <2> DEFINE c == cheap[i - 1]
             e == dear[i - 1]
             d == few(i - 1)
             f == many(i - 1)
             a == small(i)
             b == large(i)
             p == s[i].price
  <2>1. c \in Nat /\ e \in Nat /\ a \in Nat /\ b \in Nat /\ p \in Nat
    BY <1>1, <1>2, <1>3, <1>5
  <2>2. depth(i - 1) \in Nat /\ depth(i) = depth(i - 1) + s[i].size /\ s[i].size \in Nat
    BY <1>1, <1>4, <1>5
  <2> DEFINE D == depth(i - 1)
             z == s[i].size
  <2>3. a = Part(m, D, z) /\ b = Part(q, D, z)
    BY <1>5 DEF Part
  <2>4. /\ d = Smaller(m, D) /\ few(i) = Smaller(m, D + z)
        /\ f = Smaller(q, D) /\ many(i) = Smaller(q, D + z)
    BY <2>2
  <2>5. D \in Nat /\ z \in Nat
    BY <2>2
  <2> HIDE DEF D, z, a, b
  <2>6. /\ Smaller(m, D) \in Nat /\ Smaller(m, D + z) = Smaller(m, D) + Part(m, D, z)
        /\ Smaller(q, D) \in Nat /\ Smaller(q, D + z) = Smaller(q, D) + Part(q, D, z)
        /\ Part(m, D, z) <= Part(q, D, z) /\ Smaller(m, D) <= m
        /\ Smaller(m, D) = m => Part(m, D, z) = 0
        /\ Smaller(m, D) + Part(m, D, z) < m => Part(m, D, z) = Part(q, D, z)
    BY <2>5 DEF Smaller, Part
  <2> HIDE DEF d, f, few, many
  <2>7. d \in Nat /\ f \in Nat /\ few(i) = d + a /\ many(i) = f + b
    BY <2>3, <2>4, <2>6
  <2>8. a <= b /\ d <= m /\ (d = m => a = 0) /\ (d + a < m => a = b)
    BY <2>3, <2>4, <2>6
  <2>9. cheap[i] = c + a * p /\ dear[i] = e + b * p
    BY <1>2, <1>3 DEF a, b
  <2>10. /\ c * f <= e * d
         /\ \A k \in 1..n : i <= k => c <= s[k].price * d
         /\ d < m => c = e /\ d = f
    <3>1. Fair(i - 1)
      BY <1>8
    <3>2. \A k \in 1..n : i <= k => i - 1 <= k
      BY <1>1
    <3> QED
      BY <3>1, <3>2 DEF d, f
  <2>11. c <= p * d
    BY <2>10
  <2>12. \A k \in 1..n : i <= k => p <= s[k].price /\ s[k].price \in Nat
    BY <1>5, <1>6
  <2> HIDE DEF c, e, p
  <2>13. cheap[i] * many(i) <= dear[i] * few(i)
    <3>1. CASE d < m
      BY <2>1, <2>7, <2>8, <2>9, <2>10, <2>11, <3>1, Mixing
    <3>2. CASE d = m
      <4>1. cheap[i] = c /\ few(i) = d
        <5>1. a = 0 /\ 0 * p = 0
          BY <2>1, <2>8, <3>2
        <5> QED
          BY <2>1, <2>7, <2>9, <5>1
      <4>2. c * (f + b) = c * f + b * c
        BY <2>1, <2>7, Products
      <4>3. b * c <= b * (p * d)
        BY <2>1, <2>7, <2>11, Products
      <4>4. (e + b * p) * d = e * d + b * (p * d)
        BY <2>1, <2>7, Products
      <4>5. c * f + b * c <= e * d + b * (p * d)
        <5>1. c * f \in Int /\ b * c \in Int /\ e * d \in Int /\ b * (p * d) \in Int
          BY <2>1, <2>7, Products
        <5> QED
          BY <2>10, <4>3, <5>1
      <4> QED
        BY <2>7, <2>9, <4>1, <4>2, <4>4, <4>5
    <3> QED
      BY <2>7, <2>8, <3>1, <3>2
  <2>14. ASSUME NEW k \in 1..n, i <= k
         PROVE  cheap[i] <= s[k].price * few(i)
    <3> DEFINE r == s[k].price
    <3>1. p <= r /\ r \in Nat /\ c <= r * d
      BY <2>10, <2>12, <2>14
    <3> HIDE DEF r
    <3>2. a * p <= a * r
      BY <2>1, <3>1, Products
    <3>3. r * (d + a) = r * d + a * r
      BY <2>1, <2>7, <3>1, Products
    <3>4. c + a * p <= r * d + a * r
      <4>1. a * p \in Int /\ a * r \in Int /\ r * d \in Int
        BY <2>1, <2>7, <3>1, Products
      <4> QED
        BY <2>1, <3>1, <3>2, <4>1
    <3> QED
      BY <2>7, <2>9, <3>3, <3>4 DEF r
  <2>15. few(i) < m => cheap[i] = dear[i] /\ few(i) = many(i)
    BY <2>1, <2>7, <2>8, <2>9, <2>10
  <2>16. Fair(i)
    BY <2>13, <2>14, <2>15
  <2> HIDE DEF Fair
  <2> QED
    BY <1>1, <2>16
<1>9. n \in done
  <2> HIDE DEF done
  <2> QED
    BY <1>1, <1>7, <1>8, InductionTo
<1>10. few(n) = m
  BY <1>4, <1>1 DEF Smaller
<1> QED
  BY <1>2, <1>3, <1>4, <1>9, <1>10

-------------------------------------------------------------------------------
\* What a tick finds and goes on with.

LEMMA ListOfSet ==
  ASSUME NEW S, IsFiniteSet(S)
  PROVE  /\ Cardinality(S) \in Nat
         /\ SetToSeq(S) \in [1 .. Cardinality(S) -> S]
         /\ \A x \in S : \E i \in 1 .. Cardinality(S) : SetToSeq(S)[i] = x
<1> DEFINE n == Cardinality(S)
           list == SetToSeq(S)
<1>1. n \in Nat /\ IsFiniteSet(1..n) /\ Cardinality(1..n) = n
  <2>1. n \in Nat
    BY FS_CardinalityType
  <2> HIDE DEF n
  <2> QED
    BY <2>1, FS_Interval
<1>2. \E f \in [1..n -> S] : IsInjective(f)
  BY FS_CardinalityType DEF ExistsBijection, Bijection, Injection, IsInjective
<1>3. list \in [1..n -> S] /\ IsInjective(list)
  BY <1>2 DEF SetToSeq
<1> HIDE DEF n, list
<1>4. list \in Injection(1..n, S)
  BY <1>3 DEF Injection
<1>5. list \in Surjection(1..n, S)
  <2>1. Cardinality(1..n) = Cardinality(S)
    BY <1>1 DEF n
  <2> QED
    BY <1>4, <2>1, FS_Injection
<1>6. \A x \in S : \E i \in 1..n : list[i] = x
  BY <1>5 DEF Surjection
<1> QED
  BY <1>1, <1>3, <1>6 DEF n, list

\* A scan's list is of its findings, all of them.
LEMMA BestFirstLists ==
  ASSUME NEW S, IsFiniteSet(S), \A o \in S : o.net_profit_pct \in Int
  PROVE  /\ BestFirst(S) \in Seq(S)
         /\ \A x \in S : \E n \in 1 .. Len(BestFirst(S)) : BestFirst(S)[n] = x
<1> DEFINE size == Cardinality(S)
           listed == SetToSeq(S)
           I == 1..size
           rank == [i \in I |-> <<-listed[i].net_profit_pct, i>>]
           order == SortedBy(I, rank)
           two == 2
<1>1. /\ size \in Nat /\ listed \in [I -> S] /\ DOMAIN listed = I
      /\ \A x \in S : \E i \in I : listed[i] = x
  BY ListOfSet
<1>2. IsFiniteSet(I) /\ Cardinality(I) = size
  <2> HIDE DEF size
  <2> QED
    BY <1>1, FS_Interval
<1>3. \A i \in I : listed[i].net_profit_pct \in Int /\ i \in Int
  BY <1>1
<1>4. rank \in [I -> [1..two -> Int]] /\ two \in Nat
  <2>1. \A i \in I : <<-listed[i].net_profit_pct, i>> \in [1..2 -> Int]
    BY <1>3
  <2> QED
    BY <2>1
<1>5. \A i, j \in I : rank[i] = rank[j] => i = j
  OBVIOUS
<1>6. BestFirst(S) = [n \in I |-> listed[order[n]]]
  BY <1>1 DEF BestFirst
<1> HIDE DEF I, rank, two
<1>7. order \in Seq(I) /\ Len(order) = Cardinality(I)
  BY <1>2, <1>4, <1>5, SortedByOrders
<1>8. \A i \in I : \E n \in 1 .. Len(order) : order[n] = i
  BY <1>2, <1>4, <1>5, SortedByOrders
<1> HIDE DEF order, size, listed
<1>9. Len(order) = size /\ \A n \in 1..size : order[n] \in I
  BY <1>2, <1>7
<1>10. BestFirst(S) \in Seq(S) /\ Len(BestFirst(S)) = size
  BY <1>1, <1>6, <1>9 DEF I
<1>11. ASSUME NEW x \in S
       PROVE  \E n \in 1..size : BestFirst(S)[n] = x
  <2>1. PICK i \in I : listed[i] = x
    BY <1>1
  <2>2. PICK n \in 1..size : order[n] = i
    BY <1>8, <1>9
  <2> QED
    BY <1>6, <2>1, <2>2 DEF I
<1> QED
  BY <1>10, <1>11

\* A list of all of a set.
Lists(list, S) == list \in Seq(S) /\ \A x \in S : \E n \in 1..Len(list) : list[n] = x

LEMMA Joined ==
  ASSUME NEW A, NEW B, NEW a, NEW b, Lists(a, A), Lists(b, B)
  PROVE  Lists(a \o b, A \cup B)
<1>1. a \in Seq(A) /\ b \in Seq(B)
  BY DEF Lists
<1>2. a \o b \in Seq(A \cup B) /\ Len(a \o b) = Len(a) + Len(b)
  BY <1>1
<1>3. Len(a) \in Nat /\ Len(b) \in Nat
  BY <1>1
<1>4. \A n \in 1..Len(a) : n \in 1..Len(a \o b) /\ (a \o b)[n] = a[n]
  BY <1>1, <1>2, <1>3
<1>5. \A n \in 1..Len(b) :
        n + Len(a) \in 1..Len(a \o b) /\ (a \o b)[n + Len(a)] = b[n]
  BY <1>1, <1>2, <1>3
<1> QED
  BY <1>2, <1>4, <1>5 DEF Lists

Findings == CrossExchange \cup CrossQuote \cup WrappedAsset \cup MakerRebate \cup LatencyArb

FindingsAreFinite ==
  /\ IsFiniteSet(CrossExchange) /\ IsFiniteSet(CrossQuote) /\ IsFiniteSet(WrappedAsset)
  /\ IsFiniteSet(MakerRebate) /\ IsFiniteSet(LatencyArb)

LEMMA FoundLists ==
  ASSUME FindingsAreFinite, \A o \in Findings : o.net_profit_pct \in Int
  PROVE  /\ Found \in Seq(Findings)
         /\ \A x \in Findings : \E n \in 1..Len(Found) : Found[n] = x
<1> DEFINE A == CrossExchange
           B == CrossQuote
           C == WrappedAsset
           D == MakerRebate
           E == LatencyArb
<1>1. \A o \in A \cup B \cup C \cup D \cup E : o.net_profit_pct \in Int
  BY DEF Findings
<1>2. /\ IsFiniteSet(A) /\ IsFiniteSet(B) /\ IsFiniteSet(C)
      /\ IsFiniteSet(D) /\ IsFiniteSet(E)
  BY DEF FindingsAreFinite
<1>3. /\ Found = (((BestFirst(A) \o BestFirst(B)) \o BestFirst(C)) \o BestFirst(D)) \o BestFirst(E)
      /\ Findings = (((A \cup B) \cup C) \cup D) \cup E
  BY DEF Found, Findings
<1> HIDE DEF A, B, C, D, E
<1>4. /\ Lists(BestFirst(A), A) /\ Lists(BestFirst(B), B) /\ Lists(BestFirst(C), C)
      /\ Lists(BestFirst(D), D) /\ Lists(BestFirst(E), E)
  BY <1>1, <1>2, BestFirstLists DEF Lists
<1>5. Lists(BestFirst(A) \o BestFirst(B), A \cup B)
  BY <1>4, Joined
<1>6. Lists((BestFirst(A) \o BestFirst(B)) \o BestFirst(C), (A \cup B) \cup C)
  BY <1>4, <1>5, Joined
<1>7. Lists(((BestFirst(A) \o BestFirst(B)) \o BestFirst(C)) \o BestFirst(D),
            ((A \cup B) \cup C) \cup D)
  BY <1>4, <1>6, Joined
<1>8. Lists((((BestFirst(A) \o BestFirst(B)) \o BestFirst(C)) \o BestFirst(D)) \o BestFirst(E),
            (((A \cup B) \cup C) \cup D) \cup E)
  BY <1>4, <1>7, Joined
<1>9. Lists(Found, Findings)
  BY <1>3, <1>8
<1> QED
  BY <1>9 DEF Lists

\* What a tick goes on with it has found, and found worth trading; and of what
\* it has found worth trading, nothing is left whose route is not gone on with.
LEMMA OffersAreFindings ==
  ASSUME FindingsAreFinite, \A o \in Findings : o.net_profit_pct \in Int
  PROVE  /\ \A o \in ToSet(Offers) : o \in Findings /\ Worth(o)
         /\ \A o \in Findings :
              Worth(o) => \E p \in ToSet(Offers) : RouteKey(p) = RouteKey(o)
<1> DEFINE finds == Found
           kept == Kept(finds)
<1>1. /\ finds \in Seq(Findings)
      /\ \A x \in Findings : \E n \in 1..Len(finds) : finds[n] = x
  BY FoundLists
<1>2. Offers = kept
  BY DEF Offers
<1> HIDE DEF finds
<1>3. KeptOf(Findings, kept, finds, Len(finds))
  BY <1>1, KeptOfAll
<1> HIDE DEF kept
<1>4. kept \in Seq(Findings) /\ \A x : x \in ToSet(kept) <=> \E m \in 1..Len(kept) : x = kept[m]
  BY <1>3 DEF KeptOf, ToSet
<1>5. \A m \in 1..Len(kept) : kept[m] \in Findings /\ Worth(kept[m])
  BY <1>3, <1>4 DEF KeptOf, Preferable
<1>6. \A j \in 1..Len(finds) : Worth(finds[j]) =>
        \E m \in 1..Len(kept) : RouteKey(kept[m]) = RouteKey(finds[j])
  BY <1>3 DEF KeptOf, Exhaustive
<1>7. ASSUME NEW o \in Findings, Worth(o)
      PROVE  \E p \in ToSet(kept) : RouteKey(p) = RouteKey(o)
  <2>1. PICK j \in 1..Len(finds) : finds[j] = o
    BY <1>1
  <2>2. PICK m \in 1..Len(kept) : RouteKey(kept[m]) = RouteKey(o)
    BY <1>6, <1>7, <2>1
  <2> QED
    BY <1>4, <2>2
<1> QED
  BY <1>2, <1>4, <1>5, <1>7

-------------------------------------------------------------------------------
\* What an opportunity looks like.

LEMMA Divided ==
  ASSUME NEW x \in Int, NEW p \in Nat \ {0}
  PROVE  /\ x \div p \in Int /\ p * (x \div p) <= x /\ x < p * (x \div p) + p
         /\ x % p = 0 => p * (x \div p) = x
OBVIOUS

\* The quotient is what a number of times fits.
LEMMA Fits ==
  ASSUME NEW x \in Int, NEW p \in Nat \ {0}, NEW y \in Int
  PROVE  /\ p * y <= x => y <= x \div p
         /\ x <= p * y => x \div p <= y
<1> DEFINE q == x \div p
<1>1. q \in Int /\ p * q <= x /\ x < p * q + p
  BY Divided
<1> HIDE DEF q
<1>2. ASSUME p * y <= x, q + 1 <= y
      PROVE  FALSE
  <2>1. p * (q + 1) <= p * y /\ p * (q + 1) = p * q + p
    BY <1>1, <1>2, Products
  <2>2. p * y \in Int /\ p * q \in Int
    BY <1>1, Products
  <2> QED
    BY <1>1, <1>2, <2>1, <2>2
<1>3. ASSUME x <= p * y, y + 1 <= q
      PROVE  FALSE
  <2>1. p * (y + 1) <= p * q /\ p * (y + 1) = p * y + p
    BY <1>1, <1>3, Products
  <2>2. p * y \in Int /\ p * q \in Int
    BY <1>1, Products
  <2> QED
    BY <1>1, <1>3, <2>1, <2>2
<1>4. \A m, n \in Int : ~(m <= n) => n + 1 <= m
  OBVIOUS
<1> QED
  BY <1>1, <1>2, <1>3, <1>4 DEF q

LEMMA ConstantsOfTrades ==
  /\ Unit \in Nat \ {0} /\ MaxTradeUsd \in Nat /\ MaxTradeUsd > 0
  /\ \A s \in PairStrategies : s \in Strategies /\ s # "wrapped_asset"
  /\ \A fee \in Fees : fee \in Int
  /\ \A v : TakerFee(v) \in Fees /\ MakerFee(v) \in Fees
  /\ \A k \in Listed : k = <<k[1], k[2], k[3]>> /\ k[1] \in Venues /\ k[2] \in Assets
<1>1. Unit \in Nat \ {0} /\ MaxTradeUsd \in Nat /\ MaxTradeUsd > 0
  BY ScansConstantsAreTyped, TradesAreExact
<1>2. \A s \in PairStrategies : s \in Strategies /\ s # "wrapped_asset"
  BY ScansConstantsAreTyped DEF PairStrategies
<1>3. \A fee \in Fees : fee \in Int
  BY ScansConstantsAreTyped DEF Fees
<1>4. ASSUME NEW v
      PROVE  TakerFee(v) \in Fees /\ MakerFee(v) \in Fees
  <2>1. LiveFee(LiveTakerFees, v, None) # None => LiveFee(LiveTakerFees, v, None) \in Fees
    BY DEF LiveFee, Fees
  <2>2. LiveFee(LiveMakerFees, v, None) # None => LiveFee(LiveMakerFees, v, None) \in Fees
    BY DEF LiveFee, Fees
  <2>3. /\ FeeFallback \in Fees
        /\ v \in DOMAIN CexFees => CexFees[v].taker \in Fees /\ CexFees[v].maker \in Fees
    BY DEF Fees
  <2>4. TakerFee(v) \in Fees
    BY <2>1, <2>3 DEF TakerFee, TakerFeeFor
  <2>5. MakerFee(v) \in Fees
    BY <2>2, <2>3, <2>4 DEF MakerFee, MakerFeeFor, TakerFee
  <2> QED
    BY <2>4, <2>5
<1>5. \A k \in Listed : k = <<k[1], k[2], k[3]>> /\ k[1] \in Venues /\ k[2] \in Assets
  BY BooksConstantsAreTyped
<1> QED
  BY <1>1, <1>2, <1>3, <1>4, <1>5

\* The best of a side is the first of it.
LEMMA BestAskIs ==
  ASSUME BooksInv, NEW k, Known(k), books[k].asks # <<>>
  PROVE  /\ BestAsk(k) \in Level /\ MaxTradeUsd % BestAsk(k).price = 0
         /\ \A l \in ToSet(books[k].asks) : BestAsk(k).price <= l.price
<1> DEFINE s == books[k].asks
<1>1. /\ s \in Seq(Level) /\ Ordered(s, "buy")
      /\ \A n \in 1..Len(s) : MaxTradeUsd % s[n].price = 0
  BY DEF BooksInv, GoodBook, Book, Known
<1>2. BestAsk(k) = s[1] /\ 1 \in 1..Len(s)
  BY <1>1 DEF BestAsk
<1>3. \A l : l \in ToSet(s) <=> \E n \in 1..Len(s) : l = s[n]
  BY <1>1 DEF ToSet
<1> HIDE DEF s
<1>4. \A n \in 1..Len(s) : s[n] \in Level /\ s[n].price \in Nat
  BY <1>1, LevelFields
<1>5. \A n \in 1..Len(s) : s[1].price <= s[n].price
  <2>1. \A n \in 1..Len(s) : n = 1 \/ 1 < n
    OBVIOUS
  <2> QED
    BY <1>1, <1>2, <1>4, <2>1 DEF Ordered, Better
<1> QED
  BY <1>1, <1>2, <1>3, <1>4, <1>5 DEF s

LEMMA BestBidIs ==
  ASSUME BooksInv, NEW k, Known(k), books[k].bids # <<>>
  PROVE  /\ BestBid(k) \in Level
         /\ \A l \in ToSet(books[k].bids) : BestBid(k).price >= l.price
<1> DEFINE s == books[k].bids
<1>1. s \in Seq(Level) /\ Ordered(s, "sell")
  BY DEF BooksInv, GoodBook, Book, Known
<1>2. BestBid(k) = s[1] /\ 1 \in 1..Len(s)
  BY <1>1 DEF BestBid
<1>3. \A l : l \in ToSet(s) <=> \E n \in 1..Len(s) : l = s[n]
  BY <1>1 DEF ToSet
<1> HIDE DEF s
<1>4. \A n \in 1..Len(s) : s[n] \in Level /\ s[n].price \in Nat
  BY <1>1, LevelFields
<1>5. \A n \in 1..Len(s) : s[1].price >= s[n].price
  <2>1. \A n \in 1..Len(s) : n = 1 \/ 1 < n
    OBVIOUS
  <2> QED
    BY <1>1, <1>2, <1>4, <2>1 DEF Ordered, Better
<1> QED
  BY <1>1, <1>2, <1>3, <1>4, <1>5 DEF s

\* The dollars of a trade are whole units of what is bought, no more of them than
\* either best level has.
LEMMA UsdIs ==
  ASSUME NEW bid \in Level, NEW ask \in Level, MaxTradeUsd % ask.price = 0
  PROVE  /\ Usd(bid, ask) \in Nat /\ Usd(bid, ask) <= MaxTradeUsd
         /\ Usd(bid, ask) <= Smaller(ask.size, bid.size) * ask.price
         /\ Usd(bid, ask) > 0 /\ Usd(bid, ask) \div ask.price \in Nat \ {0}
         /\ (Usd(bid, ask) \div ask.price) * ask.price = Usd(bid, ask)
         /\ Usd(bid, ask) \div ask.price <= Smaller(ask.size, bid.size)
<1> DEFINE p == ask.price
           z == Smaller(ask.size, bid.size)
           usd == Usd(bid, ask)
<1>1. p \in Nat \ {0} /\ z \in Nat \ {0}
  BY LevelFields DEF Smaller
<1>2. usd = Smaller(z * p, MaxTradeUsd) /\ MaxTradeUsd % p = 0
  BY DEF Usd
<1>3. MaxTradeUsd \in Nat \ {0}
  BY ConstantsOfTrades
<1> HIDE DEF p, z, usd
<1>4. z * p \in Nat \ {0}
  BY <1>1
<1>5. usd \in Nat \ {0} /\ usd <= MaxTradeUsd /\ usd <= z * p
  BY <1>2, <1>3, <1>4 DEF Smaller
<1>6. /\ usd \div p \in Int /\ p * (usd \div p) <= usd /\ usd < p * (usd \div p) + p
      /\ usd % p = 0 => p * (usd \div p) = usd
  BY <1>1, <1>5, Divided
<1>7. p * (usd \div p) = usd
  <2>1. CASE usd = MaxTradeUsd
    BY <1>2, <1>6, <2>1
  <2>2. CASE usd = z * p
    <3>1. p * z = usd /\ z \in Int
      BY <1>1, <2>2, Products
    <3>2. z <= usd \div p /\ usd \div p <= z
      BY <1>1, <1>5, <3>1, Fits
    <3>3. usd \div p = z
      BY <1>6, <3>1, <3>2
    <3> QED
      BY <3>1, <3>3
  <2> QED
    BY <1>2, <2>1, <2>2 DEF Smaller
<1>8. usd \div p <= z
  <2>1. usd <= p * z /\ z \in Int
    BY <1>1, <1>5, Products
  <2> QED
    BY <1>1, <1>5, <2>1, Fits
<1>9. usd \div p \in Nat \ {0}
  <2>1. ~(usd \div p <= 0)
    <3>1. ASSUME usd \div p <= 0
          PROVE  FALSE
      <4>1. p * (usd \div p) <= p * 0
        BY <1>1, <1>6, <3>1, Products
      <4> QED
        BY <1>1, <1>5, <1>7, <4>1
    <3> QED
      BY <3>1
  <2> QED
    BY <1>6, <2>1
<1> QED
  BY <1>1, <1>5, <1>6, <1>7, <1>8, <1>9, Products DEF p, z, usd

LEMMA GrossIs ==
  ASSUME NEW bid \in Level, NEW ask \in Level
  PROVE  /\ Gross(bid, ask) \in Int
         /\ Gross(bid, ask) * ask.price <= (bid.price - ask.price) * Unit
         /\ \A x \in Int :
              x * ask.price <= (bid.price - ask.price) * Unit => x <= Gross(bid, ask)
<1> DEFINE p == ask.price
           x == (bid.price - p) * Unit
<1>1. p \in Nat \ {0} /\ bid.price - p \in Int /\ Unit \in Int
  BY LevelFields, ConstantsOfTrades
<1>2. x \in Int
  BY <1>1, Products
<1>3. Gross(bid, ask) = x \div p
  BY DEF Gross
<1> HIDE DEF p, x
<1>4. x \div p \in Int /\ p * (x \div p) <= x
  BY <1>1, <1>2, Divided
<1>5. (x \div p) * p = p * (x \div p)
  BY <1>1, <1>4, Products
<1>6. ASSUME NEW y \in Int, y * p <= x
      PROVE  y <= x \div p
  <2>1. p * y <= x
    BY <1>1, <1>6, Products
  <2> QED
    BY <1>1, <1>2, <2>1, Fits
<1> QED
  BY <1>3, <1>4, <1>5, <1>6 DEF p, x

\* One order buys and another sells, in whichever order they are.
TwoLegs(o) ==
  /\ o.legs = <<o.legs[1], o.legs[2]>>
  /\ \/ o.legs[1].side = "buy" /\ o.legs[2].side = "sell"
     \/ o.legs[1].side = "sell" /\ o.legs[2].side = "buy"

Buyer(o) == IF o.legs[1].side = "buy" THEN 1 ELSE 2
Seller(o) == IF o.legs[1].side = "buy" THEN 2 ELSE 1

LEMMA LegsAre ==
  ASSUME NEW o, TwoLegs(o)
  PROVE  /\ LegIndices(o) = {Buyer(o), Seller(o)}
         /\ BuyIndices(o) = {Buyer(o)} /\ SellIndices(o) = {Seller(o)}
         /\ (CHOOSE i \in BuyIndices(o) : TRUE) = Buyer(o)
         /\ BuyLeg(o) = o.legs[Buyer(o)] /\ SellLeg(o) = o.legs[Seller(o)]
         /\ BuyLeg(o).side = "buy" /\ SellLeg(o).side = "sell"
         /\ LegKeys(o) = {KeyOf(BuyLeg(o)), KeyOf(SellLeg(o))}
<1>1. LegIndices(o) = {1, 2}
  <2> DEFINE pair == <<o.legs[1], o.legs[2]>>
  <2>1. DOMAIN pair = {1, 2}
    OBVIOUS
  <2>2. o.legs = pair
    BY DEF TwoLegs
  <2> HIDE DEF pair
  <2> QED
    BY <2>1, <2>2 DEF LegIndices
<1>2. LegIndices(o) = {Buyer(o), Seller(o)}
  BY <1>1 DEF Buyer, Seller
<1>3. BuyIndices(o) = {Buyer(o)} /\ SellIndices(o) = {Seller(o)}
  BY <1>1 DEF TwoLegs, BuyIndices, SellIndices, Buyer, Seller
<1>4. Buyer(o) \in Nat
  BY DEF Buyer
<1>5. \A S, x : S = {x} => (CHOOSE i \in S : TRUE) = x
  OBVIOUS
<1>6. BuyLeg(o) = o.legs[Buyer(o)]
  <2> DEFINE first == CHOOSE i \in BuyIndices(o) : \A j \in BuyIndices(o) : i <= j
  <2>1. first = Buyer(o) /\ BuyIndices(o) # {}
    BY <1>3, <1>4
  <2> QED
    BY <2>1 DEF BuyLeg
<1>7. SellLeg(o) = o.legs[Seller(o)]
  BY <1>3, <1>5 DEF SellLeg
<1>8. o.legs[Buyer(o)].side = "buy" /\ o.legs[Seller(o)].side = "sell"
  BY DEF TwoLegs, Buyer, Seller
<1>9. LegKeys(o) = {KeyOf(BuyLeg(o)), KeyOf(SellLeg(o))}
  BY <1>2, <1>6, <1>7 DEF LegKeys
<1> QED
  BY <1>2, <1>3, <1>5, <1>6, <1>7, <1>8, <1>9

\* The same route, so the same orders.
LEMMA SameRoute ==
  ASSUME NEW o, TwoLegs(o), NEW p, TwoLegs(p), RouteKey(o) = RouteKey(p)
  PROVE  /\ KeyOf(BuyLeg(o)) = KeyOf(BuyLeg(p)) /\ KeyOf(SellLeg(o)) = KeyOf(SellLeg(p))
         /\ BuyLeg(o).venue_id = BuyLeg(p).venue_id
<1> DEFINE keys(x) == {LegKey(x.legs[i]) : i \in LegIndices(x)}
<1>1. DOMAIN RouteKey(o) = keys(o) /\ DOMAIN RouteKey(p) = keys(p)
  BY DEF RouteKey
<1>2. keys(o) = keys(p)
  BY <1>1
<1>3. /\ keys(o) = {LegKey(BuyLeg(o)), LegKey(SellLeg(o))}
      /\ keys(p) = {LegKey(BuyLeg(p)), LegKey(SellLeg(p))}
  BY LegsAre
<1>4. /\ BuyLeg(o).side = "buy" /\ SellLeg(o).side = "sell"
      /\ BuyLeg(p).side = "buy" /\ SellLeg(p).side = "sell"
  BY LegsAre
<1> HIDE DEF keys
<1>5. LegKey(BuyLeg(o)) = LegKey(BuyLeg(p)) /\ LegKey(SellLeg(o)) = LegKey(SellLeg(p))
  BY <1>2, <1>3, <1>4 DEF LegKey
<1> QED
  BY <1>5 DEF LegKey, KeyOf

\* An opportunity that buys at the best ask of a book and sells at another's best
\* bid.
PairOffer(o) ==
  \E strategy \in PairStrategies, i \in Listed, j \in Listed, buy_fee \in Fees, sell_fee \in Fees :
    /\ o = RoundTrip(strategy, i, j, buy_fee, sell_fee)
    /\ i # j /\ Fresh(i) /\ Fresh(j)
    /\ books[i].asks # <<>> /\ books[j].bids # <<>>
    /\ o.net_profit_pct >= MinProfit[strategy]

\* One of a wrapped asset and its underlying.
WrappedOffer(o) ==
  \E k \in Listed, j \in Listed :
    /\ o = WrappedTrade(k, j)
    /\ k[2] \in DOMAIN Underlying /\ j = UnderlyingBook(k) /\ j # None
    /\ Fresh(k) /\ Fresh(j)
    /\ books[k].bids # <<>> /\ books[j].asks # <<>>
    /\ o.net_profit_pct >= 0

\* What the sizing and the checks count on.
IsOffer(o) ==
  /\ TwoLegs(o)
  /\ BuyLeg(o).price \in Nat \ {0} /\ SellLeg(o).price \in Nat
  /\ BuyLeg(o).size \in Nat \ {0} /\ SellLeg(o).size = BuyLeg(o).size
  /\ BuyLeg(o).fee \in Fees /\ SellLeg(o).fee \in Fees
  /\ o.max_size_usd \in Nat /\ o.max_size_usd <= MaxTradeUsd
  /\ o.net_profit_pct \in Int

\* The edge, with what a strategy asks for on top of its fees.
HasEdge(o) ==
  \E x \in Int, least \in Thresholds :
    /\ o.net_profit_pct <= x /\ least <= x
    /\ (SellLeg(o).price - BuyLeg(o).price) * Unit
         >= (x + BuyLeg(o).fee + SellLeg(o).fee) * BuyLeg(o).price

LEMMA RoundTripIs ==
  ASSUME BooksInv, NEW strategy \in PairStrategies, NEW i \in Listed, NEW j \in Listed,
         Known(i), Known(j), books[i].asks # <<>>, books[j].bids # <<>>,
         NEW buy_fee \in Fees, NEW sell_fee \in Fees
  PROVE  LET o == RoundTrip(strategy, i, j, buy_fee, sell_fee)
         IN /\ IsOffer(o) /\ o.strategy = strategy
            /\ BuyLeg(o) = LegOn(i, "buy", BestAsk(i).price, BuyLeg(o).size, buy_fee)
            /\ SellLeg(o) = LegOn(j, "sell", BestBid(j).price, BuyLeg(o).size, sell_fee)
            /\ KeyOf(BuyLeg(o)) = i /\ KeyOf(SellLeg(o)) = j
            /\ o.max_size_usd = Usd(BestBid(j), BestAsk(i))
            /\ BuyLeg(o).size * BuyLeg(o).price = o.max_size_usd
            /\ BuyLeg(o).size <= Smallest(i, j)
            /\ o.net_profit_pct = Gross(BestBid(j), BestAsk(i)) - buy_fee - sell_fee
<1> DEFINE o == RoundTrip(strategy, i, j, buy_fee, sell_fee)
           usd == Usd(BestBid(j), BestAsk(i))
           size == usd \div BestAsk(i).price
           buy == LegOn(i, "buy", BestAsk(i).price, size, buy_fee)
           sell == LegOn(j, "sell", BestBid(j).price, size, sell_fee)
<1>1. /\ BestAsk(i) \in Level /\ MaxTradeUsd % BestAsk(i).price = 0
      /\ BestBid(j) \in Level
  BY BestAskIs, BestBidIs
<1>2. /\ o.strategy = strategy /\ o.legs = <<buy, sell>> /\ o.max_size_usd = usd
      /\ o.net_profit_pct = Gross(BestBid(j), BestAsk(i)) - buy_fee - sell_fee
  BY DEF RoundTrip
<1>3. /\ usd \in Nat /\ usd <= MaxTradeUsd /\ size \in Nat \ {0}
      /\ size * BestAsk(i).price = usd /\ size <= Smallest(i, j)
  BY <1>1, UsdIs DEF Smallest
<1>4. /\ BestAsk(i).price \in Nat \ {0} /\ BestBid(j).price \in Nat
      /\ Gross(BestBid(j), BestAsk(i)) \in Int
  BY <1>1, LevelFields, GrossIs
<1>5. /\ i = <<i[1], i[2], i[3]>> /\ j = <<j[1], j[2], j[3]>>
      /\ buy_fee \in Int /\ sell_fee \in Int
  BY ConstantsOfTrades
<1> HIDE DEF o, usd, size
<1>6. /\ buy.side = "buy" /\ buy.price = BestAsk(i).price /\ buy.size = size /\ buy.fee = buy_fee
      /\ sell.side = "sell" /\ sell.price = BestBid(j).price /\ sell.size = size
      /\ sell.fee = sell_fee
      /\ KeyOf(buy) = i /\ KeyOf(sell) = j
  BY <1>5 DEF LegOn, KeyOf
<1>7. o.legs[1] = buy /\ o.legs[2] = sell
  BY <1>2
<1> HIDE DEF buy, sell
<1>8. TwoLegs(o) /\ Buyer(o) = 1 /\ Seller(o) = 2
  BY <1>2, <1>6, <1>7 DEF TwoLegs, Buyer, Seller
<1>9. BuyLeg(o) = buy /\ SellLeg(o) = sell
  BY <1>7, <1>8, LegsAre
<1>10. o.net_profit_pct \in Int
  BY <1>2, <1>4, <1>5
<1>11. IsOffer(o)
  BY <1>2, <1>3, <1>4, <1>6, <1>8, <1>9, <1>10 DEF IsOffer
<1> QED
  BY <1>2, <1>3, <1>6, <1>9, <1>11 DEF o, usd, size, buy, sell

LEMMA WrappedTradeIs ==
  ASSUME BooksInv, NEW k \in Listed, NEW j \in Listed, Known(k), Known(j),
         k[2] \in DOMAIN Underlying, books[k].bids # <<>>, books[j].asks # <<>>
  PROVE  LET o == WrappedTrade(k, j)
             deviation == Gross(BestBid(k), BestAsk(j))
             fee == TakerFee(k[1])
         IN /\ IsOffer(o) /\ o.strategy = "wrapped_asset"
            /\ o.max_size_usd = Usd(BestBid(k), BestAsk(j))
            /\ o.net_profit_pct = Abs(deviation) - Band[k[2]] - 2 * fee
            /\ o.legs[1].side = "sell" =>
                 /\ deviation > 0
                 /\ SellLeg(o) = LegOn(k, "sell", BestBid(k).price, BuyLeg(o).size, fee)
                 /\ BuyLeg(o) = LegOn(<<k[1], j[2], j[3]>>, "buy", BestAsk(j).price,
                                      BuyLeg(o).size, fee)
                 /\ BuyLeg(o).size * BuyLeg(o).price = o.max_size_usd
                 /\ BuyLeg(o).size <= Smaller(BestAsk(j).size, BestBid(k).size)
<1> DEFINE o == WrappedTrade(k, j)
           deviation == Gross(BestBid(k), BestAsk(j))
           fee == TakerFee(k[1])
           usd == Usd(BestBid(k), BestAsk(j))
           size == usd \div BestAsk(j).price
           here == <<k[1], j[2], j[3]>>
           wrapped_ask == IF books[k].asks = <<>> THEN Infinity ELSE BestAsk(k).price
           underlying_bid == IF books[j].bids = <<>> THEN 0 ELSE BestBid(j).price
           sold == LegOn(k, "sell", BestBid(k).price, size, fee)
           bought == LegOn(here, "buy", BestAsk(j).price, size, fee)
           unsold == LegOn(k, "buy", wrapped_ask, size, fee)
           unbought == LegOn(here, "sell", underlying_bid, size, fee)
<1>1. /\ BestAsk(j) \in Level /\ MaxTradeUsd % BestAsk(j).price = 0
      /\ BestBid(k) \in Level
  BY BestAskIs, BestBidIs
<1>2. /\ o.strategy = "wrapped_asset" /\ o.max_size_usd = usd
      /\ o.legs = IF deviation > 0 THEN <<sold, bought>> ELSE <<unsold, unbought>>
      /\ o.net_profit_pct = Abs(deviation) - Band[k[2]] - 2 * fee
  BY DEF WrappedTrade
<1>3. /\ usd \in Nat /\ usd <= MaxTradeUsd /\ size \in Nat \ {0}
      /\ size * BestAsk(j).price = usd
      /\ size <= Smaller(BestAsk(j).size, BestBid(k).size)
  BY <1>1, UsdIs
<1>4. /\ BestAsk(j).price \in Nat \ {0} /\ BestBid(k).price \in Nat /\ deviation \in Int
  BY <1>1, LevelFields, GrossIs
<1>5. wrapped_ask \in Nat \ {0}
  <2>1. books[k].asks # <<>> => BestAsk(k).price \in Nat \ {0}
    BY BestAskIs, LevelFields
  <2> QED
    BY <2>1, ScansConstantsAreTyped
<1>6. underlying_bid \in Nat
  <2>1. books[j].bids # <<>> => BestBid(j).price \in Nat
    BY BestBidIs, LevelFields
  <2> QED
    BY <2>1
<1>7. fee \in Fees /\ fee \in Int /\ Band[k[2]] \in Nat
  BY ConstantsOfTrades, ScansConstantsAreTyped
<1>8. o.net_profit_pct \in Int
  BY <1>2, <1>4, <1>7 DEF Abs
<1> HIDE DEF o, deviation, usd, size, wrapped_ask, underlying_bid, here, fee
<1>9. /\ sold.side = "sell" /\ sold.price = BestBid(k).price /\ sold.size = size
      /\ sold.fee = fee
      /\ bought.side = "buy" /\ bought.price = BestAsk(j).price /\ bought.size = size
      /\ bought.fee = fee
  BY DEF LegOn
<1>10. /\ unsold.side = "buy" /\ unsold.price = wrapped_ask /\ unsold.size = size
       /\ unsold.fee = fee
       /\ unbought.side = "sell" /\ unbought.price = underlying_bid /\ unbought.size = size
       /\ unbought.fee = fee
  BY DEF LegOn
<1> HIDE DEF sold, bought, unsold, unbought
<1>11. CASE deviation > 0
  <2>1. o.legs = <<sold, bought>> /\ o.legs[1] = sold /\ o.legs[2] = bought
    BY <1>2, <1>11
  <2>2. TwoLegs(o) /\ Buyer(o) = 2 /\ Seller(o) = 1
    BY <1>9, <2>1 DEF TwoLegs, Buyer, Seller
  <2>3. BuyLeg(o) = bought /\ SellLeg(o) = sold
    BY <2>1, <2>2, LegsAre
  <2>4. IsOffer(o)
    BY <1>2, <1>3, <1>4, <1>7, <1>8, <1>9, <2>2, <2>3 DEF IsOffer
  <2> QED
    BY <1>2, <1>3, <1>9, <1>11, <2>3, <2>4
       DEF o, deviation, usd, size, fee, here, sold, bought
<1>12. CASE ~(deviation > 0)
  <2>1. o.legs = <<unsold, unbought>> /\ o.legs[1] = unsold /\ o.legs[2] = unbought
    BY <1>2, <1>12
  <2>2. TwoLegs(o) /\ Buyer(o) = 1 /\ Seller(o) = 2 /\ o.legs[1].side # "sell"
    BY <1>10, <2>1 DEF TwoLegs, Buyer, Seller
  <2>3. BuyLeg(o) = unsold /\ SellLeg(o) = unbought
    BY <2>1, <2>2, LegsAre
  <2>4. IsOffer(o)
    BY <1>2, <1>3, <1>5, <1>6, <1>7, <1>8, <1>10, <2>2, <2>3 DEF IsOffer
  <2> QED
    BY <1>2, <2>2, <2>4 DEF o, deviation, usd, fee
<1> QED
  BY <1>11, <1>12

\* The ways to rest a leg are compared, and one of them is the best.
LEMMA BestPathIsAPath ==
  ASSUME BooksInv, NEW i \in Listed, NEW j \in Listed, Rows(i, j)
  PROVE  \E buy_fee \in Fees, sell_fee \in Fees :
           BestPath(i, j) = RoundTrip("maker_rebate", i, j, buy_fee, sell_fee)
<1> DEFINE paths == MakerPaths(i, j)
           best == {m \in DOMAIN paths :
                      \A n \in DOMAIN paths :
                        paths[m].net_profit_pct >= paths[n].net_profit_pct}
           pct(m) == paths[m].net_profit_pct
           path == CHOOSE m \in best : \A n \in best : m <= n
<1>1. BestPath(i, j) = paths[path]
  BY DEF BestPath
<1>2. /\ Known(i) /\ Known(j) /\ books[i].asks # <<>> /\ books[j].bids # <<>>
  BY DEF Rows, Fresh, TwoSided
<1>3. /\ TakerFee(i[1]) \in Fees /\ MakerFee(i[1]) \in Fees
      /\ TakerFee(j[1]) \in Fees /\ MakerFee(j[1]) \in Fees
  BY ConstantsOfTrades
<1>4. /\ paths[1] = RoundTrip("maker_rebate", i, j, MakerFee(i[1]), TakerFee(j[1]))
      /\ paths[2] = RoundTrip("maker_rebate", i, j, TakerFee(i[1]), MakerFee(j[1]))
      /\ paths[3] = RoundTrip("maker_rebate", i, j, MakerFee(i[1]), MakerFee(j[1]))
      /\ DOMAIN paths = {1, 2, 3}
  BY DEF MakerPaths
<1>5. ASSUME NEW f \in Fees, NEW g \in Fees
      PROVE  RoundTrip("maker_rebate", i, j, f, g).net_profit_pct \in Int
  <2>1. "maker_rebate" \in PairStrategies
    BY DEF PairStrategies
  <2> QED
    BY <1>2, <2>1, RoundTripIs DEF IsOffer
<1>6. pct(1) \in Int /\ pct(2) \in Int /\ pct(3) \in Int
  BY <1>3, <1>4, <1>5
<1> HIDE DEF paths
<1>7. best # {}
  <2>1. \A x, y, z \in Int : \/ x >= y /\ x >= z
                             \/ y >= x /\ y >= z
                             \/ z >= x /\ z >= y
    OBVIOUS
  <2>2. \/ pct(1) >= pct(2) /\ pct(1) >= pct(3)
        \/ pct(2) >= pct(1) /\ pct(2) >= pct(3)
        \/ pct(3) >= pct(1) /\ pct(3) >= pct(2)
    BY <1>6, <2>1
  <2>3. pct(1) >= pct(1) /\ pct(2) >= pct(2) /\ pct(3) >= pct(3)
    BY <1>6
  <2> QED
    BY <1>4, <2>2, <2>3
<1>8. best \subseteq {1, 2, 3} /\ best \subseteq Nat
  BY <1>4
<1> HIDE DEF best
<1>9. \E m \in best : \A n \in best : m <= n
  BY <1>7, <1>8, LeastOf
<1>10. path \in {1, 2, 3}
  BY <1>8, <1>9
<1> HIDE DEF path
<1> QED
  BY <1>1, <1>3, <1>4, <1>10

LEMMA PairsAreFinite ==
  ASSUME NEW f, NEW T \in SUBSET (Listed \X Listed)
  PROVE  IsFiniteSet({f[p] : p \in T})
<1> DEFINE g == [p \in T |-> f[p]]
           S == {f[p] : p \in T}
<1>1. IsFiniteSet(T)
  <2>1. IsFiniteSet(Listed \X Listed)
    BY PricingConstantsAreTyped, FS_Product
  <2> QED
    BY <2>1, FS_Subset
<1>2. g \in [T -> S] /\ Range(g) = S
  BY DEF Range
<1> HIDE DEF g
<1>3. IsFiniteSet(Range(g))
  BY <1>1, <1>2, RangeIsFinite
<1> QED
  BY <1>2, <1>3

LEMMA FindingsFinite == FindingsAreFinite
<1>1. IsFiniteSet(CrossExchange)
  <2> DEFINE f == [p \in Listed \X Listed |-> Takers("cross_exchange", p[1], p[2])]
             all == {f[p] : p \in Pairs}
  <2>1. Pairs \in SUBSET (Listed \X Listed)
    BY DEF Pairs
  <2>2. CrossExchange \in SUBSET all
    BY <2>1 DEF CrossExchange
  <2> HIDE DEF f
  <2>3. IsFiniteSet(all)
    BY <2>1, PairsAreFinite
  <2> QED
    BY <2>2, <2>3, FS_Subset
<1>2. IsFiniteSet(LatencyArb)
  <2> DEFINE f == [p \in Listed \X Listed |-> Takers("latency_arb", p[1], p[2])]
             T == {q \in Pairs : books[q[1]].age - books[q[2]].age >= MinLag}
             all == {f[p] : p \in T}
  <2>1. T \in SUBSET (Listed \X Listed)
    BY DEF Pairs
  <2>2. LatencyArb \in SUBSET all
    BY <2>1 DEF LatencyArb
  <2> HIDE DEF f, T
  <2>3. IsFiniteSet(all)
    BY <2>1, PairsAreFinite
  <2> QED
    BY <2>2, <2>3, FS_Subset
<1>3. IsFiniteSet(MakerRebate)
  <2> DEFINE f == [p \in Listed \X Listed |-> BestPath(p[1], p[2])]
             T == {q \in Pairs : Takers("maker_rebate", q[1], q[2]).net_profit_pct
                                   < MinProfit["maker_rebate"]}
             all == {f[p] : p \in T}
  <2>1. T \in SUBSET (Listed \X Listed)
    BY DEF Pairs
  <2>2. MakerRebate \in SUBSET all
    BY <2>1 DEF MakerRebate
  <2> HIDE DEF f, T
  <2>3. IsFiniteSet(all)
    BY <2>1, PairsAreFinite
  <2> QED
    BY <2>2, <2>3, FS_Subset
<1>4. IsFiniteSet(CrossQuote)
  <2> DEFINE f == [p \in Listed \X Listed |-> Takers("cross_quote", p[1], p[2])]
             g == [p \in Listed \X Listed |-> NoAsk(p[1], p[2])]
             T == {p \in Listed \X Listed : Quotes(p[1], p[2])}
             P == {p \in T : books[p[1]].asks # <<>>}
             N == T \ P
             all == {f[p] : p \in P} \cup {g[p] : p \in N}
  <2>1. P \in SUBSET (Listed \X Listed) /\ N \in SUBSET (Listed \X Listed)
    OBVIOUS
  <2>2. CrossQuote \in SUBSET all
    BY <2>1 DEF CrossQuote
  <2> HIDE DEF f, g, P, N
  <2>3. IsFiniteSet({f[p] : p \in P}) /\ IsFiniteSet({g[p] : p \in N})
    BY <2>1, PairsAreFinite
  <2>4. IsFiniteSet(all)
    BY <2>3, FS_Union
  <2> QED
    BY <2>2, <2>4, FS_Subset
<1>5. IsFiniteSet(WrappedAsset)
  <2> DEFINE f == [p \in Listed \X Listed |-> WrappedTrade(p[1], UnderlyingBook(p[1]))]
             T == Listed \X Listed
             all == {f[p] : p \in T}
  <2>1. WrappedAsset \in SUBSET all
    <3>1. ASSUME NEW o \in WrappedAsset
          PROVE  o \in all
      <4>1. PICK k \in Listed : o = WrappedTrade(k, UnderlyingBook(k))
        BY DEF WrappedAsset
      <4>2. <<k, k>> \in T /\ o = f[<<k, k>>]
        BY <4>1
      <4> QED
        BY <4>2
    <3> QED
      BY <3>1
  <2> HIDE DEF f
  <2>2. IsFiniteSet(all)
    BY PairsAreFinite
  <2> QED
    BY <2>1, <2>2, FS_Subset
<1> QED
  BY <1>1, <1>2, <1>3, <1>4, <1>5 DEF FindingsAreFinite

\* What the scans find.  Only an opportunity without a price is neither.
LEMMA FindingsAre ==
  ASSUME BooksInv, NEW o \in Findings
  PROVE  \/ PairOffer(o)
         \/ WrappedOffer(o)
         \/ \E i \in Listed, j \in Listed : o = NoAsk(i, j)
<1>1. ASSUME NEW i \in Listed, NEW j \in Listed, Rows(i, j)
      PROVE  /\ i # j /\ Fresh(i) /\ Fresh(j)
             /\ books[i].asks # <<>> /\ books[j].bids # <<>>
  BY <1>1 DEF Rows, TwoSided
<1>2. ASSUME NEW s \in PairStrategies, NEW i \in Listed, NEW j \in Listed, i # j,
             Fresh(i), Fresh(j), books[i].asks # <<>>, books[j].bids # <<>>,
             o = Takers(s, i, j), o.net_profit_pct >= MinProfit[s]
      PROVE  PairOffer(o)
  <2>1. TakerFee(i[1]) \in Fees /\ TakerFee(j[1]) \in Fees
    BY ConstantsOfTrades
  <2> QED
    BY <1>2, <2>1 DEF PairOffer, Takers
<1>3. CASE o \in CrossExchange
  <2>1. PICK p \in Pairs : o = Takers("cross_exchange", p[1], p[2])
    BY <1>3 DEF CrossExchange
  <2>2. p[1] \in Listed /\ p[2] \in Listed /\ Rows(p[1], p[2])
    BY DEF Pairs
  <2>3. "cross_exchange" \in PairStrategies /\ o.net_profit_pct >= MinProfit["cross_exchange"]
    BY <1>3 DEF CrossExchange, PairStrategies
  <2> QED
    BY <1>1, <1>2, <2>1, <2>2, <2>3
<1>4. CASE o \in LatencyArb
  <2>1. PICK p \in Pairs : o = Takers("latency_arb", p[1], p[2])
    BY <1>4 DEF LatencyArb
  <2>2. p[1] \in Listed /\ p[2] \in Listed /\ Rows(p[1], p[2])
    BY DEF Pairs
  <2>3. "latency_arb" \in PairStrategies /\ o.net_profit_pct >= MinProfit["latency_arb"]
    BY <1>4 DEF LatencyArb, PairStrategies
  <2> QED
    BY <1>1, <1>2, <2>1, <2>2, <2>3
<1>5. CASE o \in MakerRebate
  <2>1. PICK p \in Pairs : o = BestPath(p[1], p[2])
    BY <1>5 DEF MakerRebate
  <2>2. p[1] \in Listed /\ p[2] \in Listed /\ Rows(p[1], p[2])
    BY DEF Pairs
  <2>3. "maker_rebate" \in PairStrategies /\ o.net_profit_pct >= MinProfit["maker_rebate"]
    BY <1>5 DEF MakerRebate, PairStrategies
  <2>4. PICK buy_fee \in Fees, sell_fee \in Fees :
          o = RoundTrip("maker_rebate", p[1], p[2], buy_fee, sell_fee)
    BY <2>1, <2>2, BestPathIsAPath
  <2> QED
    BY <1>1, <2>2, <2>3, <2>4 DEF PairOffer
<1>6. CASE o \in CrossQuote
  <2>1. \/ \E i \in Listed, j \in Listed : o = NoAsk(i, j)
        \/ /\ \E i \in Listed, j \in Listed :
                /\ Quotes(i, j) /\ books[i].asks # <<>>
                /\ o = Takers("cross_quote", i, j)
           /\ o.net_profit_pct >= MinProfit["cross_quote"]
    <3> DEFINE T == {p \in Listed \X Listed : Quotes(p[1], p[2])}
               P == {p \in T : books[p[1]].asks # <<>>}
    <3>1. \/ \E p \in P : o = Takers("cross_quote", p[1], p[2])
                            /\ o.net_profit_pct >= MinProfit["cross_quote"]
          \/ \E p \in T \ P : o = NoAsk(p[1], p[2])
      BY <1>6 DEF CrossQuote
    <3>2. \A p \in T : p[1] \in Listed /\ p[2] \in Listed /\ Quotes(p[1], p[2])
      OBVIOUS
    <3>3. \A p \in P : p \in T /\ books[p[1]].asks # <<>>
      OBVIOUS
    <3> HIDE DEF P
    <3>4. CASE \E p \in P : o = Takers("cross_quote", p[1], p[2])
                              /\ o.net_profit_pct >= MinProfit["cross_quote"]
      BY <3>2, <3>3, <3>4
    <3>5. CASE \E p \in T \ P : o = NoAsk(p[1], p[2])
      <4> HIDE DEF T
      <4> QED
        BY <3>2, <3>5
    <3> QED
      BY <3>1, <3>4, <3>5
  <2>2. ASSUME NEW i \in Listed, NEW j \in Listed, Quotes(i, j)
        PROVE  i # j /\ Fresh(i) /\ Fresh(j) /\ books[j].bids # <<>>
    BY <2>2 DEF Quotes
  <2>3. "cross_quote" \in PairStrategies
    BY DEF PairStrategies
  <2> QED
    BY <1>2, <2>1, <2>2, <2>3
<1>7. CASE o \in WrappedAsset
  <2>1. PICK k \in Listed :
          /\ k[2] \in DOMAIN Underlying /\ Fresh(k) /\ books[k].bids # <<>>
          /\ UnderlyingBook(k) # None
          /\ Fresh(UnderlyingBook(k)) /\ books[UnderlyingBook(k)].asks # <<>>
          /\ o = WrappedTrade(k, UnderlyingBook(k)) /\ o.net_profit_pct >= 0
    BY <1>7 DEF WrappedAsset
  <2>2. UnderlyingBook(k) \in Listed
    BY <2>1 DEF Fresh, Known
  <2> QED
    BY <2>1, <2>2 DEF WrappedOffer
<1> QED
  BY <1>3, <1>4, <1>5, <1>6, <1>7 DEF Findings

LEMMA PairOfferIs ==
  ASSUME BooksInv, NEW o, PairOffer(o)
  PROVE  /\ IsOffer(o) /\ HasEdge(o) /\ o.strategy # "wrapped_asset"
         /\ Known(KeyOf(BuyLeg(o)))
<1>1. PICK strategy \in PairStrategies, i \in Listed, j \in Listed, f \in Fees, g \in Fees :
        /\ o = RoundTrip(strategy, i, j, f, g)
        /\ Known(i) /\ Known(j)
        /\ books[i].asks # <<>> /\ books[j].bids # <<>>
        /\ o.net_profit_pct >= MinProfit[strategy]
  BY DEF PairOffer, Fresh
<1> DEFINE bid == BestBid(j)
           ask == BestAsk(i)
           pct == o.net_profit_pct
           least == MinProfit[strategy]
<1>2. /\ IsOffer(o) /\ o.strategy = strategy /\ KeyOf(BuyLeg(o)) = i
      /\ BuyLeg(o) = LegOn(i, "buy", ask.price, BuyLeg(o).size, f)
      /\ SellLeg(o) = LegOn(j, "sell", bid.price, BuyLeg(o).size, g)
      /\ pct = Gross(bid, ask) - f - g
  BY <1>1, RoundTripIs
<1>3. /\ BuyLeg(o).price = ask.price /\ BuyLeg(o).fee = f
      /\ SellLeg(o).price = bid.price /\ SellLeg(o).fee = g
  BY <1>2 DEF LegOn
<1>4. /\ ask \in Level /\ bid \in Level
      /\ Gross(bid, ask) \in Int
      /\ Gross(bid, ask) * ask.price <= (bid.price - ask.price) * Unit
  BY <1>1, BestAskIs, BestBidIs, GrossIs
<1>5. /\ f \in Int /\ g \in Int /\ Unit \in Nat \ {0} /\ strategy # "wrapped_asset"
      /\ least \in Int /\ ask.price \in Nat /\ bid.price \in Nat
  <2>1. strategy \in Strategies
    BY ConstantsOfTrades
  <2> QED
    BY <1>4, <2>1, LevelFields, ConstantsOfTrades, ScansConstantsAreTyped
<1>6. least \in Thresholds
  BY DEF Thresholds
<1> HIDE DEF bid, ask, least
<1>7. pct + f + g = Gross(bid, ask) /\ pct \in Int /\ least <= pct
  BY <1>1, <1>2, <1>4, <1>5 DEF least
<1> HIDE DEF pct
<1>8. (bid.price - ask.price) * Unit >= (pct + f + g) * ask.price
  <2>1. (bid.price - ask.price) * Unit \in Int /\ Gross(bid, ask) * ask.price \in Int
    BY <1>4, <1>5, Products
  <2> QED
    BY <1>4, <1>7, <2>1
<1>9. HasEdge(o)
  <2>1. pct <= pct
    BY <1>7
  <2> QED
    BY <1>3, <1>6, <1>7, <1>8, <2>1 DEF HasEdge, pct
<1> QED
  BY <1>1, <1>2, <1>5, <1>9

LEMMA WrappedOfferIs ==
  ASSUME BooksInv, NEW o, WrappedOffer(o)
  PROVE  /\ IsOffer(o) /\ o.strategy = "wrapped_asset"
         /\ o.legs[1].side = "sell" => HasEdge(o)
<1>1. PICK k \in Listed, j \in Listed :
        /\ o = WrappedTrade(k, j)
        /\ k[2] \in DOMAIN Underlying /\ Known(k) /\ Known(j)
        /\ books[k].bids # <<>> /\ books[j].asks # <<>>
        /\ o.net_profit_pct >= 0
  BY DEF WrappedOffer, Fresh
<1> DEFINE bid == BestBid(k)
           ask == BestAsk(j)
           pct == o.net_profit_pct
           band == Band[k[2]]
           f == TakerFee(k[1])
<1>2. /\ IsOffer(o) /\ o.strategy = "wrapped_asset"
      /\ pct = Abs(Gross(bid, ask)) - band - 2 * f
      /\ o.legs[1].side = "sell" =>
           /\ Gross(bid, ask) > 0
           /\ SellLeg(o) = LegOn(k, "sell", bid.price, BuyLeg(o).size, f)
           /\ BuyLeg(o) = LegOn(<<k[1], j[2], j[3]>>, "buy", ask.price, BuyLeg(o).size, f)
  BY <1>1, WrappedTradeIs
<1>3. ASSUME o.legs[1].side = "sell"
      PROVE  HasEdge(o)
  <2>1. /\ BuyLeg(o).price = ask.price /\ BuyLeg(o).fee = f
        /\ SellLeg(o).price = bid.price /\ SellLeg(o).fee = f
        /\ Gross(bid, ask) > 0
    BY <1>2, <1>3 DEF LegOn
  <2>2. /\ ask \in Level /\ bid \in Level
        /\ Gross(bid, ask) \in Int
        /\ Gross(bid, ask) * ask.price <= (bid.price - ask.price) * Unit
    BY <1>1, BestAskIs, BestBidIs, GrossIs
  <2>3. /\ f \in Fees /\ f \in Int /\ Unit \in Nat \ {0}
        /\ k[2] \in DOMAIN Band /\ band \in Nat
        /\ ask.price \in Nat /\ bid.price \in Nat
    BY <1>1, <2>2, LevelFields, ConstantsOfTrades, ScansConstantsAreTyped
  <2>4. band \in Thresholds
    BY <2>3 DEF Thresholds
  <2>5. pct >= 0
    BY <1>1
  <2> HIDE DEF bid, ask, band, f, pct
  <2>6. pct \in Nat /\ pct + band + f + f = Gross(bid, ask)
    BY <1>2, <2>1, <2>2, <2>3, <2>5 DEF Abs
  <2> DEFINE x == pct + band
  <2>7. x \in Int /\ pct <= x /\ band <= x /\ x + f + f = Gross(bid, ask)
    BY <2>3, <2>6
  <2> HIDE DEF x
  <2>8. (bid.price - ask.price) * Unit >= (x + f + f) * ask.price
    <3>1. (bid.price - ask.price) * Unit \in Int /\ Gross(bid, ask) * ask.price \in Int
      BY <2>2, <2>3, Products
    <3> QED
      BY <2>2, <2>7, <3>1
  <2> QED
    BY <2>1, <2>4, <2>7, <2>8 DEF HasEdge, pct
<1> QED
  BY <1>2, <1>3

\* What a tick goes on with is an opportunity of one of the two kinds.
LEMMA OffersAre ==
  ASSUME BooksInv
  PROVE  /\ \A o \in ToSet(Offers) : Worth(o) /\ (PairOffer(o) \/ WrappedOffer(o))
         /\ \A o \in Findings :
              Worth(o) => \E p \in ToSet(Offers) : RouteKey(p) = RouteKey(o)
<1>1. ASSUME NEW i \in Listed, NEW j \in Listed
      PROVE  NoAsk(i, j).net_profit_pct \in Int /\ ~Worth(NoAsk(i, j))
  <2> DEFINE o == NoAsk(i, j)
  <2>1. /\ o.net_profit_pct = NaN /\ o.max_size_usd = NaN
        /\ 1 \in LegIndices(o) /\ o.legs[1].venue_id = i[1]
    BY DEF NoAsk, LegIndices, LegOn
  <2> HIDE DEF o
  <2>2. NaN \in Int /\ NaN < 0 /\ MinOrderUsd[i[1]] \in Nat
    BY ConstantsOfTrades, ScansConstantsAreTyped, DetectionConstantsAreTyped
  <2>3. ~(NaN >= MinOrderUsd[i[1]])
    BY <2>2
  <2>4. ~IsFillable(o)
    BY <2>1, <2>3 DEF IsFillable
  <2> QED
    BY <2>1, <2>2, <2>4 DEF Worth, o
<1>2. \A o \in Findings : o.net_profit_pct \in Int
  BY <1>1, FindingsAre, PairOfferIs, WrappedOfferIs DEF IsOffer
<1>3. /\ \A o \in ToSet(Offers) : o \in Findings /\ Worth(o)
      /\ \A o \in Findings :
           Worth(o) => \E p \in ToSet(Offers) : RouteKey(p) = RouteKey(o)
  BY <1>2, FindingsFinite, OffersAreFindings
<1> QED
  BY <1>1, <1>3, FindingsAre

\* Whatever happens to the books after it was picked, an offer is one that sizing
\* and the checks understand, and its edge is what detection asked for.
OfferInv ==
  opportunity # None =>
    /\ IsOffer(opportunity)
    /\ opportunity.strategy = "wrapped_asset" \/ Known(KeyOf(BuyLeg(opportunity)))
    /\ \/ HasEdge(opportunity)
       \/ opportunity.strategy = "wrapped_asset" /\ opportunity.legs[1].side # "sell"

PricingInv == BooksInv /\ OfferInv

LEMMA PricingStart == PricingInit => PricingInv
BY BooksStart DEF PricingInit, PricingInv, OfferInv

LEMMA PricingStep == PricingInv /\ [PricingNext]_pricingVars => PricingInv'
<1> SUFFICES ASSUME PricingInv, [PricingNext]_pricingVars
             PROVE  PricingInv'
  OBVIOUS
<1>1. BooksInv /\ OfferInv
  BY DEF PricingInv
<1>2. BooksInv' /\ \A k : Known(k) => Known(k)'
  BY <1>1, BooksStep
<1>3. CASE Pick
  <2>1. PICK o \in ToSet(Offers) : opportunity' = o
    BY <1>3 DEF Pick
  <2>2. PairOffer(o) \/ WrappedOffer(o)
    BY <1>1, OffersAre
  <2>3. /\ IsOffer(o)
        /\ o.strategy = "wrapped_asset" \/ Known(KeyOf(BuyLeg(o)))
        /\ HasEdge(o) \/ (o.strategy = "wrapped_asset" /\ o.legs[1].side # "sell")
    <3>1. CASE PairOffer(o)
      BY <1>1, <3>1, PairOfferIs
    <3>2. CASE WrappedOffer(o)
      <4>1. o.legs[1].side # "buy" \/ o.legs[1].side # "sell"
        OBVIOUS
      <4> QED
        BY <1>1, <3>2, WrappedOfferIs
    <3> QED
      BY <2>2, <3>1, <3>2
  <2>4. \A k : Known(k)' <=> Known(k)
    BY <1>3 DEF Pick, Known
  <2>5. OfferInv'
    BY <2>1, <2>3, <2>4
       DEF OfferInv
  <2> QED
    BY <1>2, <2>5 DEF PricingInv
<1>4. CASE UNCHANGED opportunity
  BY <1>1, <1>2, <1>4 DEF PricingInv, OfferInv
<1> QED
  BY <1>3, <1>4 DEF PricingNext, pricingVars, Poll, Patch, Wait

LEMMA PricingInvariant == PricingSpec => []PricingInv
<1>1. PricingInit => PricingInv
  BY PricingStart
<1>2. PricingInv /\ [PricingNext]_pricingVars => PricingInv'
  BY PricingStep
<1> QED
  BY <1>1, <1>2, PTL DEF PricingSpec

-------------------------------------------------------------------------------
\* What is traded.

\* A walk along a book in the store costs its best money.
LEMMA FillIs ==
  ASSUME BooksInv, NEW k, Known(k), NEW side \in {"buy", "sell"}, NEW size \in Nat
  PROVE  /\ Ordered(Side(k, side), side) /\ Side(k, side) \in Seq(Level)
         /\ BestMoney(k, side, size) \in Nat
         /\ Fill(k, side, size)
              = [cost |-> BestMoney(k, side, size),
                 filled |-> Smaller(size, Depth(ToSet(Side(k, side)))),
                 remaining |-> size - Smaller(size, Depth(ToSet(Side(k, side))))]
<1>1. Ordered(Side(k, side), side) /\ Side(k, side) \in Seq(Level)
  BY DEF BooksInv, GoodBook, Book, Known, Side
<1>2. BestMoney(k, side, size) = BestCost(ToSet(Side(k, side)), side, size)
  BY DEF BestMoney
<1> DEFINE s == Side(k, side)
<1>3. Fill(k, side, size) = FoldLeft(Take, [cost |-> 0, filled |-> 0, remaining |-> size], s)
  BY DEF Fill
<1> HIDE DEF s
<1>4. FoldLeft(Take, [cost |-> 0, filled |-> 0, remaining |-> size], s)
        = [cost |-> BestCost(ToSet(s), side, size),
           filled |-> Smaller(size, Depth(ToSet(s))),
           remaining |-> size - Smaller(size, Depth(ToSet(s)))]
  BY <1>1, WalkIsGreedy DEF s
<1>5. BestCost(ToSet(s), side, size) \in Nat
  BY <1>1, BestCostType DEF s
<1> QED
  BY <1>1, <1>2, <1>3, <1>4, <1>5 DEF s

LEMMA DepthOfList ==
  ASSUME NEW side, NEW s \in Seq(Level), Ordered(s, side)
  PROVE  Depth(ToSet(s)) \in Nat
<1>1. Len(s) \in 0..Len(s)
  OBVIOUS
<1> QED
  BY <1>1, Beginnings, Depths

\* What slippage allows for the whole it allows for a part.
LEMMA SlippageOfPart ==
  ASSUME NEW part \in Nat, NEW whole \in Nat, NEW m \in Nat, NEW F \in Nat \ {0},
         NEW p \in Nat, NEW slip \in Nat,
         part * F <= whole * m,
         (whole - p * F) * Unit <= slip * p * F
  PROVE  part * Unit <= m * p * (Unit + slip)
<1>1. Unit \in Nat \ {0}
  BY ConstantsOfTrades
<1> DEFINE U == Unit
<1> HIDE DEF U
<1>2. U \in Nat
  BY <1>1 DEF U
<1>3. whole * U <= p * F * (U + slip)
  <2>1. (whole - p * F) * U = whole * U - (p * F) * U
    BY <1>2
  <2>2. p * F * (U + slip) = (p * F) * U + slip * p * F
    BY <1>2
  <2>3. whole * U \in Int /\ (p * F) * U \in Int /\ slip * p * F \in Int
    BY <1>2
  <2> QED
    BY <2>1, <2>2, <2>3 DEF U
<1>4. (part * F) * U <= (whole * m) * U
  <2>1. part * F \in Int /\ whole * m \in Int
    OBVIOUS
  <2>2. U * (part * F) <= U * (whole * m)
    BY <1>2, <2>1, Products
  <2> QED
    BY <1>2, <2>1, <2>2, Products
<1>5. (whole * m) * U <= m * (p * F * (U + slip))
  <2>1. whole * U \in Int /\ p * F * (U + slip) \in Int
    BY <1>2
  <2>2. m * (whole * U) <= m * (p * F * (U + slip))
    BY <1>3, <2>1, Products
  <2>3. (whole * m) * U = m * (whole * U)
    BY <1>2
  <2> QED
    BY <2>2, <2>3
<1>6. F * (part * U) <= F * (m * p * (U + slip))
  <2>1. (part * F) * U = F * (part * U)
    BY <1>2
  <2>2. m * (p * F * (U + slip)) = F * (m * p * (U + slip))
    BY <1>2
  <2>3. /\ (part * F) * U \in Int /\ (whole * m) * U \in Int
        /\ m * (p * F * (U + slip)) \in Int
    BY <1>2
  <2> QED
    BY <1>4, <1>5, <2>1, <2>2, <2>3
<1> DEFINE x == part * U
           y == m * p * (U + slip)
<1>7. x \in Int /\ y \in Int
  BY <1>2
<1> HIDE DEF x, y
<1>8. F * x <= F * y
  BY <1>6 DEF x, y
<1>9. x <= y
  <2>1. ASSUME y + 1 <= x
        PROVE  FALSE
    <3>1. F * (y + 1) <= F * x /\ F * (y + 1) = F * y + F
      BY <1>7, <2>1, Products
    <3>2. F * y \in Int /\ F * x \in Int
      BY <1>7, Products
    <3> QED
      BY <1>8, <3>1, <3>2
  <2> QED
    BY <1>7, <2>1
<1> QED
  BY <1>9 DEF x, y, U

\* The order that is sent for an opportunity that passed sizing.
LEMMA SizedOrder ==
  ASSUME BooksInv, NEW o, IsOffer(o), SizeWithDepthCheck(o) > 0
  PROVE  LET sized == SizeWithDepthCheck(o)
             k == KeyOf(BuyLeg(o))
             size == Smaller(OrderSize(o, Buyer(o), sized), Depth(ToSet(books[k].asks)))
         IN /\ sized \in Nat /\ sized <= MaxNotional /\ sized <= MaxTradeUsd
            /\ ClearsVenueMinimums(o, sized)
            /\ Known(k) => BestMoney(k, "buy", size) * Unit
                             <= size * BuyLeg(o).price * (Unit + MaxSlippage)
<1> DEFINE leg == BuyLeg(o)
           p == leg.price
           k == KeyOf(leg)
           proposed == Smaller(o.max_size_usd, MaxNotional)
           q == proposed \div p
           taken == FillOrAssume(leg, q)
           sized == Smaller(proposed, taken.cost)
           depth == Depth(ToSet(books[k].asks))
           m == Smaller(sized \div p, depth)
<1>1. /\ SizeWithDepthCheck(o) = sized /\ taken.filled # 0
      /\ ~Slips(taken, p) /\ ClearsVenueMinimums(o, sized)
  BY DEF SizeWithDepthCheck
<1>2. p \in Nat \ {0} /\ o.max_size_usd \in Nat /\ o.max_size_usd <= MaxTradeUsd
      /\ leg.side = "buy" /\ o.legs[Buyer(o)] = leg
  BY LegsAre DEF IsOffer
<1>3. MaxNotional \in Nat /\ MaxSlippage \in Nat /\ Unit \in Nat \ {0} /\ MaxTradeUsd \in Nat
  BY SizingConstantsAreTyped, ConstantsOfTrades
<1> HIDE DEF leg
<1>4. proposed \in Nat /\ proposed <= MaxNotional /\ proposed <= MaxTradeUsd
  BY <1>2, <1>3 DEF Smaller
<1> HIDE DEF p, proposed
<1>5. p \in Nat \ {0}
  BY <1>2 DEF p
<1>6. q \in Nat /\ p * q <= proposed
  <2>1. q \in Int /\ p * q <= proposed
    BY <1>4, <1>5, Divided
  <2>2. p * 0 <= proposed
    BY <1>4, <1>5
  <2>3. 0 <= q
    BY <1>4, <1>5, <2>2, Fits
  <2> QED
    BY <2>1, <2>3
<1> HIDE DEF q, k
<1>7. taken.cost \in Nat
  <2>1. CASE Known(k)
    <3>1. taken = Fill(k, "buy", q)
      BY <1>2, <2>1 DEF FillOrAssume, k
    <3>2. "buy" \in {"buy", "sell"}
      OBVIOUS
    <3> HIDE DEF taken
    <3> QED
      BY <1>6, <2>1, <3>1, <3>2, FillIs
  <2>2. CASE ~Known(k)
    <3>1. taken.cost = p * q
      BY <2>2 DEF FillOrAssume, k, p
    <3> QED
      BY <1>2, <1>6, <3>1, Products DEF p
  <2> QED
    BY <2>1, <2>2
<1>8. sized \in Nat /\ sized <= proposed
  BY <1>4, <1>7 DEF Smaller
<1>9. ASSUME Known(k)
      PROVE  BestMoney(k, "buy", m) * Unit <= m * p * (Unit + MaxSlippage)
  <2> DEFINE s == books[k].asks
             F == Smaller(q, depth)
             whole == BestCost(ToSet(s), "buy", q)
             part == BestCost(ToSet(s), "buy", m)
  <2>1. /\ s \in Seq(Level) /\ Ordered(s, "buy") /\ Side(k, "buy") = s
        /\ taken = [cost |-> whole, filled |-> F, remaining |-> q - F]
        /\ BestMoney(k, "buy", m) = part
    <3>1. taken = Fill(k, "buy", q)
      BY <1>2, <1>9 DEF FillOrAssume, k
    <3>2. "buy" \in {"buy", "sell"} /\ Side(k, "buy") = s
      BY DEF Side
    <3>3. BestMoney(k, "buy", m) = part /\ BestMoney(k, "buy", q) = whole
      BY <3>2 DEF BestMoney
    <3> HIDE DEF taken, s, whole, part, m
    <3>4. /\ Ordered(Side(k, "buy"), "buy") /\ Side(k, "buy") \in Seq(Level)
          /\ Fill(k, "buy", q)
               = [cost |-> BestMoney(k, "buy", q),
                  filled |-> Smaller(q, Depth(ToSet(Side(k, "buy")))),
                  remaining |-> q - Smaller(q, Depth(ToSet(Side(k, "buy"))))]
      BY <1>6, <1>9, <3>2, FillIs
    <3> QED
      BY <3>1, <3>2, <3>3, <3>4 DEF s
  <2> HIDE DEF s
  <2>2. depth \in Nat
    BY <2>1, DepthOfList DEF s
  <2>3. sized \div p \in Nat /\ sized \div p <= q
    <3>1. sized \div p \in Int /\ p * (sized \div p) <= sized
      <4> HIDE DEF sized
      <4> QED
        BY <1>8, <1>5, Divided
    <3>2. p * 0 <= sized /\ p \in Nat \ {0}
      <4> HIDE DEF sized
      <4> QED
        BY <1>8, <1>5
    <3>3. 0 <= sized \div p
      BY <1>8, <3>2, Fits
    <3> HIDE DEF sized
    <3> DEFINE d == sized \div p
    <3> HIDE DEF d
    <3>4. d \in Int /\ p * d <= proposed
      <4>1. p * d \in Int
        BY <3>1, <3>2, Products DEF d
      <4> QED
        BY <1>4, <1>8, <3>1, <4>1 DEF d
    <3>5. d <= proposed \div p
      BY <1>4, <3>2, <3>4, Fits
    <3> QED
      BY <3>1, <3>3, <3>5 DEF d, q
  <2> HIDE DEF sized, taken, depth
  <2>4. m \in Nat /\ m <= q /\ m <= depth
    BY <1>6, <2>2, <2>3 DEF Smaller
  <2>5. F \in Nat /\ F # 0
    BY <1>1, <1>6, <2>1, <2>2 DEF Smaller
  <2>6. whole \in Nat /\ part \in Nat
    <3> HIDE DEF m
    <3> QED
      BY <1>6, <2>1, <2>4, BestCostType
  <2>7. part * F <= whole * m
    <3> HIDE DEF m
    <3> QED
      BY <1>6, <2>1, <2>4, AverageRises DEF depth, s
  <2>8. (whole - p * F) * Unit <= MaxSlippage * p * F
    <3>1. ~((whole - p * F) * Unit > MaxSlippage * p * F)
      BY <1>1, <2>1 DEF Slips
    <3>2. (whole - p * F) * Unit \in Int /\ MaxSlippage * p * F \in Int
      <4> HIDE DEF whole, F
      <4> QED
        BY <1>2, <1>3, <2>5, <2>6 DEF p
    <3> QED
      BY <3>1, <3>2
  <2> HIDE DEF whole, part, F, m
  <2>9. part * Unit <= m * p * (Unit + MaxSlippage)
    <3>1. p \in Nat
      BY <1>2 DEF p
    <3> QED
      BY <1>3, <2>4, <2>5, <2>6, <2>7, <2>8, <3>1, SlippageOfPart
  <2> QED
    BY <2>1, <2>9
<1>10. OrderSize(o, Buyer(o), sized) = sized \div p
  BY <1>2 DEF OrderSize, p
<1>11. sized <= MaxNotional /\ sized <= MaxTradeUsd
  <2> HIDE DEF sized
  <2> QED
    BY <1>3, <1>4, <1>8
<1> HIDE DEF sized, depth
<1> QED
  BY <1>1, <1>8, <1>9, <1>10, <1>11 DEF depth, k, p, leg

\* Whatever happens to the books between detection and the order, what is bought
\* costs no more than the slippage allows over the detected price, however little
\* of it is sent and however much is left (_walk_depth, size_with_depth_check,
\* _execute_leg).
THEOREM SlippageStaysBounded == PricingSpec => []SlippageIsBounded
<1>1. PricingInv => SlippageIsBounded
  <2> SUFFICES ASSUME PricingInv, opportunity # None, SizeWithDepthCheck(opportunity) > 0
               PROVE  LET o == opportunity
                          buy == CHOOSE i \in BuyIndices(o) : TRUE
                          sized == SizeWithDepthCheck(o)
                          k == KeyOf(BuyLeg(o))
                          size == Smaller(OrderSize(o, buy, sized), Depth(ToSet(books[k].asks)))
                      IN /\ sized <= MaxNotional /\ sized <= MaxTradeUsd
                         /\ \A i \in LegIndices(o) : sized >= MinOrderUsd[o.legs[i].venue_id]
                         /\ Known(k) => BestMoney(k, "buy", size) * Unit
                                          <= size * BuyLeg(o).price * (Unit + MaxSlippage)
    BY DEF SlippageIsBounded
  <2> DEFINE o == opportunity
  <2>1. BooksInv /\ IsOffer(o)
    BY DEF PricingInv, OfferInv
  <2>2. (CHOOSE i \in BuyIndices(o) : TRUE) = Buyer(o)
    BY <2>1, LegsAre DEF IsOffer
  <2> HIDE DEF o
  <2>3. SizeWithDepthCheck(o) > 0
    BY DEF o
  <2> QED
    BY <2>1, <2>2, <2>3, SizedOrder DEF ClearsVenueMinimums, o
<1> QED
  BY <1>1, PricingInvariant, PTL

LEMMA SumOfOne ==
  ASSUME NEW x, NEW f, DOMAIN f = {x}, f[x] \in Int
  PROVE  SumFunction(f) = f[x]
<1>1. SumFunction(f) = SumFunctionOnSet(f, {x})
  BY DEF SumFunction
<1>2. SumFunctionOnSet(f, {}) = 0 /\ IsFiniteSet({}) /\ {} \cup {x} = {x}
  BY SumEmpty, FS_EmptySet
<1>3. SumFunctionOnSet(f, {} \cup {x}) = SumFunctionOnSet(f, {}) + f[x]
  BY <1>2, SumInsert
<1> QED
  BY <1>1, <1>2, <1>3

\* What the verification looks at: as many units sold as are bought, at the best
\* money either side of the books has, after the fees.
LEMMA VerifiedTrade ==
  ASSUME BooksInv, NEW o, IsOffer(o), Known(KeyOf(BuyLeg(o))), Known(KeyOf(SellLeg(o))),
         Accepted(o)
  PROVE  LET size == VerifiedSize(o, Buyer(o), SizeWithDepthCheck(o))
         IN BestMoney(KeyOf(SellLeg(o)), "sell", size) * (Unit - SellLeg(o).fee)
              > BestMoney(KeyOf(BuyLeg(o)), "buy", size) * (Unit + BuyLeg(o).fee)
<1> DEFINE b == BuyLeg(o)
           s == SellLeg(o)
           i == KeyOf(b)
           j == KeyOf(s)
           sized == SizeWithDepthCheck(o)
           size == VerifiedSize(o, Buyer(o), sized)
<1>1. /\ b.price \in Nat \ {0} /\ b.size \in Nat \ {0} /\ s.size = b.size
      /\ b.fee \in Int /\ s.fee \in Int /\ b.side = "buy" /\ s.side = "sell"
      /\ o.legs[Buyer(o)] = b /\ o.legs[Seller(o)] = s
      /\ BuyIndices(o) = {Buyer(o)} /\ SellIndices(o) = {Seller(o)}
  BY LegsAre, ConstantsOfTrades DEF IsOffer
<1>2. ReverifyProfitability(o, sized)
  BY DEF Accepted
<1>3. sized > 0
  BY <1>2 DEF ReverifyProfitability
<1>4. sized \in Nat
  BY <1>3, SizedOrder
<1>5. Unit \in Nat
  BY ConstantsOfTrades
<1> HIDE DEF sized
<1>6. size = (b.size * sized) \div (b.price * b.size)
      /\ VerifiedSize(o, Seller(o), sized) = size
  BY <1>1 DEF VerifiedSize
<1> HIDE DEF size
<1>7. size \in Nat
  <2>1. b.size * sized \in Nat /\ b.price * b.size \in Nat \ {0}
    BY <1>1, <1>4
  <2> DEFINE x == b.size * sized
             y == b.price * b.size
  <2> HIDE DEF x, y
  <2>2. x \in Nat /\ y \in Nat \ {0} /\ size = x \div y
    BY <1>6, <2>1 DEF x, y
  <2>3. size \in Int /\ y * 0 <= x
    BY <2>2, Divided
  <2>4. 0 <= size
    BY <2>2, <2>3, Fits
  <2> QED
    BY <2>3, <2>4
<1>8. /\ Known(i) /\ Known(j)
      /\ KeyOf(o.legs[Buyer(o)]) = i /\ KeyOf(o.legs[Seller(o)]) = j
  BY <1>1
<1>9. /\ VerifiedFill(o, Buyer(o), sized) = Fill(i, "buy", size)
      /\ VerifiedFill(o, Seller(o), sized) = Fill(j, "sell", size)
  BY <1>1, <1>6, <1>8 DEF VerifiedFill, FillOrAssume, size
<1> DEFINE cost == BestMoney(i, "buy", size)
           proceeds == BestMoney(j, "sell", size)
<1> HIDE DEF b, s, i, j
<1>10. /\ cost \in Nat /\ VerifiedFill(o, Buyer(o), sized).cost = cost
       /\ proceeds \in Nat /\ VerifiedFill(o, Seller(o), sized).cost = proceeds
  <2>1. "buy" \in {"buy", "sell"} /\ "sell" \in {"buy", "sell"}
    OBVIOUS
  <2>2. cost \in Nat /\ Fill(i, "buy", size).cost = cost
    BY <1>7, <1>8, <2>1, FillIs
  <2>3. proceeds \in Nat /\ Fill(j, "sell", size).cost = proceeds
    BY <1>7, <1>8, <2>1, FillIs
  <2> QED
    BY <1>9, <2>2, <2>3
<1> HIDE DEF cost, proceeds
<1>11. Money(o, "buy", sized) = cost * (Unit + b.fee)
  <2> DEFINE f == [n \in {m \in LegIndices(o) : o.legs[m].side = "buy"} |->
                     VerifiedFill(o, n, sized).cost * (Unit + o.legs[n].fee)]
  <2>1. Money(o, "buy", sized) = SumFunction(f)
    BY DEF Money
  <2>2. {m \in LegIndices(o) : o.legs[m].side = "buy"} = {Buyer(o)}
    BY <1>1 DEF BuyIndices
  <2>3. DOMAIN f = {Buyer(o)} /\ f[Buyer(o)] = cost * (Unit + b.fee)
    BY <1>1, <1>10, <2>2
  <2>4. cost * (Unit + b.fee) \in Int
    BY <1>1, <1>5, <1>10
  <2> HIDE DEF f
  <2> QED
    BY <2>1, <2>3, <2>4, SumOfOne
<1>12. Money(o, "sell", sized) = proceeds * (Unit - s.fee)
  <2> DEFINE f == [n \in {m \in LegIndices(o) : o.legs[m].side = "sell"} |->
                     VerifiedFill(o, n, sized).cost * (Unit + -o.legs[n].fee)]
  <2>1. Money(o, "sell", sized) = SumFunction(f)
    BY DEF Money
  <2>2. {m \in LegIndices(o) : o.legs[m].side = "sell"} = {Seller(o)}
    BY <1>1 DEF SellIndices
  <2>3. DOMAIN f = {Seller(o)} /\ f[Seller(o)] = proceeds * (Unit + -s.fee)
    BY <1>1, <1>10, <2>2
  <2>4. proceeds * (Unit + -s.fee) \in Int /\ Unit + -s.fee = Unit - s.fee
    BY <1>1, <1>5, <1>10
  <2> HIDE DEF f
  <2> QED
    BY <2>1, <2>3, <2>4, SumOfOne
<1>13. Money(o, "sell", sized) > Money(o, "buy", sized)
  BY <1>2 DEF ReverifyProfitability
<1> QED
  BY <1>11, <1>12, <1>13 DEF b, s, i, j, size, sized, cost, proceeds

\* A trade that is let through pays on the books as they are when it is verified,
\* however they moved since it was detected (reverify_profitability).
THEOREM VerifiedTradesAlwaysProfit == PricingSpec => []VerifiedTradesProfit
<1>1. PricingInv => VerifiedTradesProfit
  <2> DEFINE o == opportunity
  <2> SUFFICES ASSUME PricingInv, o # None, Accepted(o),
                      Known(KeyOf(BuyLeg(o))), Known(KeyOf(SellLeg(o)))
               PROVE  LET buy == CHOOSE i \in BuyIndices(o) : TRUE
                          size == VerifiedSize(o, buy, SizeWithDepthCheck(o))
                      IN BestMoney(KeyOf(SellLeg(o)), "sell", size) * (Unit - SellLeg(o).fee)
                           > BestMoney(KeyOf(BuyLeg(o)), "buy", size) * (Unit + BuyLeg(o).fee)
    BY DEF VerifiedTradesProfit
  <2>1. BooksInv /\ IsOffer(o)
    BY DEF PricingInv, OfferInv
  <2>2. (CHOOSE i \in BuyIndices(o) : TRUE) = Buyer(o)
    BY <2>1, LegsAre DEF IsOffer
  <2> HIDE DEF o
  <2> QED
    BY <2>1, <2>2, VerifiedTrade
<1> QED
  BY <1>1, PricingInvariant, PTL

-------------------------------------------------------------------------------
\* What survives.

\* Once around a route of two legs, whichever comes first.
LEMMA HoldingOf ==
  ASSUME NEW o, NEW first, NEW second, o.legs = <<first, second>>
  PROVE  Holding(o) = Convert(Convert([num |-> 1, den |-> 1], first), second)
<1> DEFINE base == [num |-> 1, den |-> 1]
           two == 2
<1>1. two \in Nat /\ DOMAIN o.legs = 1..two
  OBVIOUS
<1> HIDE DEF two
<1>2. PICK acc : /\ acc[0] = base
                 /\ \A i \in 1..two : acc[i] = Convert(acc[i - 1], o.legs[i])
                 /\ FoldLeft(Convert, base, o.legs) = acc[two]
  <2>1. FoldLeft(Convert, base, o.legs) = Converting!Folded(base, o.legs)
    BY DEF Converting!Folded, FoldLeft, MapThenFoldSet, Max
  <2> DEFINE legs == o.legs
  <2> HIDE DEF base, legs
  <2>2. Converting!FoldsTo(base, legs, two)
    BY <1>1, Converting!Folding DEF legs
  <2> QED
    BY <2>1, <2>2 DEF Converting!FoldsTo, legs
<1>3. 1 \in 1..two /\ 2 \in 1..two /\ 1 - 1 = 0 /\ 2 - 1 = 1 /\ two = 2
  BY DEF two
<1>4. acc[1] = Convert(acc[0], o.legs[1]) /\ acc[2] = Convert(acc[1], o.legs[2])
  BY <1>2, <1>3
<1> QED
  BY <1>2, <1>3, <1>4 DEF Holding

LEMMA ProductsAreBounded ==
  ASSUME NEW u \in Int, NEW v \in Int, NEW y \in Int, NEW z \in Int,
         -u <= y, y <= u, -v <= z, z <= v
  PROVE  -(u * v) <= y * z /\ y * z <= u * v
<1>1. \A m, n \in Int : m >= 0 /\ n >= 0 => m * n >= 0
  OBVIOUS
<1>2. (u - y) * (v - z) >= 0 /\ (u + y) * (v + z) >= 0
  BY <1>1
<1>3. (u - y) * (v + z) >= 0 /\ (u + y) * (v - z) >= 0
  BY <1>1
<1>4. (u - y) * (v - z) + (u + y) * (v + z) = 2 * (u * v) + 2 * (y * z)
  OBVIOUS
<1>5. (u - y) * (v + z) + (u + y) * (v - z) = 2 * (u * v) - 2 * (y * z)
  OBVIOUS
<1> DEFINE p == u * v
           q == y * z
           k == (u - y) * (v - z)
           l == (u + y) * (v + z)
           m == (u - y) * (v + z)
           n == (u + y) * (v - z)
<1>6. p \in Int /\ q \in Int /\ k \in Int /\ l \in Int /\ m \in Int /\ n \in Int
  OBVIOUS
<1>7. k >= 0 /\ l >= 0 /\ m >= 0 /\ n >= 0 /\ k + l = 2 * p + 2 * q /\ m + n = 2 * p - 2 * q
  BY <1>2, <1>3, <1>4, <1>5
<1> HIDE DEF p, q, k, l, m, n
<1>8. -p <= q /\ q <= p
  BY <1>6, <1>7
<1> QED
  BY <1>8 DEF p, q

\* Small fees take less than half of an edge that covers them and x.
LEMMA HalfIsLeft ==
  ASSUME NEW U \in Nat \ {0}, NEW x \in Nat, NEW f \in Int, NEW g \in Int,
         -U <= 16 * f, 16 * f <= U, -U <= 16 * g, 16 * g <= U,
         12 * f * f <= x * U, 12 * g * g <= x * U
  PROVE  2 * ((U + x + f + g) * ((U - f) * (U - g))) >= 2 * (U * U * U) + x * U * U
<1> DEFINE P == x * U
           F == f + g
           A == f * f
           B == g * g
           G == f * g
           Q == A + B + G
           W == P * U
<1>1. /\ P \in Nat /\ F \in Int /\ A \in Int /\ B \in Int /\ G \in Int /\ Q \in Int
      /\ W \in Nat
  OBVIOUS
<1>2. -U <= 8 * F /\ 8 * F <= U
  OBVIOUS
<1>3. 12 * A <= P /\ 12 * B <= P
  BY <1>1
<1>4. 2 * G <= A + B /\ -(2 * G) <= A + B
  <2>1. \A m \in Int : m * m >= 0
    OBVIOUS
  <2>2. (f - g) * (f - g) >= 0 /\ (f + g) * (f + g) >= 0
    BY <2>1
  <2>3. (f - g) * (f - g) = A + B - 2 * G /\ (f + g) * (f + g) = A + B + 2 * G
    OBVIOUS
  <2> HIDE DEF A, B, G
  <2> QED
    BY <1>1, <2>2, <2>3
<1>5. /\ 8 * (P * F) <= W
      /\ -W <= 256 * (x * G)
      /\ 4 * (Q * U) <= W
      /\ -W <= 96 * (F * G)
  <2>1. 8 * (P * F) <= W
    <3>1. P * (8 * F) <= P * U /\ P * (8 * F) = 8 * (P * F)
      <4> HIDE DEF P, F
      <4> QED
        BY <1>1, <1>2, Products
    <3> QED
      BY <3>1
  <2>2. -W <= 256 * (x * G)
    <3>1. -(U * U) <= (16 * f) * (16 * g)
      BY ProductsAreBounded
    <3>2. (16 * f) * (16 * g) = 256 * G
      OBVIOUS
    <3> DEFINE V == U * U
    <3>3. V \in Int /\ x * V = W
      OBVIOUS
    <3> HIDE DEF G, V, W
    <3>4. x * (-V) <= x * (256 * G)
      <4>1. -V \in Int /\ 256 * G \in Int /\ -V <= 256 * G
        BY <1>1, <3>1, <3>2, <3>3 DEF V
      <4> QED
        BY <4>1, Products
    <3>5. x * (-V) = -(x * V) /\ x * (256 * G) = 256 * (x * G)
      BY <1>1, <3>3
    <3> QED
      BY <3>3, <3>4, <3>5
  <2>3. 4 * Q <= P
    <3> HIDE DEF A, B, G, P
    <3> QED
      BY <1>1, <1>3, <1>4
  <2>4. 4 * (Q * U) <= W
    <3> HIDE DEF Q, P
    <3>1. U * (4 * Q) <= U * P
      BY <1>1, <2>3, Products
    <3>2. U * (4 * Q) = 4 * (Q * U) /\ U * P = P * U
      BY <1>1
    <3> QED
      BY <3>1, <3>2
  <2>5. -P <= 12 * G /\ 12 * G <= P
    <3> HIDE DEF A, B, G, P
    <3> QED
      BY <1>1, <1>3, <1>4
  <2>6. -W <= 96 * (F * G)
    <3> HIDE DEF F, G, P
    <3>1. -(U * P) <= (8 * F) * (12 * G)
      <4> DEFINE y == 8 * F
                 z == 12 * G
      <4>1. y \in Int /\ z \in Int /\ P \in Int
        BY <1>1
      <4>2. -U <= y /\ y <= U /\ -P <= z /\ z <= P
        BY <1>2, <2>5
      <4> HIDE DEF y, z
      <4>3. -(U * P) <= y * z
        BY <4>1, <4>2, ProductsAreBounded
      <4> QED
        BY <4>3 DEF y, z
    <3>2. (8 * F) * (12 * G) = 96 * (F * G) /\ U * P = P * U
      BY <1>1
    <3> QED
      BY <3>1, <3>2
  <2> QED
    BY <2>1, <2>2, <2>4, <2>6
<1>6. (U + x + f + g) * ((U - f) * (U - g))
        = U * U * U + W - P * F + x * G - Q * U + F * G
  OBVIOUS
<1> DEFINE a == P * F
           b == x * G
           c == Q * U
           d == F * G
           e == U * U * U
           all == (U + x + f + g) * ((U - f) * (U - g))
<1>7. a \in Int /\ b \in Int /\ c \in Int /\ d \in Int /\ e \in Int /\ x * U * U = W
  OBVIOUS
<1>8. 8 * a <= W /\ -W <= 256 * b /\ 4 * c <= W /\ -W <= 96 * d
  BY <1>5
<1>9. all = e + W - a + b - c + d
  BY <1>6
<1> HIDE DEF P, F, G, Q, W, a, b, c, d, e, all
<1>10. 2 * all >= 2 * e + W
  BY <1>1, <1>7, <1>8, <1>9
<1> QED
  BY <1>7, <1>10 DEF e, all


\* What is left of an edge that covers x and the fees, after the fees: a - the
\* price bought at - and b are prices, and k what the fees leave.
LEMMA EdgeIsLeft ==
  ASSUME NEW U \in Nat \ {0}, NEW x \in Nat, NEW pct \in Int, pct <= x,
         NEW f \in Int, NEW g \in Int, NEW a \in Nat, NEW b \in Nat,
         -U <= 16 * f, 16 * f <= U, -U <= 16 * g, 16 * g <= U,
         12 * f * f <= x * U, 12 * g * g <= x * U,
         (b - a) * U >= (x + f + g) * a
  PROVE  2 * (b * ((U - f) * (U - g)) - a * (U * U)) * U >= pct * (a * (U * U))
<1> DEFINE k == (U - f) * (U - g)
           e == U + x + f + g
           whole == 2 * (U * U * U) + x * U * U
<1>1. U - f \in Nat /\ U - g \in Nat /\ e \in Int
  OBVIOUS
<1>2. k \in Nat
  <2> DEFINE y == U - f
             z == U - g
  <2>1. y \in Nat /\ z \in Nat
    BY <1>1
  <2> HIDE DEF y, z
  <2>2. y * z \in Nat
    BY <2>1
  <2> QED
    BY <2>2 DEF y, z
<1>3. 2 * (e * k) >= whole /\ whole \in Int
  <2>1. 2 * (e * k) >= whole
    BY HalfIsLeft
  <2>2. whole \in Int
    OBVIOUS
  <2> QED
    BY <2>1, <2>2
<1>4. e * a <= b * U
  <2>1. (b - a) * U = b * U - a * U /\ e * a = a * U + (x + f + g) * a
    OBVIOUS
  <2>2. b * U \in Int /\ a * U \in Int /\ (x + f + g) * a \in Int
    OBVIOUS
  <2> HIDE DEF e
  <2> QED
    BY <2>1, <2>2
<1> HIDE DEF k, e, whole
<1>5. a * whole <= 2 * ((b * U) * k)
  <2>1. e * a \in Int /\ b * U \in Int /\ 2 * (e * k) \in Int
    BY <1>1, <1>2
  <2>2. k * (e * a) <= k * (b * U)
    BY <1>2, <1>4, <2>1, Products
  <2>3. a * whole <= a * (2 * (e * k))
    BY <1>3, <2>1, Products
  <2>4. a * (2 * (e * k)) = 2 * (k * (e * a)) /\ k * (b * U) = (b * U) * k
    BY <1>1, <1>2
  <2>5. a * whole \in Int /\ k * (e * a) \in Int /\ k * (b * U) \in Int
    BY <1>1, <1>2, <1>3
  <2> QED
    BY <2>2, <2>3, <2>4, <2>5
<1>6. a * whole = 2 * (a * (U * U)) * U + x * (a * (U * U))
  BY DEF whole
<1> DEFINE v == a * (U * U)
           w == b * k
<1>7. v \in Nat /\ w \in Nat
  BY <1>2
<1>8. (b * U) * k = w * U
  BY <1>2
<1>9. a * whole = 2 * v * U + x * v
  BY <1>6
<1> HIDE DEF v, w
<1>10. pct * v <= x * v
  <2>1. v * pct <= v * x /\ v * pct = pct * v /\ v * x = x * v
    BY <1>7, Products
  <2> QED
    BY <2>1
<1>11. 2 * (w - v) * U = 2 * (w * U) - 2 * v * U
  BY <1>7
<1>12. w * U \in Int /\ v * U \in Int /\ x * v \in Int /\ pct * v \in Int /\ 2 * v * U = 2 * (v * U)
  BY <1>7
<1>13. 2 * (w - v) * U >= pct * v
  BY <1>5, <1>8, <1>9, <1>10, <1>11, <1>12
<1> QED
  BY <1>13 DEF v, w, k

\* So small are the fees.
LEMMA FeesFit ==
  ASSUME NEW f \in Fees, NEW least \in Thresholds, NEW x \in Int, least <= x
  PROVE  /\ x \in Nat /\ 12 * f * f <= x * Unit
         /\ f \in Int /\ Unit \in Nat \ {0} /\ -Unit <= 16 * f /\ 16 * f <= Unit
<1>1. f \in Int /\ Unit \in Nat \ {0} /\ least \in Int
  BY ConstantsOfTrades, ScansConstantsAreTyped DEF Thresholds
<1>2. 12 * f * f <= least * Unit
  BY FeesAreSmall
<1>3. -Unit <= 16 * f /\ 16 * f <= Unit
  BY <1>1, FeesAreSmall DEF Abs
<1>4. f * f >= 0 /\ f * f \in Int /\ 12 * f * f = 12 * (f * f)
  BY <1>1
<1>5. least * Unit \in Int /\ x * Unit \in Int
  BY <1>1
<1>6. least \in Nat
  <2>1. least * Unit >= 0
    BY <1>2, <1>4, <1>5
  <2> QED
    BY <1>1, <2>1
<1>7. least * Unit <= x * Unit
  <2>1. Unit * least <= Unit * x /\ Unit * least = least * Unit /\ Unit * x = x * Unit
    BY <1>1, Products
  <2> QED
    BY <2>1
<1> QED
  BY <1>1, <1>2, <1>3, <1>4, <1>5, <1>6, <1>7

LEMMA HoldingIs ==
  ASSUME NEW o, TwoLegs(o), NEW U \in Nat, U = Unit,
         NEW a \in Nat, BestAsk(KeyOf(BuyLeg(o))).price = a,
         NEW b \in Nat, BestBid(KeyOf(SellLeg(o))).price = b,
         NEW f \in Int, BuyLeg(o).fee = f, NEW g \in Int, SellLeg(o).fee = g
  PROVE  /\ Holding(o).num = b * ((U - f) * (U - g))
         /\ Holding(o).den = a * (U * U)
<1> DEFINE first == o.legs[1]
           second == o.legs[2]
           buy == BuyLeg(o)
           sell == SellLeg(o)
           one == [num |-> 1, den |-> 1]
<1>1. o.legs = <<first, second>>
  BY DEF TwoLegs
<1>2. Holding(o) = Convert(Convert(one, first), second)
  <2> HIDE DEF first, second
  <2> QED
    BY <1>1, HoldingOf
<1>3. \/ first = buy /\ second = sell
      \/ first = sell /\ second = buy
  BY LegsAre DEF Buyer, Seller
<1>4. buy.side = "buy" /\ sell.side = "sell"
  BY LegsAre
<1> HIDE DEF first, second, buy, sell
<1>5. ASSUME NEW h
      PROVE  /\ Convert(h, buy).num = h.num * (U - f)
             /\ Convert(h, buy).den = h.den * a * U
             /\ Convert(h, sell).num = h.num * b * (U - g)
             /\ Convert(h, sell).den = h.den * U
  BY <1>4 DEF Convert, buy, sell
<1>6. CASE first = buy /\ second = sell
  <2>1. Holding(o).num = (1 * (U - f)) * b * (U - g) /\ Holding(o).den = (1 * a * U) * U
    BY <1>2, <1>5, <1>6
  <2> QED
    BY <2>1
<1>7. CASE first = sell /\ second = buy
  <2>1. Holding(o).num = (1 * b * (U - g)) * (U - f) /\ Holding(o).den = (1 * U) * a * U
    BY <1>2, <1>5, <1>7
  <2> QED
    BY <2>1
<1> QED
  BY <1>3, <1>6, <1>7

\* A spread that has not moved between its detection and the decay check has not
\* decayed (_check_after_delay, _rescan_net_profit_pct): what the check compounds
\* - both prices, both fees taken off - is at least half of the edge that was
\* found by adding them up.
THEOREM SpreadsSurvive == PricingSpec => []UnmovedSpreadsSurvive
<1>1. PricingInv => UnmovedSpreadsSurvive
  <2> DEFINE o == opportunity
             i == KeyOf(BuyLeg(o))
             j == KeyOf(SellLeg(o))
             a == BuyLeg(o).price
             b == SellLeg(o).price
             f == BuyLeg(o).fee
             g == SellLeg(o).fee
             pct == o.net_profit_pct
             U == Unit
  <2> SUFFICES ASSUME PricingInv, o # None, AsMeasured(o), Known(j),
                      books[i].asks # <<>>, BestAsk(i).price = a,
                      books[j].bids # <<>>, BestBid(j).price = b
               PROVE  Survived(o)
    BY DEF UnmovedSpreadsSurvive
  <2>1. /\ IsOffer(o)
        /\ o.strategy = "wrapped_asset" \/ Known(i)
        /\ HasEdge(o) \/ (o.strategy = "wrapped_asset" /\ o.legs[1].side # "sell")
    BY DEF PricingInv, OfferInv
  <2>2. Known(i) /\ HasEdge(o)
    BY <2>1 DEF AsMeasured
  <2>3. /\ TwoLegs(o) /\ a \in Nat /\ b \in Nat /\ f \in Fees /\ g \in Fees /\ pct \in Int
    BY <2>1 DEF IsOffer
  <2>4. PICK x \in Int, least \in Thresholds :
          /\ pct <= x /\ least <= x
          /\ (b - a) * U >= (x + f + g) * a
    BY <2>2 DEF HasEdge
  <2>5. /\ U \in Nat \ {0} /\ f \in Int /\ g \in Int /\ x \in Nat
        /\ 12 * f * f <= x * U /\ 12 * g * g <= x * U
        /\ -U <= 16 * f /\ 16 * f <= U /\ -U <= 16 * g /\ 16 * g <= U
    <3> HIDE DEF f, g
    <3> QED
      BY <2>3, <2>4, FeesFit
  <2>6. Holding(o).num = b * ((U - f) * (U - g)) /\ Holding(o).den = a * (U * U)
    <3>1. U \in Nat /\ f \in Int /\ g \in Int
      BY <2>5
    <3>2. BestAsk(i).price = a /\ BestBid(j).price = b /\ U = Unit
      OBVIOUS
    <3>3. TwoLegs(o) /\ a \in Nat /\ b \in Nat
      BY <2>3
    <3> QED
      BY <3>1, <3>2, <3>3, HoldingIs
  <2>7. Repriceable(o)
    <3>1. /\ LegIndices(o) = {Buyer(o), Seller(o)}
          /\ o.legs[Buyer(o)] = BuyLeg(o) /\ o.legs[Seller(o)] = SellLeg(o)
          /\ BuyLeg(o).side = "buy" /\ SellLeg(o).side = "sell"
      BY <2>3, LegsAre
    <3>2. Side(i, "buy") = books[i].asks /\ Side(j, "sell") = books[j].bids
      BY DEF Side
    <3> QED
      BY <2>2, <3>1, <3>2 DEF Repriceable
  <2> HIDE DEF o, a, b, f, g, pct, U
  <2>8. 2 * (b * ((U - f) * (U - g)) - a * (U * U)) * U >= pct * (a * (U * U))
    BY <2>3, <2>4, <2>5, EdgeIsLeft
  <2> QED
    BY <2>6, <2>7, <2>8 DEF Survived, pct, U
<1> QED
  BY <1>1, PricingInvariant, PTL

-------------------------------------------------------------------------------
\* What is offered.

\* What OffersAreReal says of an offer.
Real(o) ==
  LET buy == BuyLeg(o)
      sell == SellLeg(o)
      i == KeyOf(buy)
      j == KeyOf(sell)
  IN /\ i # j /\ Fresh(i) /\ Fresh(j)
     /\ books[i].asks # <<>> /\ books[j].bids # <<>>
     /\ \A l \in ToSet(books[i].asks) : buy.price <= l.price
     /\ \A l \in ToSet(books[j].bids) : sell.price >= l.price
     /\ buy.size = sell.size /\ buy.size <= Smallest(i, j)
     /\ buy.size * buy.price >= MinOrderUsd[i[1]]
     /\ buy.size * buy.price >= MinOrderUsd[j[1]]
     /\ (sell.price - buy.price) * Unit >= (Bar(o) + buy.fee + sell.fee) * buy.price

LEMMA MinimumsOf ==
  ASSUME NEW o, TwoLegs(o)
  PROVE  /\ \A usd : ClearsVenueMinimums(o, usd)
                       <=> /\ usd >= MinOrderUsd[KeyOf(BuyLeg(o))[1]]
                           /\ usd >= MinOrderUsd[KeyOf(SellLeg(o))[1]]
         /\ IsFillable(o) <=> ClearsVenueMinimums(o, o.max_size_usd)
<1>1. /\ LegIndices(o) = {Buyer(o), Seller(o)}
      /\ BuyLeg(o) = o.legs[Buyer(o)] /\ SellLeg(o) = o.legs[Seller(o)]
  BY LegsAre
<1>2. /\ KeyOf(BuyLeg(o))[1] = o.legs[Buyer(o)].venue_id
      /\ KeyOf(SellLeg(o))[1] = o.legs[Seller(o)].venue_id
  BY <1>1 DEF KeyOf
<1>3. o.legs # <<>>
  BY DEF TwoLegs
<1> QED
  BY <1>1, <1>2, <1>3 DEF ClearsVenueMinimums, IsFillable

\* An edge in percent that clears a threshold covers it in money.
LEMMA EdgeInMoney ==
  ASSUME NEW bid \in Level, NEW ask \in Level, NEW least \in Int,
         NEW f \in Int, NEW g \in Int, least + f + g <= Gross(bid, ask)
  PROVE  (bid.price - ask.price) * Unit >= (least + f + g) * ask.price
<1> DEFINE e == least + f + g
           p == ask.price
           d == (bid.price - p) * Unit
           gross == Gross(bid, ask)
<1>1. p \in Nat /\ bid.price - p \in Int /\ Unit \in Int
  BY LevelFields, ConstantsOfTrades
<1>2. d \in Int /\ e \in Int
  BY <1>1, Products
<1>3. gross \in Int /\ gross * p <= d
  BY GrossIs
<1>4. e <= gross
  OBVIOUS
<1> HIDE DEF e, p, d, gross
<1>5. e * p <= gross * p /\ e * p \in Int /\ gross * p \in Int
  <2>1. p * e <= p * gross /\ p * e = e * p /\ p * gross = gross * p
    BY <1>1, <1>2, <1>3, <1>4, Products
  <2> QED
    BY <1>1, <1>2, <1>3, <2>1, Products
<1>6. d >= e * p
  BY <1>2, <1>3, <1>5
<1> QED
  BY <1>6 DEF e, p, d

LEMMA RealPair ==
  ASSUME BooksInv, NEW o, PairOffer(o), Worth(o)
  PROVE  Real(o)
<1>1. PICK strategy \in PairStrategies, i \in Listed, j \in Listed, f \in Fees, g \in Fees :
        /\ o = RoundTrip(strategy, i, j, f, g)
        /\ i # j /\ Fresh(i) /\ Fresh(j)
        /\ books[i].asks # <<>> /\ books[j].bids # <<>>
        /\ o.net_profit_pct >= MinProfit[strategy]
  BY DEF PairOffer
<1> DEFINE bid == BestBid(j)
           ask == BestAsk(i)
           buy == BuyLeg(o)
           sell == SellLeg(o)
           least == MinProfit[strategy]
<1>2. /\ IsOffer(o) /\ o.strategy = strategy /\ KeyOf(buy) = i /\ KeyOf(sell) = j
      /\ buy = LegOn(i, "buy", ask.price, buy.size, f)
      /\ sell = LegOn(j, "sell", bid.price, buy.size, g)
      /\ buy.size * buy.price = o.max_size_usd
      /\ buy.size <= Smallest(i, j)
      /\ o.net_profit_pct = Gross(bid, ask) - f - g
  BY <1>1, RoundTripIs DEF Fresh
<1>3. /\ buy.price = ask.price /\ buy.fee = f
      /\ sell.price = bid.price /\ sell.fee = g /\ sell.size = buy.size
  BY <1>2 DEF LegOn
<1>4. /\ ask \in Level /\ bid \in Level /\ Gross(bid, ask) \in Int
      /\ \A l \in ToSet(books[i].asks) : ask.price <= l.price
      /\ \A l \in ToSet(books[j].bids) : bid.price >= l.price
  BY <1>1, BestAskIs, BestBidIs, GrossIs DEF Fresh
<1>5. /\ f \in Int /\ g \in Int /\ strategy # "wrapped_asset" /\ least \in Int
  <2>1. strategy \in Strategies
    BY ConstantsOfTrades
  <2> QED
    BY <2>1, ConstantsOfTrades, ScansConstantsAreTyped
<1> HIDE DEF bid, ask, least, buy, sell
<1>6. least + f + g <= Gross(bid, ask)
  BY <1>1, <1>2, <1>4, <1>5 DEF least
<1>7. (bid.price - ask.price) * Unit >= (least + f + g) * ask.price
  BY <1>4, <1>5, <1>6, EdgeInMoney
<1>8. Bar(o) = least
  BY <1>2, <1>5 DEF Bar, least
<1>9. o.max_size_usd >= MinOrderUsd[i[1]] /\ o.max_size_usd >= MinOrderUsd[j[1]]
  BY <1>2, MinimumsOf DEF Worth, IsOffer, buy, sell
<1> QED
  BY <1>1, <1>2, <1>3, <1>4, <1>7, <1>8, <1>9 DEF Real, buy, sell

\* What was measured on the book it would trade with is as real.
LEMMA RealWrapped ==
  ASSUME BooksInv, NEW o, WrappedOffer(o), Worth(o), AsMeasured(o)
  PROVE  Real(o)
<1>1. PICK k \in Listed, j \in Listed :
        /\ o = WrappedTrade(k, j)
        /\ k[2] \in DOMAIN Underlying /\ j = UnderlyingBook(k) /\ j # None
        /\ Fresh(k) /\ Fresh(j)
        /\ books[k].bids # <<>> /\ books[j].asks # <<>>
        /\ o.net_profit_pct >= 0
  BY DEF WrappedOffer
<1> DEFINE bid == BestBid(k)
           ask == BestAsk(j)
           buy == BuyLeg(o)
           sell == SellLeg(o)
           band == Band[k[2]]
           f == TakerFee(k[1])
           here == <<k[1], Underlying[k[2]], k[3]>>
<1>2. /\ IsOffer(o) /\ o.strategy = "wrapped_asset"
      /\ o.net_profit_pct = Abs(Gross(bid, ask)) - band - 2 * f
      /\ o.legs[1].side = "sell" =>
           /\ Gross(bid, ask) > 0
           /\ sell = LegOn(k, "sell", bid.price, buy.size, f)
           /\ buy = LegOn(<<k[1], j[2], j[3]>>, "buy", ask.price, buy.size, f)
           /\ buy.size * buy.price = o.max_size_usd
           /\ buy.size <= Smaller(ask.size, bid.size)
  BY <1>1, WrappedTradeIs DEF Fresh
<1>3. o.legs[1].side = "sell" /\ Known(KeyOf(buy))
  BY <1>2 DEF AsMeasured
<1>4. j[2] = here[2] /\ j[3] = here[3] /\ (Known(here) => j = here)
  <2>1. CASE Known(here)
    <3>1. j = here
      BY <1>1, <2>1 DEF UnderlyingBook
    <3> QED
      BY <3>1
  <2>2. CASE ~Known(here)
    <3> DEFINE known == {l \in Listed : Known(l) /\ l[2] = here[2] /\ l[3] = here[3]}
    <3>1. j = IF known = {} THEN None ELSE CHOOSE l \in known : TRUE
      BY <1>1, <2>2 DEF UnderlyingBook
    <3>2. j \in known
      <4> HIDE DEF known
      <4> QED
        BY <1>1, <3>1
    <3> QED
      BY <2>2, <3>2
  <2> QED
    BY <2>1, <2>2
<1>5. k = <<k[1], k[2], k[3]>>
  BY ConstantsOfTrades
<1>6. /\ buy.price = ask.price /\ buy.fee = f /\ KeyOf(buy) = <<k[1], j[2], j[3]>>
      /\ sell.price = bid.price /\ sell.fee = f /\ sell.size = buy.size
      /\ KeyOf(sell) = k /\ sell.base = k[2]
  <2> HIDE DEF buy, sell, bid, ask, f
  <2>1. /\ sell = LegOn(k, "sell", bid.price, buy.size, f)
        /\ buy = LegOn(<<k[1], j[2], j[3]>>, "buy", ask.price, buy.size, f)
    BY <1>2, <1>3
  <2>2. /\ sell.price = bid.price /\ sell.fee = f /\ sell.size = buy.size
        /\ KeyOf(sell) = k /\ sell.base = k[2]
    BY <1>5, <2>1 DEF LegOn, KeyOf
  <2>3. buy.price = ask.price /\ buy.fee = f /\ KeyOf(buy) = <<k[1], j[2], j[3]>>
    BY <2>1 DEF LegOn, KeyOf
  <2> QED
    BY <2>2, <2>3
<1>7. KeyOf(buy) = j /\ j # k
  <2>1. KeyOf(buy) = here
    BY <1>4, <1>6
  <2>2. j = here
    BY <1>3, <1>4, <2>1
  <2>3. Underlying[k[2]] # k[2]
    BY <1>1, ScansConstantsAreTyped
  <2> QED
    BY <2>1, <2>2, <2>3
<1>8. /\ ask \in Level /\ bid \in Level /\ Gross(bid, ask) \in Int
      /\ \A l \in ToSet(books[j].asks) : ask.price <= l.price
      /\ \A l \in ToSet(books[k].bids) : bid.price >= l.price
  BY <1>1, BestAskIs, BestBidIs, GrossIs DEF Fresh
<1>9. f \in Int /\ band \in Nat
  BY <1>1, ConstantsOfTrades, ScansConstantsAreTyped
<1> HIDE DEF bid, ask, band, buy, sell, f
<1>10. band + f + f <= Gross(bid, ask)
  BY <1>1, <1>2, <1>3, <1>8, <1>9 DEF Abs
<1>11. (bid.price - ask.price) * Unit >= (band + f + f) * ask.price
  BY <1>8, <1>9, <1>10, EdgeInMoney
<1>12. Bar(o) = band
  BY <1>2, <1>6 DEF Bar, band, sell
<1>13. o.max_size_usd >= MinOrderUsd[j[1]] /\ o.max_size_usd >= MinOrderUsd[k[1]]
  BY <1>2, <1>6, <1>7, MinimumsOf DEF Worth, IsOffer, buy, sell
<1>14. buy.size <= Smallest(j, k) /\ buy.size * buy.price = o.max_size_usd
  BY <1>2, <1>3 DEF Smallest, bid, ask
<1> QED
  BY <1>1, <1>6, <1>7, <1>8, <1>11, <1>12, <1>13, <1>14 DEF Real, buy, sell

\* A taker trade between two venues of which the scan, the filters and the
\* venues leave nothing to be desired.
Wanted(i, j) ==
  /\ i[1] # j[1] /\ i[2] = j[2] /\ i[3] = j[3]
  /\ Fresh(i) /\ Fresh(j) /\ TwoSided(i) /\ TwoSided(j)
  /\ <<i[1], i[2]>> \notin WithdrawBlocked /\ <<j[1], j[2]>> \notin DepositBlocked
  /\ EdgeCovers(i, j, MinProfit["cross_exchange"])
  /\ \A v \in {i[1], j[1]} : Smallest(i, j) * BestAsk(i).price >= MinOrderUsd[v]

LEMMA WantedIsFound ==
  ASSUME BooksInv, NEW i \in Listed, NEW j \in Listed, Wanted(i, j)
  PROVE  LET o == Takers("cross_exchange", i, j)
         IN /\ o \in Findings /\ Worth(o) /\ IsOffer(o)
            /\ KeyOf(BuyLeg(o)) = i /\ KeyOf(SellLeg(o)) = j
<1> DEFINE o == Takers("cross_exchange", i, j)
           bid == BestBid(j)
           ask == BestAsk(i)
           f == TakerFee(i[1])
           g == TakerFee(j[1])
           least == MinProfit["cross_exchange"]
           strategy == "cross_exchange"
<1>1. /\ Known(i) /\ Known(j) /\ books[i].asks # <<>> /\ books[j].bids # <<>>
      /\ Rows(i, j)
  BY DEF Wanted, Fresh, TwoSided, Rows
<1>2. /\ strategy \in PairStrategies /\ least \in Int
      /\ f \in Fees /\ g \in Fees /\ f \in Int /\ g \in Int
  <2>1. strategy \in PairStrategies
    BY DEF PairStrategies
  <2>2. strategy \in Strategies
    BY <2>1, ConstantsOfTrades
  <2> QED
    BY <2>1, <2>2, ConstantsOfTrades, ScansConstantsAreTyped
<1>3. o = RoundTrip(strategy, i, j, f, g)
  BY DEF Takers
<1> HIDE DEF o, f, g, strategy
<1>4. /\ IsOffer(o) /\ KeyOf(BuyLeg(o)) = i /\ KeyOf(SellLeg(o)) = j
      /\ o.max_size_usd = Usd(bid, ask)
      /\ o.net_profit_pct = Gross(bid, ask) - f - g
  BY <1>1, <1>2, <1>3, RoundTripIs
<1>5. ask \in Level /\ bid \in Level /\ MaxTradeUsd % ask.price = 0
  BY <1>1, BestAskIs, BestBidIs
<1>6. Usd(bid, ask) > 0 /\ Usd(bid, ask) \in Nat
  BY <1>5, UsdIs
<1>7. o.net_profit_pct >= least
  <2> DEFINE e == least + f + g
  <2>1. e * ask.price <= (bid.price - ask.price) * Unit
    <3>1. (bid.price - ask.price) * Unit >= e * ask.price
      BY DEF Wanted, EdgeCovers, f, g
    <3>2. (bid.price - ask.price) * Unit \in Int /\ e * ask.price \in Int
      <4>1. ask.price \in Int /\ bid.price - ask.price \in Int /\ Unit \in Int /\ e \in Int
        BY <1>2, <1>5, LevelFields, ConstantsOfTrades
      <4> HIDE DEF e, bid, ask
      <4> QED
        BY <4>1, Products
    <3> HIDE DEF e, bid, ask
    <3> QED
      BY <3>1, <3>2
  <2>2. e \in Int
    BY <1>2
  <2> HIDE DEF e, bid, ask
  <2>3. e <= Gross(bid, ask) /\ Gross(bid, ask) \in Int
    BY <1>5, <2>1, <2>2, GrossIs
  <2> HIDE DEF least
  <2> QED
    BY <1>2, <1>4, <2>3 DEF e
<1>8. o \in Findings
  <2>1. <<i, j>> \in Pairs
    BY <1>1 DEF Pairs
  <2>2. o \in {Takers("cross_exchange", p[1], p[2]) : p \in Pairs}
    BY <2>1 DEF o
  <2> QED
    BY <1>4, <1>6, <1>7, <2>2 DEF CrossExchange, Findings
<1>9. IsFillable(o)
  <2> DEFINE all == Smallest(i, j) * ask.price
             usd == Usd(bid, ask)
  <2>1. usd = Smaller(all, MaxTradeUsd)
    BY DEF Usd, Smallest
  <2>2. all >= MinOrderUsd[i[1]] /\ all >= MinOrderUsd[j[1]]
    BY DEF Wanted
  <2>3. i[1] \in Venues /\ j[1] \in Venues
    BY ConstantsOfTrades
  <2> HIDE DEF all, usd
  <2>4. usd >= MinOrderUsd[i[1]] /\ usd >= MinOrderUsd[j[1]]
    <3>1. MaxTradeUsd >= MinOrderUsd[i[1]] /\ MaxTradeUsd >= MinOrderUsd[j[1]]
      <4>1. /\ MinOrderUsd[i[1]] <= MaxTradeUsd /\ MinOrderUsd[j[1]] <= MaxTradeUsd
        BY <2>3, TradesAreExact
      <4>2. /\ MinOrderUsd[i[1]] \in Nat /\ MinOrderUsd[j[1]] \in Nat
            /\ MaxTradeUsd \in Nat
        BY <2>3, ConstantsOfTrades, DetectionConstantsAreTyped
      <4> QED
        BY <4>1, <4>2
    <3> QED
      BY <2>1, <2>2, <3>1 DEF Smaller
  <2> QED
    BY <1>4, <2>4, MinimumsOf DEF IsOffer, usd
<1>10. IsRebalanceable(o)
  <2>1. /\ BuyIndices(o) = {Buyer(o)} /\ SellIndices(o) = {Seller(o)}
        /\ BuyLeg(o) = o.legs[Buyer(o)] /\ SellLeg(o) = o.legs[Seller(o)]
    BY <1>4, LegsAre DEF IsOffer
  <2>2. /\ o.legs[Buyer(o)].venue_id = i[1] /\ o.legs[Buyer(o)].base = i[2]
        /\ o.legs[Seller(o)].venue_id = j[1] /\ o.legs[Seller(o)].base = j[2]
    BY <1>4, <2>1 DEF KeyOf
  <2> QED
    BY <2>1, <2>2 DEF IsRebalanceable, Wanted
<1> QED
  BY <1>4, <1>8, <1>9, <1>10 DEF Worth, o

\* What a tick goes on with it can trade, and it misses no taker trade between
\* venues: whatever the books are, through the scans, is_fillable,
\* is_rebalanceable and dedupe_by_route.
THEOREM OffersStayReal == PricingSpec => []OffersAreReal
<1>1. PricingInv => OffersAreReal
  <2> SUFFICES ASSUME PricingInv
               PROVE  /\ \A o \in ToSet(Offers) : AsMeasured(o) => Real(o)
                      /\ \A i, j \in Listed : Wanted(i, j) =>
                           \E o \in ToSet(Offers) :
                             LegKeys(o) = {i, j} /\ BuyLeg(o).venue_id = i[1]
    BY DEF OffersAreReal, Real, Wanted
  <2>1. /\ BooksInv
        /\ \A o \in ToSet(Offers) : Worth(o) /\ (PairOffer(o) \/ WrappedOffer(o))
        /\ \A o \in Findings :
             Worth(o) => \E p \in ToSet(Offers) : RouteKey(p) = RouteKey(o)
    BY OffersAre DEF PricingInv
  <2>2. ASSUME NEW o \in ToSet(Offers), AsMeasured(o)
        PROVE  Real(o)
    BY <2>1, <2>2, RealPair, RealWrapped
  <2>3. ASSUME NEW i \in Listed, NEW j \in Listed, Wanted(i, j)
        PROVE  \E o \in ToSet(Offers) : LegKeys(o) = {i, j} /\ BuyLeg(o).venue_id = i[1]
    <3> DEFINE p == Takers("cross_exchange", i, j)
    <3>1. /\ p \in Findings /\ Worth(p) /\ IsOffer(p)
          /\ KeyOf(BuyLeg(p)) = i /\ KeyOf(SellLeg(p)) = j
      BY <2>1, <2>3, WantedIsFound
    <3> HIDE DEF p
    <3>2. PICK o \in ToSet(Offers) : RouteKey(o) = RouteKey(p)
      BY <2>1, <3>1
    <3>3. IsOffer(o)
      BY <2>1, PairOfferIs, WrappedOfferIs
    <3>4. /\ KeyOf(BuyLeg(o)) = i /\ KeyOf(SellLeg(o)) = j
          /\ BuyLeg(o).venue_id = BuyLeg(p).venue_id
      BY <3>1, <3>2, <3>3, SameRoute DEF IsOffer
    <3>5. LegKeys(o) = {i, j}
      BY <3>3, <3>4, LegsAre DEF IsOffer
    <3>6. BuyLeg(p).venue_id = i[1]
      BY <3>1 DEF KeyOf
    <3> QED
      BY <3>4, <3>5, <3>6
  <2> QED
    BY <2>2, <2>3
<1> QED
  BY <1>1, PricingInvariant, PTL

================================================================================

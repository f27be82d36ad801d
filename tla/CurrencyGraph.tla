----------------------------- MODULE CurrencyGraph -----------------------------
(***************************************************************************)
(* core/graph.py and the strategy that searches one venue's graph          *)
(* (strategies/triangular.py).                                             *)
(*                                                                         *)
(* A weight is the negative logarithm of what a conversion yields, so a    *)
(* price is given by its logarithm, in whole steps of some size, and a     *)
(* route's yield is a sum.  A graph is the sequence of its edges in the    *)
(* order they were added in, which is the order the search meets them in.  *)
(***************************************************************************)
EXTENDS Integers, Sequences, FiniteSets, SequencesExt

CONSTANTS
  HubAssets,      \* HUB_ASSETS
  MaxLength,      \* max_cycle_length
  MaxExpansions,  \* MAX_CYCLE_SEARCH_EXPANSIONS
  MinGain,        \* min_profit_pct, as a logarithm
  Fee             \* taker_fee_for the venue, as a logarithm

ASSUME GraphConstantsAreTyped ==
  /\ MaxLength \in Nat
  /\ MaxExpansions \in Nat
  /\ MinGain \in Nat
  /\ Fee \in Int

\* A market's best levels, and whether its book can be used: it is there, fresh
\* and has two sides.
Market(base, quote, bid, ask, usable) ==
  [base |-> base, quote |-> quote, bid |-> bid, ask |-> ask, usable |-> usable]

Edge(src, dst, symbol, side, weight) ==
  [src |-> src, dst |-> dst, symbol |-> symbol, side |-> side, weight |-> weight]

EdgesOf(m) ==
  IF ~m.usable THEN <<>>
  ELSE <<Edge(m.quote, m.base, <<m.base, m.quote>>, "buy", m.ask + Fee),
         Edge(m.base, m.quote, <<m.base, m.quote>>, "sell", Fee - m.bid)>>

BuildVenueGraph(markets) ==
  FoldLeft(LAMBDA graph, m : graph \o EdgesOf(m), <<>>, markets)

EdgesFrom(graph, asset) == SelectSeq(graph, LAMBDA e : e.src = asset)

Nodes(graph) == {graph[i].src : i \in DOMAIN graph} \cup {graph[i].dst : i \in DOMAIN graph}

Weight(path) == FoldLeft(LAMBDA w, e : w + e.weight, 0, path)

\* A path that returns to its start, over at least three edges.
Closes(start, path, edge) == edge.dst = start /\ Len(path) >= 2

Visited(start, path) == {start} \cup {path[i].dst : i \in DOMAIN path}

\* The search: what it found, how many edges it looked at, whether it gave up.
RECURSIVE Search(_, _, _, _, _)

\* From the end of path, over the edges that are left there.
Search(graph, start, path, edges, found) ==
  IF Len(path) >= MaxLength \/ edges = <<>> \/ found.truncated THEN found
  ELSE IF found.expansions >= MaxExpansions THEN [found EXCEPT !.truncated = TRUE]
  ELSE
    LET edge == Head(edges)
        longer == Append(path, edge)
        counted == [found EXCEPT !.expansions = @ + 1]
        next ==
          IF Closes(start, path, edge)
          THEN IF Weight(longer) < 0
               THEN [counted EXCEPT !.cycles = Append(@, longer)]
               ELSE counted
          ELSE IF edge.dst \in Visited(start, path) THEN counted
          ELSE Search(graph, start, longer, EdgesFrom(graph, edge.dst), counted)
    IN Search(graph, start, path, Tail(edges), next)

FindCycles(graph, start) ==
  Search(graph, start, <<>>, EdgesFrom(graph, start),
         [cycles |-> <<>>, expansions |-> 0, truncated |-> FALSE])

EdgeSet(cycle) == {<<cycle[i].symbol, cycle[i].side>> : i \in DOMAIN cycle}

\* Mutant: the same cycle from another hub is another opportunity.
KeepAll(kept, cycle) == Append(kept, cycle)

KeepNew(kept, cycle) ==
  IF \E i \in DOMAIN kept : EdgeSet(kept[i]) = EdgeSet(cycle) THEN kept
  ELSE Append(kept, cycle)

\* _scan_venue: from every hub, the cycles that gain enough, each once.  (The
\* sort by weight is left out: of rotations of one cycle it keeps any.)
TriangularScan(markets) ==
  LET graph == BuildVenueGraph(markets)
      hubs == SetToSeq(Nodes(graph) \cap HubAssets)
      cycles == FlattenSeq([i \in DOMAIN hubs |-> FindCycles(graph, hubs[i]).cycles])
  IN FoldLeft(KeepNew, <<>>, SelectSeq(cycles, LAMBDA c : -Weight(c) >= MinGain))
================================================================================

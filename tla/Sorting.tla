------------------------------- MODULE Sorting --------------------------------
(***************************************************************************)
(* Python's sorted: a set as the list of its elements, by their keys.      *)
(*                                                                         *)
(* (The sort of the community modules chooses among permutations.  An      *)
(* element's place as a number is the same, and can be reasoned about.)    *)
(***************************************************************************)
EXTENDS Integers, Sequences, FiniteSets

\* Keys are lists of numbers, compared from the first on.
Precedes(a, b) ==
  \E i \in DOMAIN a : a[i] < b[i] /\ \A j \in 1 .. i - 1 : a[j] = b[j]

\* sorted(S, key=rank), of different keys: each element's place is how many come
\* before it.
SortedBy(S, rank) ==
  [i \in 1 .. Cardinality(S) |->
     CHOOSE s \in S : Cardinality({t \in S : Precedes(rank[t], rank[s])}) = i - 1]
================================================================================

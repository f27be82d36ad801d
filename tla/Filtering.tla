------------------------------ MODULE Filtering --------------------------------
(***************************************************************************)
(* A tick whose strategies find any opportunities, in any order, and what  *)
(* main.py's filters and dedupe leave of them.                             *)
(***************************************************************************)
EXTENDS Detection

CONSTANT MaxFound   \* bound on the findings of a tick

ASSUME MaxFoundIsTyped == MaxFound \in Nat

VARIABLE found   \* opportunities: a tick's findings so far

FilterInit == found = <<>>

\* One more opportunity comes out of a strategy's scan.
Find(o) ==
  /\ Len(found) < MaxFound
  /\ found' = Append(found, o)

FilterNext == \E o \in Opportunities : Find(o)

FilterSpec == FilterInit /\ [][FilterNext]_found

-------------------------------------------------------------------------------

\* Whatever a tick finds, main goes on with the best of each physical trade
\* (is_fillable, is_rebalanceable and dedupe_by_route).
OneBestPerRoute == KeepsTheBest(found)
================================================================================

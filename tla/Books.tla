--------------------------------- MODULE Books ---------------------------------
(***************************************************************************)
(* core/book.py: an order book per venue and symbol, replaced by polls and *)
(* patched by diffs, and the price a market order of some size would get.  *)
(* A book that was never written is not in the store.                      *)
(***************************************************************************)
EXTENDS Trading, Sorting, SequencesExt

CONSTANTS
  Listed,     \* the books there can be: venue, base and quote
  Staleness   \* staleness_sec, in steps of Age

ASSUME BooksConstantsAreTyped ==
  /\ Listed \subseteq Venues \X Assets \X Assets
  /\ Staleness \in Nat

VARIABLE books   \* _books: bid and ask levels, best first, and age_sec

Level == [price : Nat \ {0}, size : Nat \ {0}]
Book == [bids : Seq(Level), asks : Seq(Level), age : 0 .. Staleness + 1]

ASSUME NoneIsNoBook == None \notin Book

BooksInit == books = [k \in Listed |-> None]

Known(k) == k \in Listed /\ books[k] # None

\* A side has one level of each price.
Cheapest(levels) == SortedBy(levels, [l \in levels |-> <<l.price>>])
Dearest(levels) == SortedBy(levels, [l \in levels |-> <<-l.price>>])

\* A new BookState, stamped with the time of its making.
State(bids, asks) == [bids |-> Dearest(bids), asks |-> Cheapest(asks), age |-> 0]

\* get_or_create and replace, of a poll's answer.
Replace(k, bids, asks) == books' = [books EXCEPT ![k] = State(bids, asks)]

\* One side after a diff: a size of zero removes the level.
Patched(levels, updates) ==
  {l \in ToSet(levels) : \A u \in updates : u.price # l.price}
    \cup {u \in updates : u.size > 0}

ApplyDiff(k, bid_updates, ask_updates) ==
  /\ Known(k)
  /\ books' = [books EXCEPT ![k] = State(Patched(@.bids, bid_updates),
                                         Patched(@.asks, ask_updates))]

\* Time passes; how much older than stale a book is makes no difference.
Age ==
  books' = [k \in Listed |->
              IF Known(k) /\ books[k].age <= Staleness
              THEN [books[k] EXCEPT !.age = @ + 1] ELSE books[k]]

Fresh(k) == Known(k) /\ books[k].age <= Staleness

TwoSided(k) == books[k].bids # <<>> /\ books[k].asks # <<>>

BestAsk(k) == Head(books[k].asks)
BestBid(k) == Head(books[k].bids)

\* What an order of a side trades with.
Side(k, side) == IF side = "buy" THEN books[k].asks ELSE books[k].bids

\* Mutant: the last level is taken whole.
TakeWhole(taken, level) ==
  IF taken.remaining > 0
  THEN [cost |-> taken.cost + level.size * level.price,
        filled |-> taken.filled + level.size,
        remaining |-> taken.remaining - level.size]
  ELSE taken

Take(taken, level) ==
  LET take == IF taken.remaining < level.size THEN taken.remaining ELSE level.size
  IN [cost |-> taken.cost + take * level.price,
      filled |-> taken.filled + take,
      remaining |-> taken.remaining - take]

\* vwap_fill_price is cost / filled, for filled units, of this walk.
Fill(k, side, size) ==
  FoldLeft(Take, [cost |-> 0, filled |-> 0, remaining |-> size],
           Side(k, side))
================================================================================

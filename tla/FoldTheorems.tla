----------------------------- MODULE FoldTheorems ------------------------------
(***************************************************************************)
(* Induction over natural numbers, and with it what the folds of the       *)
(* community modules compute: FoldLeft over a sequence, for any operator,  *)
(* and the sum of a function; and how a set is listed and sorted.          *)
(*                                                                         *)
(* The operator is a parameter of the module.  A module with a fold takes  *)
(* an instance of this one with the operator it folds; an induction is     *)
(* over a set of numbers, where the library's has a predicate.             *)
(***************************************************************************)
EXTENDS Sorting, SequencesExt, FiniteSetTheorems, WellFoundedInduction, TLAPS

CONSTANT op(_, _)   \* what is folded, from an accumulator and an element

-------------------------------------------------------------------------------
\* Induction.

LEMMA LeastOf ==
  ASSUME NEW T, T \subseteq Nat, T # {}
  PROVE  \E x \in T : \A y \in T : x <= y
<1> DEFINE R == OpToRel(<, Nat)
<1>1. IsWellFoundedOn(R, Nat)
  BY NatLessThanWellFounded
<1> HIDE DEF R
<1>2. PICK x \in T : \A y \in T : ~ (<<y, x>> \in R)
  BY <1>1, WFMin
<1>3. \A a, b \in Nat : a < b => <<a, b>> \in R
  BY DEF R, OpToRel
<1>4. ASSUME NEW y \in T
      PROVE  x <= y
  <2>1. x \in Nat /\ y \in Nat /\ ~(y < x)
    BY <1>2, <1>3
  <2> QED
    BY <2>1
<1> QED
  BY <1>4

\* A set that holds 0, and with each number the next, holds them all.
LEMMA Induction ==
  ASSUME NEW T, 0 \in T, \A n \in Nat : n \in T => n + 1 \in T
  PROVE  Nat \subseteq T
<1> SUFFICES ASSUME Nat \ T # {}
             PROVE  FALSE
  OBVIOUS
<1> DEFINE others == Nat \ T
<1>1. others \subseteq Nat /\ others # {}
  OBVIOUS
<1> HIDE DEF others
<1>2. PICK m \in others : \A y \in others : m <= y
  BY <1>1, LeastOf
<1>3. m \in Nat /\ m # 0 /\ m - 1 \in Nat /\ m - 1 \notin others
  BY <1>2 DEF others
<1> QED
  BY <1>3 DEF others

\* An induction that stops at a bound.
LEMMA InductionTo ==
  ASSUME NEW n \in Nat, NEW T, 0 \in T, \A i \in 1..n : i - 1 \in T => i \in T
  PROVE  \A i \in 0..n : i \in T
<1> DEFINE upto == {i \in Nat : i <= n => i \in T}
<1>1. 0 \in upto
  OBVIOUS
<1>2. ASSUME NEW i \in Nat, i \in upto
      PROVE  i + 1 \in upto
  <2> SUFFICES ASSUME i + 1 <= n
               PROVE  i + 1 \in T
    OBVIOUS
  <2>1. i + 1 \in 1..n /\ (i + 1) - 1 = i /\ i \in T
    BY <1>2
  <2> QED
    BY <2>1
<1>3. Nat \subseteq upto
  <2> HIDE DEF upto
  <2> QED
    BY <1>1, <1>2, Induction
<1> QED
  BY <1>3

-------------------------------------------------------------------------------
\* FoldLeft.

LEMMA LargestOf ==
  ASSUME NEW s, s \subseteq Nat, NEW m \in s, \A y \in s : m >= y
  PROVE  (CHOOSE x \in s : \A y \in s : x >= y) = m
<1> DEFINE c == CHOOSE x \in s : \A y \in s : x >= y
<1>1. c \in s /\ \A y \in s : c >= y
  OBVIOUS
<1> HIDE DEF c
<1>2. c \in Nat /\ m \in Nat /\ c >= m /\ m >= c
  BY <1>1
<1>3. c = m
  BY <1>2
<1> QED
  BY <1>3 DEF c

\* FoldLeft(op, base, seq), with its definition expanded.
Folded(base, seq) ==
  LET iter[s \in SUBSET DOMAIN seq] ==
        IF s = {} THEN base
        ELSE LET last == CHOOSE x \in s : \A y \in s : x >= y
             IN op(iter[s \ {last}], seq[last])
  IN iter[DOMAIN seq]

\* The accumulator after each element.
FoldsTo(base, seq, n) ==
  \E acc :
    /\ DOMAIN acc = 0..n
    /\ acc[0] = base
    /\ \A i \in 1..n : acc[i] = op(acc[i - 1], seq[i])
    /\ Folded(base, seq) = acc[n]

LEMMA Folding ==
  ASSUME NEW base, NEW seq, NEW n \in Nat, DOMAIN seq = 1..n
  PROVE  FoldsTo(base, seq, n)
<1> DEFINE Body(g, s) ==
             IF s = {} THEN base
             ELSE op(g[s \ {CHOOSE x \in s : \A y \in s : x >= y}],
                     seq[CHOOSE x \in s : \A y \in s : x >= y])
           Solves(g, k) == \A s \in SUBSET (1..k) : g[s] = Body(g, s)
           solved == {k \in Nat : \E g : Solves(g, k)}
<1>1. 0 \in solved
  <2> DEFINE g == [s \in SUBSET (1..0) |-> base]
  <2>1. 1..0 = {}
    OBVIOUS
  <2>2. Solves(g, 0)
    BY <2>1
  <2> QED
    BY <2>2
<1>2. ASSUME NEW k \in Nat, k \in solved
      PROVE  k + 1 \in solved
  <2>1. PICK g : Solves(g, k)
    BY <1>2
  <2> DEFINE h == [s \in SUBSET (1..(k + 1)) |-> IF s \subseteq 1..k THEN g[s] ELSE Body(g, s)]
  <2>2. ASSUME NEW s \in SUBSET (1..(k + 1))
        PROVE  h[s] = Body(h, s)
    <3> DEFINE last == CHOOSE x \in s : \A y \in s : x >= y
    <3>1. CASE s \subseteq 1..k
      <4>1. h[s] = g[s] /\ g[s] = Body(g, s)
        BY <2>1, <3>1
      <4>2. s \ {last} \in SUBSET (1..k) /\ s \ {last} \in SUBSET (1..(k + 1))
        BY <3>1
      <4>3. h[s \ {last}] = g[s \ {last}]
        BY <4>2
      <4> QED
        BY <4>1, <4>3
    <3>2. CASE ~(s \subseteq 1..k)
      <4>1. s \subseteq Nat /\ k + 1 \in s /\ \A y \in s : k + 1 >= y
        BY <3>2
      <4>2. last = k + 1
        BY <4>1, LargestOf
      <4>3. s \ {k + 1} \in SUBSET (1..k)
        OBVIOUS
      <4>4. s \ {last} \in SUBSET (1..k) /\ s \ {last} \in SUBSET (1..(k + 1))
        BY <4>2, <4>3
      <4>5. h[s \ {last}] = g[s \ {last}]
        BY <4>4
      <4>6. h[s] = Body(g, s)
        BY <3>2
      <4> QED
        BY <4>5, <4>6
    <3> QED
      BY <3>1, <3>2
  <2> HIDE DEF h
  <2>3. \E i : Solves(i, k + 1)
    BY <2>2
  <2>4. k + 1 \in Nat
    OBVIOUS
  <2> HIDE DEF Solves
  <2> QED
    BY <2>3, <2>4
<1>3. n \in solved
  <2> HIDE DEF solved
  <2> QED
    BY <1>1, <1>2, Induction
<1>4. PICK g : Solves(g, n)
  BY <1>3
<1> DEFINE iter == CHOOSE i : i = [s \in SUBSET (1..n) |-> Body(i, s)]
<1>5. iter = [s \in SUBSET (1..n) |-> Body(iter, s)]
  <2> DEFINE h == [s \in SUBSET (1..n) |-> g[s]]
  <2>1. \A s \in SUBSET (1..n) : h[s] = Body(h, s)
    BY <1>4
  <2>2. h = [s \in SUBSET (1..n) |-> Body(h, s)]
    BY <2>1
  <2> QED
    BY <2>2
<1>6. Folded(base, seq) = iter[1..n]
  BY DEF Folded
<1> HIDE DEF iter
<1> DEFINE acc == [i \in 0..n |-> iter[1..i]]
<1>7. acc[0] = base
  <2>1. 1..0 = {} /\ {} \in SUBSET (1..n)
    OBVIOUS
  <2>2. iter[{}] = Body(iter, {})
    BY <1>5, <2>1
  <2> QED
    BY <2>1, <2>2
<1>8. ASSUME NEW i \in 1..n
      PROVE  acc[i] = op(acc[i - 1], seq[i])
  <2> DEFINE last == CHOOSE x \in 1..i : \A y \in 1..i : x >= y
  <2>1. 1..i \in SUBSET (1..n) /\ i \in 1..i /\ i \in 0..n /\ i - 1 \in 0..n
    OBVIOUS
  <2>2. last = i
    <3>1. 1..i \subseteq Nat /\ i \in 1..i /\ \A y \in 1..i : i >= y
      OBVIOUS
    <3> QED
      BY <3>1, LargestOf
  <2>3. iter[1..i] = Body(iter, 1..i)
    BY <1>5, <2>1
  <2>4. (1..i) \ {i} = 1..(i - 1)
    OBVIOUS
  <2>5. Body(iter, 1..i) = op(iter[1..(i - 1)], seq[i])
    <3>1. 1..i # {}
      BY <2>1
    <3> QED
      BY <2>2, <2>4, <3>1
  <2>6. acc[i] = iter[1..i] /\ acc[i - 1] = iter[1..(i - 1)]
    BY <2>1
  <2> QED
    BY <2>3, <2>5, <2>6
<1>9. /\ DOMAIN acc = 0..n
      /\ \A i \in 1..n : acc[i] = op(acc[i - 1], seq[i])
      /\ Folded(base, seq) = acc[n]
  BY <1>6, <1>8
<1> HIDE DEF acc
<1> QED
  BY <1>7, <1>9 DEF FoldsTo

LEMMA FoldSteps ==
  ASSUME NEW base, NEW seq, NEW n \in Nat, DOMAIN seq = 1..n
  PROVE  \E acc :
           /\ DOMAIN acc = 0..n
           /\ acc[0] = base
           /\ \A i \in 1..n : acc[i] = op(acc[i - 1], seq[i])
           /\ Folded(base, seq) = acc[n]
<1>1. FoldsTo(base, seq, n)
  BY Folding
<1> QED
  BY <1>1 DEF FoldsTo

-------------------------------------------------------------------------------
\* Sums of integers.

\* An induction over the subsets of a finite set: what holds of the empty set,
\* and of every other subset if it does of those one element smaller, holds of
\* them all.
LEMMA SubsetInduction ==
  ASSUME NEW S, IsFiniteSet(S), NEW good,
         {} \in good,
         \A T \in SUBSET S :
           T # {} /\ (\A x \in T : T \ {x} \in good) => T \in good
  PROVE  \A T \in SUBSET S : T \in good
<1> DEFINE sizes == {n \in Nat : \A T \in SUBSET S : Cardinality(T) = n => T \in good}
<1>1. 0 \in sizes
  <2>1. ASSUME NEW T \in SUBSET S, Cardinality(T) = 0
        PROVE  T \in good
    BY <2>1, FS_Subset, FS_EmptySet
  <2> QED
    BY <2>1
<1>2. ASSUME NEW n \in Nat, n \in sizes
      PROVE  n + 1 \in sizes
  <2>1. ASSUME NEW T \in SUBSET S, Cardinality(T) = n + 1
        PROVE  T \in good
    <3>1. IsFiniteSet(T)
      BY FS_Subset
    <3>2. T # {}
      BY <2>1, <3>1, FS_EmptySet
    <3>3. ASSUME NEW x \in T
          PROVE  T \ {x} \in good
      <4>1. Cardinality(T \ {x}) = n
        <5>1. Cardinality(T \ {x}) = Cardinality(T) - 1
          BY <3>1, FS_RemoveElement
        <5> QED
          BY <2>1, <5>1
      <4>2. T \ {x} \in SUBSET S
        OBVIOUS
      <4> QED
        BY <1>2, <4>1, <4>2
    <3> QED
      BY <3>2, <3>3
  <2> QED
    BY <2>1
<1>3. Nat \subseteq sizes
  <2> HIDE DEF sizes
  <2> QED
    BY <1>1, <1>2, Induction
<1>4. ASSUME NEW T \in SUBSET S
      PROVE  T \in good
  <2>1. Cardinality(T) \in Nat
    BY FS_Subset, FS_CardinalityType
  <2> QED
    BY <1>3, <2>1
<1> QED
  BY <1>4

\* The element the sum of the community modules takes out first.
Chosen(T) == CHOOSE x \in T : TRUE

LEMMA ChosenIn ==
  ASSUME NEW T, T # {}
  PROVE  Chosen(T) \in T
BY DEF Chosen

\* The equation of the sum over every subset.
LEMMA SumSteps ==
  ASSUME NEW fun, NEW S, IsFiniteSet(S)
  PROVE  \E total :
           /\ total[{}] = 0
           /\ \A T \in SUBSET S : T # {} =>
                total[T] = fun[Chosen(T)] + total[T \ {Chosen(T)}]
           /\ SumFunctionOnSet(fun, S) = total[S]
<1> DEFINE Body(g, T) ==
             IF T = {} THEN 0
             ELSE fun[Chosen(T)] + g[T \ {Chosen(T)}]
           Solves(g, k) ==
             \A T \in SUBSET S : Cardinality(T) <= k => g[T] = Body(g, T)
           solved == {k \in Nat : \E g : Solves(g, k)}
<1> HIDE DEF Body
<1>a. \A g, h, T : (T = {} \/ g[T \ {Chosen(T)}] = h[T \ {Chosen(T)}])
                     => Body(g, T) = Body(h, T)
  BY DEF Body
<1>1. 0 \in solved
  <2> DEFINE g == [T \in SUBSET S |-> 0]
  <2>1. ASSUME NEW T \in SUBSET S, Cardinality(T) <= 0
        PROVE  g[T] = Body(g, T)
    <3>1. IsFiniteSet(T)
      BY FS_Subset
    <3>2. T = {}
      BY <2>1, <3>1, FS_EmptySet, FS_CardinalityType
    <3> QED
      BY <3>2 DEF Body
  <2> HIDE DEF g
  <2>2. \E i : Solves(i, 0)
    BY <2>1
  <2> HIDE DEF Solves
  <2> QED
    BY <2>2
<1>2. ASSUME NEW k \in Nat, k \in solved
      PROVE  k + 1 \in solved
  <2>1. PICK g : Solves(g, k)
    BY <1>2
  <2> DEFINE h == [T \in SUBSET S |-> IF Cardinality(T) <= k THEN g[T] ELSE Body(g, T)]
  <2>2. ASSUME NEW T \in SUBSET S, Cardinality(T) <= k + 1
        PROVE  h[T] = Body(h, T)
    <3>1. CASE T = {}
      <4>1. Cardinality(T) <= k
        BY <3>1, FS_EmptySet
      <4> QED
        BY <2>1, <3>1, <4>1 DEF Body
    <3>2. CASE T # {}
      <4> DEFINE x == Chosen(T)
      <4>1. x \in T /\ IsFiniteSet(T)
        BY <3>2, FS_Subset, ChosenIn
      <4> HIDE DEF x
      <4>2. Cardinality(T \ {x}) = Cardinality(T) - 1 /\ Cardinality(T) \in Nat
        BY <4>1, FS_RemoveElement, FS_CardinalityType
      <4>3. Cardinality(T \ {x}) <= k /\ T \ {x} \in SUBSET S
        BY <2>2, <4>2
      <4>4. h[T \ {x}] = g[T \ {x}]
        BY <4>3
      <4>5. Body(g, T) = Body(h, T)
        BY <1>a, <4>4 DEF x
      <4>6. h[T] = Body(g, T)
        BY <2>1
      <4> QED
        BY <4>5, <4>6
    <3> QED
      BY <3>1, <3>2
  <2> HIDE DEF h
  <2>3. \E i : Solves(i, k + 1)
    BY <2>2
  <2>4. k + 1 \in Nat
    OBVIOUS
  <2> HIDE DEF Solves
  <2> QED
    BY <2>3, <2>4
<1>3. Cardinality(S) \in solved
  <2>1. Cardinality(S) \in Nat
    BY FS_CardinalityType
  <2> HIDE DEF solved
  <2> QED
    BY <1>1, <1>2, <2>1, Induction
<1>4. PICK g : Solves(g, Cardinality(S))
  BY <1>3
<1> DEFINE iter == CHOOSE i : i = [T \in SUBSET S |-> Body(i, T)]
<1>5. iter = [T \in SUBSET S |-> Body(iter, T)]
  <2> DEFINE h == [T \in SUBSET S |-> g[T]]
  <2>1. ASSUME NEW T \in SUBSET S
        PROVE  h[T] = Body(h, T)
    <3>1. g[T] = Body(g, T)
      BY <1>4, FS_Subset
    <3>2. T # {} => T \ {Chosen(T)} \in SUBSET S
      BY ChosenIn
    <3>3. Body(g, T) = Body(h, T)
      BY <1>a, <3>2
    <3> QED
      BY <3>1, <3>3
  <2>2. h = [T \in SUBSET S |-> Body(h, T)]
    BY <2>1
  <2> QED
    BY <2>2
<1>6. SumFunctionOnSet(fun, S) = iter[S]
  BY DEF SumFunctionOnSet, FoldFunctionOnSet, MapThenFoldSet, Body, Chosen
<1> HIDE DEF iter
<1>7. iter[{}] = 0
  <2>1. iter[{}] = Body(iter, {})
    BY <1>5
  <2> QED
    BY <2>1 DEF Body
<1>8. ASSUME NEW T \in SUBSET S, T # {}
      PROVE  iter[T] = fun[Chosen(T)] + iter[T \ {Chosen(T)}]
  <2>1. iter[T] = Body(iter, T)
    BY <1>5
  <2> QED
    BY <1>8, <2>1 DEF Body
<1> QED
  BY <1>6, <1>7, <1>8

LEMMA SumEmpty ==
  ASSUME NEW fun
  PROVE  SumFunctionOnSet(fun, {}) = 0
<1>1. IsFiniteSet({})
  BY FS_EmptySet
<1> QED
  BY <1>1, SumSteps

\* One element taken out, the one the definition chooses.
LEMMA SumChosen ==
  ASSUME NEW fun, NEW S, IsFiniteSet(S), S # {}
  PROVE  LET x == Chosen(S)
         IN SumFunctionOnSet(fun, S) = fun[x] + SumFunctionOnSet(fun, S \ {x})
<1> DEFINE x == Chosen(S)
           rest == S \ {x}
<1>1. PICK total :
        /\ total[{}] = 0
        /\ \A T \in SUBSET S : T # {} =>
             total[T] = fun[Chosen(T)] + total[T \ {Chosen(T)}]
        /\ SumFunctionOnSet(fun, S) = total[S]
  BY SumSteps
<1>2. IsFiniteSet(rest)
  BY FS_Subset
<1>3. PICK less :
        /\ less[{}] = 0
        /\ \A T \in SUBSET rest : T # {} =>
             less[T] = fun[Chosen(T)] + less[T \ {Chosen(T)}]
        /\ SumFunctionOnSet(fun, rest) = less[rest]
  <2> HIDE DEF rest
  <2> QED
    BY <1>2, SumSteps
<1>4. \A T \in SUBSET rest : total[T] = less[T]
  <2> DEFINE good == {T \in SUBSET rest : total[T] = less[T]}
  <2>1. {} \in good
    BY <1>1, <1>3
  <2>2. ASSUME NEW T \in SUBSET rest, T # {}, \A y \in T : T \ {y} \in good
        PROVE  T \in good
    <3> DEFINE y == Chosen(T)
    <3>1. y \in T /\ T \in SUBSET S
      BY <2>2, ChosenIn
    <3>2. total[T] = fun[y] + total[T \ {y}] /\ less[T] = fun[y] + less[T \ {y}]
      BY <1>1, <1>3, <2>2, <3>1
    <3>3. total[T \ {y}] = less[T \ {y}]
      BY <2>2, <3>1
    <3> QED
      BY <3>2, <3>3
  <2>3. \A T \in SUBSET rest : T \in good
    <3> HIDE DEF good, rest
    <3> QED
      BY <1>2, <2>1, <2>2, SubsetInduction
  <2> QED
    BY <2>3
<1>5. total[S] = fun[x] + total[rest]
  BY <1>1
<1> QED
  BY <1>1, <1>3, <1>4, <1>5

\* A sum of integers is an integer, one of naturals a natural.
LEMMA SumType ==
  ASSUME NEW fun, NEW S, IsFiniteSet(S), \A x \in S : fun[x] \in Int
  PROVE  /\ SumFunctionOnSet(fun, S) \in Int
         /\ (\A x \in S : fun[x] >= 0) => SumFunctionOnSet(fun, S) >= 0
<1> DEFINE Typed(T) ==
             /\ SumFunctionOnSet(fun, T) \in Int
             /\ (\A x \in S : fun[x] >= 0) => SumFunctionOnSet(fun, T) >= 0
           good == {T \in SUBSET S : Typed(T)}
<1>1. {} \in good
  BY SumEmpty
<1>2. ASSUME NEW T \in SUBSET S, T # {}, \A x \in T : T \ {x} \in good
      PROVE  T \in good
  <2> DEFINE x == Chosen(T)
  <2>1. x \in T /\ IsFiniteSet(T)
    BY <1>2, FS_Subset, ChosenIn
  <2>2. SumFunctionOnSet(fun, T) = fun[x] + SumFunctionOnSet(fun, T \ {x})
    BY <1>2, <2>1, SumChosen
  <2> HIDE DEF x
  <2>3. Typed(T \ {x}) /\ fun[x] \in Int
    BY <1>2, <2>1
  <2> QED
    BY <2>1, <2>2, <2>3
<1>3. \A T \in SUBSET S : T \in good
  <2> HIDE DEF good
  <2> QED
    BY <1>1, <1>2, SubsetInduction
<1> QED
  BY <1>3

\* Any element may be the one taken out: the order does not matter.
LEMMA SumRemove ==
  ASSUME NEW fun, NEW S, IsFiniteSet(S), \A x \in S : fun[x] \in Int
  PROVE  \A x \in S : SumFunctionOnSet(fun, S) = fun[x] + SumFunctionOnSet(fun, S \ {x})
<1> DEFINE Splits(T) ==
             \A x \in T : SumFunctionOnSet(fun, T) = fun[x] + SumFunctionOnSet(fun, T \ {x})
           good == {T \in SUBSET S : Splits(T)}
<1>1. {} \in good
  OBVIOUS
<1>2. ASSUME NEW T \in SUBSET S, T # {}, \A x \in T : T \ {x} \in good
      PROVE  T \in good
  <2> DEFINE c == Chosen(T)
  <2>1. c \in T /\ IsFiniteSet(T)
    BY <1>2, FS_Subset, ChosenIn
  <2>2. SumFunctionOnSet(fun, T) = fun[c] + SumFunctionOnSet(fun, T \ {c})
    BY <1>2, <2>1, SumChosen
  <2> HIDE DEF c
  <2>3. ASSUME NEW x \in T, x # c
        PROVE  SumFunctionOnSet(fun, T) = fun[x] + SumFunctionOnSet(fun, T \ {x})
    <3>1. SumFunctionOnSet(fun, T \ {c})
            = fun[x] + SumFunctionOnSet(fun, (T \ {c}) \ {x})
      BY <1>2, <2>1, <2>3
    <3>2. SumFunctionOnSet(fun, T \ {x})
            = fun[c] + SumFunctionOnSet(fun, (T \ {x}) \ {c})
      BY <1>2, <2>1, <2>3
    <3>3. (T \ {c}) \ {x} = (T \ {x}) \ {c}
      OBVIOUS
    <3>4. SumFunctionOnSet(fun, (T \ {c}) \ {x}) \in Int
      <4>1. IsFiniteSet((T \ {c}) \ {x}) /\ \A y \in (T \ {c}) \ {x} : fun[y] \in Int
        BY <2>1, FS_Subset
      <4> QED
        BY <4>1, SumType
    <3>5. fun[x] \in Int /\ fun[c] \in Int
      BY <2>1
    <3>6. SumFunctionOnSet(fun, T)
            = fun[c] + (fun[x] + SumFunctionOnSet(fun, (T \ {c}) \ {x}))
      BY <2>2, <3>1
    <3>7. fun[x] + SumFunctionOnSet(fun, T \ {x})
            = fun[x] + (fun[c] + SumFunctionOnSet(fun, (T \ {c}) \ {x}))
      BY <3>2, <3>3
    <3> QED
      BY <3>4, <3>5, <3>6, <3>7
  <2> QED
    BY <2>2, <2>3
<1>3. \A T \in SUBSET S : T \in good
  <2> HIDE DEF good
  <2> QED
    BY <1>1, <1>2, SubsetInduction
<1> QED
  BY <1>3

LEMMA SumInsert ==
  ASSUME NEW fun, NEW S, IsFiniteSet(S), NEW x, x \notin S,
         fun[x] \in Int, \A y \in S : fun[y] \in Int
  PROVE  SumFunctionOnSet(fun, S \cup {x}) = SumFunctionOnSet(fun, S) + fun[x]
<1> DEFINE larger == S \cup {x}
<1>1. IsFiniteSet(larger)
  BY FS_AddElement
<1>2. x \in larger /\ larger \ {x} = S /\ \A y \in larger : fun[y] \in Int
  OBVIOUS
<1>3. SumFunctionOnSet(fun, S) \in Int
  BY SumType
<1>4. SumFunctionOnSet(fun, larger) = fun[x] + SumFunctionOnSet(fun, S)
  <2> HIDE DEF larger
  <2> QED
    BY <1>1, <1>2, SumRemove
<1> QED
  BY <1>3, <1>4

\* A sum depends on the values at its indices only.
LEMMA SumEqual ==
  ASSUME NEW f, NEW g, NEW S, IsFiniteSet(S), \A x \in S : f[x] = g[x]
  PROVE  SumFunctionOnSet(f, S) = SumFunctionOnSet(g, S)
<1> DEFINE good == {T \in SUBSET S : SumFunctionOnSet(f, T) = SumFunctionOnSet(g, T)}
<1>1. {} \in good
  BY SumEmpty
<1>2. ASSUME NEW T \in SUBSET S, T # {}, \A x \in T : T \ {x} \in good
      PROVE  T \in good
  <2> DEFINE x == Chosen(T)
  <2>1. x \in T /\ IsFiniteSet(T)
    BY <1>2, FS_Subset, ChosenIn
  <2>2. /\ SumFunctionOnSet(f, T) = f[x] + SumFunctionOnSet(f, T \ {x})
        /\ SumFunctionOnSet(g, T) = g[x] + SumFunctionOnSet(g, T \ {x})
    BY <1>2, <2>1, SumChosen
  <2> HIDE DEF x
  <2> QED
    BY <1>2, <2>1, <2>2
<1>3. \A T \in SUBSET S : T \in good
  <2> HIDE DEF good
  <2> QED
    BY <1>1, <1>2, SubsetInduction
<1> QED
  BY <1>3

\* One value changed.
LEMMA SumChange ==
  ASSUME NEW f, NEW g, NEW S, IsFiniteSet(S), NEW x \in S,
         \A y \in S : f[y] \in Int, g[x] \in Int,
         \A y \in S \ {x} : g[y] = f[y]
  PROVE  SumFunctionOnSet(g, S) = SumFunctionOnSet(f, S) + (g[x] - f[x])
<1> DEFINE rest == S \ {x}
<1>1. IsFiniteSet(rest) /\ \A y \in rest : f[y] \in Int
  BY FS_Subset
<1>2. \A y \in S : g[y] \in Int
  OBVIOUS
<1>3. SumFunctionOnSet(f, S) = f[x] + SumFunctionOnSet(f, rest)
  BY SumRemove
<1>4. SumFunctionOnSet(g, S) = g[x] + SumFunctionOnSet(g, rest)
  BY <1>2, SumRemove
<1>5. SumFunctionOnSet(f, rest) = SumFunctionOnSet(g, rest)
  BY <1>1, SumEqual
<1>6. SumFunctionOnSet(f, rest) \in Int
  BY <1>1, SumType
<1> QED
  BY <1>3, <1>4, <1>5, <1>6

LEMMA SumZero ==
  ASSUME NEW f, NEW S, IsFiniteSet(S), \A x \in S : f[x] = 0
  PROVE  SumFunctionOnSet(f, S) = 0
<1> DEFINE good == {T \in SUBSET S : SumFunctionOnSet(f, T) = 0}
<1>1. {} \in good
  BY SumEmpty
<1>2. ASSUME NEW T \in SUBSET S, T # {}, \A x \in T : T \ {x} \in good
      PROVE  T \in good
  <2> DEFINE x == Chosen(T)
  <2>1. x \in T /\ IsFiniteSet(T)
    BY <1>2, FS_Subset, ChosenIn
  <2>2. SumFunctionOnSet(f, T) = f[x] + SumFunctionOnSet(f, T \ {x})
    BY <1>2, <2>1, SumChosen
  <2> HIDE DEF x
  <2> QED
    BY <1>2, <2>1, <2>2
<1>3. \A T \in SUBSET S : T \in good
  <2> HIDE DEF good
  <2> QED
    BY <1>1, <1>2, SubsetInduction
<1> QED
  BY <1>3

\* Indices without a value do not count.
LEMMA SumOutside ==
  ASSUME NEW f, NEW S, IsFiniteSet(S), NEW part \in SUBSET S,
         \A x \in S : f[x] \in Int, \A x \in S \ part : f[x] = 0
  PROVE  SumFunctionOnSet(f, S) = SumFunctionOnSet(f, part)
<1> DEFINE rest == S \ part
           good == {T \in SUBSET rest :
                      SumFunctionOnSet(f, part \cup T) = SumFunctionOnSet(f, part)}
<1>1. {} \in good
  <2>1. part \cup {} = part
    OBVIOUS
  <2> QED
    BY <2>1
<1>2. ASSUME NEW T \in SUBSET rest, T # {}, \A x \in T : T \ {x} \in good
      PROVE  T \in good
  <2>1. PICK x \in T : TRUE
    BY <1>2
  <2> DEFINE with == part \cup T
  <2>2. /\ IsFiniteSet(with) /\ x \in with /\ with \ {x} = part \cup (T \ {x})
        /\ \A y \in with : f[y] \in Int
        /\ f[x] = 0
    BY FS_Subset
  <2>3. SumFunctionOnSet(f, with) = f[x] + SumFunctionOnSet(f, with \ {x})
    <3> HIDE DEF with
    <3> QED
      BY <2>2, SumRemove
  <2>4. SumFunctionOnSet(f, with \ {x}) = SumFunctionOnSet(f, part)
    BY <1>2, <2>2
  <2>5. SumFunctionOnSet(f, part) \in Int
    <3>1. IsFiniteSet(part) /\ \A y \in part : f[y] \in Int
      BY FS_Subset
    <3> QED
      BY <3>1, SumType
  <2> QED
    BY <2>2, <2>3, <2>4, <2>5
<1>3. IsFiniteSet(rest)
  BY FS_Subset
<1>4. \A T \in SUBSET rest : T \in good
  <2> HIDE DEF good, rest
  <2> QED
    BY <1>1, <1>2, <1>3, SubsetInduction
<1>5. rest \in good
  BY <1>4
<1>6. part \cup rest = S
  OBVIOUS
<1> QED
  BY <1>5, <1>6

\* Fewer indices, no greater a sum.
LEMMA SumOfPart ==
  ASSUME NEW f, NEW S, IsFiniteSet(S), NEW part \in SUBSET S,
         \A x \in S : f[x] \in Nat
  PROVE  SumFunctionOnSet(f, part) <= SumFunctionOnSet(f, S)
<1> DEFINE good == {T \in SUBSET S :
                      part \subseteq T =>
                        SumFunctionOnSet(f, part) <= SumFunctionOnSet(f, T)}
<1>1. \A T \in SUBSET S : SumFunctionOnSet(f, T) \in Int
  <2> SUFFICES ASSUME NEW T \in SUBSET S
               PROVE  SumFunctionOnSet(f, T) \in Int
    OBVIOUS
  <2>1. IsFiniteSet(T) /\ \A x \in T : f[x] \in Int
    BY FS_Subset
  <2> QED
    BY <2>1, SumType
<1>2. {} \in good
  <2>1. part \subseteq {} => part = {}
    OBVIOUS
  <2> QED
    BY <1>1, <2>1
<1>3. ASSUME NEW T \in SUBSET S, T # {}, \A x \in T : T \ {x} \in good
      PROVE  T \in good
  <2> SUFFICES ASSUME part \subseteq T, part # T
               PROVE  SumFunctionOnSet(f, part) <= SumFunctionOnSet(f, T)
    BY <1>1
  <2>1. PICK x \in T : x \notin part
    OBVIOUS
  <2>2. IsFiniteSet(T) /\ \A y \in T : f[y] \in Int
    BY FS_Subset
  <2>3. SumFunctionOnSet(f, T) = f[x] + SumFunctionOnSet(f, T \ {x})
    BY <2>2, SumRemove
  <2>4. SumFunctionOnSet(f, part) <= SumFunctionOnSet(f, T \ {x})
    BY <1>3, <2>1
  <2>5. f[x] \in Nat /\ T \ {x} \in SUBSET S
    OBVIOUS
  <2> QED
    BY <1>1, <2>3, <2>4, <2>5
<1>4. \A T \in SUBSET S : T \in good
  <2> HIDE DEF good
  <2> QED
    BY <1>2, <1>3, SubsetInduction
<1> QED
  BY <1>4

\* One more element at the end of a sequence.
LEMMA SumExtend ==
  ASSUME NEW f, NEW g, NEW n \in Nat,
         \A i \in 1..n : f[i] \in Int /\ g[i] = f[i],
         g[n + 1] \in Int
  PROVE  SumFunctionOnSet(g, 1..(n + 1)) = SumFunctionOnSet(f, 1..n) + g[n + 1]
<1>1. IsFiniteSet(1..n)
  BY FS_Interval
<1>2. 1..(n + 1) = (1..n) \cup {n + 1} /\ n + 1 \notin 1..n
  OBVIOUS
<1> DEFINE earlier == 1..n
<1>a. IsFiniteSet(earlier) /\ n + 1 \notin earlier /\ \A i \in earlier : g[i] \in Int
  BY <1>1, <1>2
<1>3. SumFunctionOnSet(g, earlier \cup {n + 1}) = SumFunctionOnSet(g, earlier) + g[n + 1]
  <2> HIDE DEF earlier
  <2> QED
    BY <1>a, SumInsert
<1>4. SumFunctionOnSet(g, 1..n) = SumFunctionOnSet(f, 1..n)
  BY <1>1, SumEqual
<1> QED
  BY <1>2, <1>3, <1>4

\* The sums of the beginnings of a sequence of naturals.
LEMMA SumPrefixes ==
  ASSUME NEW f, NEW n \in Nat, \A i \in 1..n : f[i] \in Nat
  PROVE  /\ SumFunctionOnSet(f, 1..0) = 0
         /\ \A i \in 0..n : /\ SumFunctionOnSet(f, 1..i) \in Nat
                            /\ SumFunctionOnSet(f, 1..i) <= SumFunctionOnSet(f, 1..n)
         /\ \A i \in 1..n : SumFunctionOnSet(f, 1..i) = SumFunctionOnSet(f, 1..(i - 1)) + f[i]
<1>1. SumFunctionOnSet(f, 1..0) = 0
  <2>1. 1..0 = {}
    OBVIOUS
  <2> QED
    BY <2>1, SumEmpty
<1>2. ASSUME NEW i \in 0..n
      PROVE  /\ SumFunctionOnSet(f, 1..i) \in Nat
             /\ SumFunctionOnSet(f, 1..i) <= SumFunctionOnSet(f, 1..n)
  <2> DEFINE part == 1..i
             all == 1..n
  <2>1. IsFiniteSet(part) /\ IsFiniteSet(all) /\ part \in SUBSET all
    BY FS_Interval
  <2>2. /\ \A x \in part : f[x] \in Int /\ f[x] >= 0
        /\ \A x \in all : f[x] \in Nat
    OBVIOUS
  <2> HIDE DEF part, all
  <2>3. SumFunctionOnSet(f, part) \in Int /\ SumFunctionOnSet(f, part) >= 0
    BY <2>1, <2>2, SumType
  <2>4. SumFunctionOnSet(f, part) <= SumFunctionOnSet(f, all)
    BY <2>1, <2>2, SumOfPart
  <2> QED
    BY <2>3, <2>4 DEF part, all
<1>3. ASSUME NEW i \in 1..n
      PROVE  SumFunctionOnSet(f, 1..i) = SumFunctionOnSet(f, 1..(i - 1)) + f[i]
  <2> DEFINE m == i - 1
  <2>1. m \in Nat /\ m + 1 = i /\ f[m + 1] \in Int
    OBVIOUS
  <2>2. \A j \in 1..m : f[j] \in Int /\ f[j] = f[j]
    OBVIOUS
  <2>3. SumFunctionOnSet(f, 1..(m + 1)) = SumFunctionOnSet(f, 1..m) + f[m + 1]
    <3> HIDE DEF m
    <3> QED
      BY <2>1, <2>2, SumExtend
  <2> QED
    BY <2>1, <2>3
<1> QED
  BY <1>1, <1>2, <1>3

LEMMA SumAdd ==
  ASSUME NEW f, NEW g, NEW h, NEW S, IsFiniteSet(S),
         \A x \in S : f[x] \in Int /\ g[x] \in Int /\ h[x] = f[x] + g[x]
  PROVE  SumFunctionOnSet(h, S) = SumFunctionOnSet(f, S) + SumFunctionOnSet(g, S)
<1> DEFINE good == {T \in SUBSET S :
             SumFunctionOnSet(h, T) = SumFunctionOnSet(f, T) + SumFunctionOnSet(g, T)}
<1>1. {} \in good
  BY SumEmpty
<1>2. ASSUME NEW T \in SUBSET S, T # {}, \A x \in T : T \ {x} \in good
      PROVE  T \in good
  <2> DEFINE x == Chosen(T)
             rest == T \ {x}
  <2>1. x \in T /\ IsFiniteSet(T) /\ IsFiniteSet(rest) /\ rest \in SUBSET S
    BY <1>2, FS_Subset, ChosenIn
  <2>2. /\ SumFunctionOnSet(f, T) = f[x] + SumFunctionOnSet(f, rest)
        /\ SumFunctionOnSet(g, T) = g[x] + SumFunctionOnSet(g, rest)
        /\ SumFunctionOnSet(h, T) = h[x] + SumFunctionOnSet(h, rest)
    BY <1>2, <2>1, SumChosen
  <2>3. rest \in good
    BY <1>2, <2>1
  <2> HIDE DEF x, rest
  <2>4. SumFunctionOnSet(f, rest) \in Int /\ SumFunctionOnSet(g, rest) \in Int
    <3>1. \A y \in rest : f[y] \in Int /\ g[y] \in Int
      BY <2>1
    <3> QED
      BY <2>1, <3>1, SumType
  <2>5. f[x] \in Int /\ g[x] \in Int /\ h[x] = f[x] + g[x]
    BY <2>1
  <2>6. SumFunctionOnSet(h, rest) = SumFunctionOnSet(f, rest) + SumFunctionOnSet(g, rest)
    BY <2>3
  <2>7. SumFunctionOnSet(h, T) = SumFunctionOnSet(f, T) + SumFunctionOnSet(g, T)
    BY <2>2, <2>4, <2>5, <2>6
  <2> QED
    BY <2>7
<1>3. \A T \in SUBSET S : T \in good
  <2> HIDE DEF good
  <2> QED
    BY <1>1, <1>2, SubsetInduction
<1> QED
  BY <1>3

LEMMA SumScale ==
  ASSUME NEW c \in Int, NEW f, NEW g, NEW S, IsFiniteSet(S),
         \A x \in S : f[x] \in Int /\ g[x] = c * f[x]
  PROVE  SumFunctionOnSet(g, S) = c * SumFunctionOnSet(f, S)
<1> DEFINE good == {T \in SUBSET S : SumFunctionOnSet(g, T) = c * SumFunctionOnSet(f, T)}
<1>1. {} \in good
  BY SumEmpty
<1>2. ASSUME NEW T \in SUBSET S, T # {}, \A x \in T : T \ {x} \in good
      PROVE  T \in good
  <2> DEFINE x == Chosen(T)
             rest == T \ {x}
  <2>1. x \in T /\ IsFiniteSet(T) /\ IsFiniteSet(rest) /\ rest \in SUBSET S
    BY <1>2, FS_Subset, ChosenIn
  <2>2. /\ SumFunctionOnSet(f, T) = f[x] + SumFunctionOnSet(f, rest)
        /\ SumFunctionOnSet(g, T) = g[x] + SumFunctionOnSet(g, rest)
    BY <1>2, <2>1, SumChosen
  <2>3. rest \in good
    BY <1>2, <2>1
  <2> HIDE DEF x, rest
  <2>4. SumFunctionOnSet(f, rest) \in Int
    <3>1. \A y \in rest : f[y] \in Int
      BY <2>1
    <3> QED
      BY <2>1, <3>1, SumType
  <2>5. f[x] \in Int /\ g[x] = c * f[x]
    BY <2>1
  <2>6. SumFunctionOnSet(g, rest) = c * SumFunctionOnSet(f, rest)
    BY <2>3
  <2>7. \A a, b \in Int : c * a + c * b = c * (a + b)
    OBVIOUS
  <2>8. SumFunctionOnSet(g, T) = c * SumFunctionOnSet(f, T)
    BY <2>2, <2>4, <2>5, <2>6, <2>7
  <2> QED
    BY <2>8
<1>3. \A T \in SUBSET S : T \in good
  <2> HIDE DEF good
  <2> QED
    BY <1>1, <1>2, SubsetInduction
<1> QED
  BY <1>3

LEMMA SumOfOnes ==
  ASSUME NEW f, NEW S, IsFiniteSet(S), \A x \in S : f[x] = 1
  PROVE  SumFunctionOnSet(f, S) = Cardinality(S)
<1> DEFINE good == {T \in SUBSET S : SumFunctionOnSet(f, T) = Cardinality(T)}
<1>1. {} \in good
  BY SumEmpty, FS_EmptySet
<1>2. ASSUME NEW T \in SUBSET S, T # {}, \A x \in T : T \ {x} \in good
      PROVE  T \in good
  <2> DEFINE x == Chosen(T)
             rest == T \ {x}
  <2>1. x \in T /\ IsFiniteSet(T) /\ IsFiniteSet(rest) /\ rest \in SUBSET S
    BY <1>2, FS_Subset, ChosenIn
  <2>2. SumFunctionOnSet(f, T) = f[x] + SumFunctionOnSet(f, rest)
    BY <1>2, <2>1, SumChosen
  <2>3. SumFunctionOnSet(f, rest) = Cardinality(rest)
    BY <1>2, <2>1
  <2>4. Cardinality(rest) = Cardinality(T) - 1 /\ Cardinality(T) \in Nat
    BY <2>1, FS_RemoveElement, FS_CardinalityType
  <2> HIDE DEF x, rest
  <2>5. SumFunctionOnSet(f, T) = Cardinality(T)
    BY <2>1, <2>2, <2>3, <2>4
  <2> QED
    BY <2>5
<1>3. \A T \in SUBSET S : T \in good
  <2> HIDE DEF good
  <2> QED
    BY <1>1, <1>2, SubsetInduction
<1> QED
  BY <1>3

LEMMA SumConstant ==
  ASSUME NEW c \in Int, NEW f, NEW S, IsFiniteSet(S), \A x \in S : f[x] = c
  PROVE  SumFunctionOnSet(f, S) = c * Cardinality(S)
<1> DEFINE ones == [x \in S |-> 1]
<1>1. /\ \A x \in S : ones[x] = 1
      /\ \A x \in S : ones[x] \in Int /\ f[x] = c * ones[x]
  OBVIOUS
<1> HIDE DEF ones
<1> QED
  BY <1>1, SumOfOnes, SumScale

LEMMA SumOrdered ==
  ASSUME NEW f, NEW g, NEW S, IsFiniteSet(S),
         \A x \in S : f[x] \in Int /\ g[x] \in Int /\ f[x] <= g[x]
  PROVE  SumFunctionOnSet(f, S) <= SumFunctionOnSet(g, S)
<1> DEFINE gap == [x \in S |-> g[x] - f[x]]
<1>1. \A x \in S : f[x] \in Int /\ gap[x] \in Int /\ gap[x] >= 0 /\ g[x] = f[x] + gap[x]
  OBVIOUS
<1> HIDE DEF gap
<1>2. SumFunctionOnSet(g, S) = SumFunctionOnSet(f, S) + SumFunctionOnSet(gap, S)
  BY <1>1, SumAdd
<1>3. /\ SumFunctionOnSet(f, S) \in Int
      /\ SumFunctionOnSet(gap, S) \in Int /\ SumFunctionOnSet(gap, S) >= 0
  BY <1>1, SumType
<1> QED
  BY <1>2, <1>3

LEMMA SizeOfBoth ==
  ASSUME NEW A, IsFiniteSet(A), NEW B, IsFiniteSet(B), A \cap B = {}
  PROVE  Cardinality(A \cup B) = Cardinality(A) + Cardinality(B)
<1>1. Cardinality(A \cup B) = Cardinality(A) + Cardinality(B) - Cardinality(A \cap B)
  BY FS_Union
<1>2. Cardinality(A) \in Nat /\ Cardinality(B) \in Nat
  BY FS_CardinalityType
<1>3. Cardinality(A \cap B) = 0
  BY FS_EmptySet
<1> QED
  BY <1>1, <1>2, <1>3

\* Elements counted by the value that a function gives them.
LEMMA SumOfClasses ==
  ASSUME NEW f, NEW class, NEW count, NEW I, IsFiniteSet(I), NEW S, IsFiniteSet(S),
         \A i \in I : f[i] \in S,
         \A x \in S : class[x] \subseteq I /\ \A i \in I : i \in class[x] <=> f[i] = x,
         \A x \in S : count[x] = Cardinality(class[x])
  PROVE  SumFunctionOnSet(count, S) = Cardinality(I)
<1> DEFINE of(T) == {i \in I : f[i] \in T}
           good == {T \in SUBSET S : SumFunctionOnSet(count, T) = Cardinality(of(T))}
<1>1. {} \in good
  <2>1. of({}) = {}
    OBVIOUS
  <2> QED
    BY <2>1, SumEmpty, FS_EmptySet
<1>2. ASSUME NEW T \in SUBSET S, T # {}, \A x \in T : T \ {x} \in good
      PROVE  T \in good
  <2> DEFINE x == Chosen(T)
             rest == T \ {x}
             members == class[x]
  <2>1. x \in T /\ IsFiniteSet(T) /\ rest \in SUBSET S /\ x \in S
    BY <1>2, FS_Subset, ChosenIn
  <2>2. SumFunctionOnSet(count, T) = count[x] + SumFunctionOnSet(count, rest)
    BY <1>2, <2>1, SumChosen
  <2>3. SumFunctionOnSet(count, rest) = Cardinality(of(rest))
    BY <1>2, <2>1
  <2>4. IsFiniteSet(members) /\ IsFiniteSet(of(rest))
    <3>1. members \in SUBSET I /\ of(rest) \in SUBSET I
      BY <2>1
    <3> HIDE DEF members, of
    <3> QED
      BY <3>1, FS_Subset
  <2>5. of(T) = members \cup of(rest) /\ members \cap of(rest) = {}
    BY <2>1
  <2>6. count[x] = Cardinality(members)
    BY <2>1
  <2> HIDE DEF x, rest, members, of
  <2>7. Cardinality(members \cup of(rest)) = Cardinality(members) + Cardinality(of(rest))
    BY <2>4, <2>5, SizeOfBoth
  <2>8. SumFunctionOnSet(count, T) = Cardinality(of(T))
    BY <2>2, <2>3, <2>5, <2>6, <2>7
  <2> QED
    BY <2>8
<1>3. \A T \in SUBSET S : T \in good
  <2> HIDE DEF good
  <2> QED
    BY <1>1, <1>2, SubsetInduction
<1>4. S \in good /\ of(S) = I
  BY <1>3
<1> QED
  BY <1>4

-------------------------------------------------------------------------------
\* Sequences and their sets.

LEMMA RangeIsFinite ==
  ASSUME NEW S, NEW T, IsFiniteSet(S), NEW f \in [S -> T]
  PROVE  IsFiniteSet(Range(f)) /\ Cardinality(Range(f)) <= Cardinality(S)
<1>1. f \in Surjection(S, Range(f))
  BY DEF Surjection, Range
<1> QED
  BY <1>1, FS_Surjection

LEMMA RangeOfList ==
  ASSUME NEW T, NEW list \in Seq(T)
  PROVE  IsFiniteSet(Range(list)) /\ Cardinality(Range(list)) <= Len(list)
<1>1. list \in [1 .. Len(list) -> T] /\ Len(list) \in Nat
  OBVIOUS
<1>2. IsFiniteSet(1 .. Len(list)) /\ Cardinality(1 .. Len(list)) = Len(list)
  <2> DEFINE n == Len(list)
  <2>1. n \in Nat
    OBVIOUS
  <2> HIDE DEF n
  <2>2. IsFiniteSet(1 .. n) /\ Cardinality(1 .. n) = n
    BY <2>1, FS_Interval
  <2> QED
    BY <2>2 DEF n
<1> QED
  BY <1>1, <1>2, RangeIsFinite

\* A set that a sequence without repetitions counts.
LEMMA Counted ==
  ASSUME NEW S, NEW n \in Nat, NEW f \in [1..n -> S],
         \A i, j \in 1..n : i # j => f[i] # f[j],
         \A x \in S : \E i \in 1..n : f[i] = x
  PROVE  Cardinality(S) = n
<1>1. DOMAIN f = 1..n
  OBVIOUS
<1>2. IsInjective(f)
  BY <1>1 DEF IsInjective
<1>3. f \in Injection(1..n, S) /\ f \in Surjection(1..n, S)
  BY <1>2 DEF Injection, Surjection
<1>4. ExistsBijection(1..n, S)
  BY <1>3 DEF ExistsBijection, Bijection
<1> QED
  BY <1>4, FS_CountingElements

-------------------------------------------------------------------------------
\* sorted(): a list of all of a set, in the order of their keys.

\* Tuples of n numbers are ordered, the first difference decides.
LEMMA PrecedesIsAnOrder ==
  ASSUME NEW n \in Nat, NEW a \in [1 .. n -> Int], NEW b \in [1 .. n -> Int],
         NEW c \in [1 .. n -> Int]
  PROVE  /\ ~Precedes(a, a)
         /\ Precedes(a, b) /\ Precedes(b, c) => Precedes(a, c)
         /\ a # b => Precedes(a, b) \/ Precedes(b, a)
<1>1. ~Precedes(a, a)
  BY DEF Precedes
<1>2. ASSUME Precedes(a, b), Precedes(b, c)
      PROVE  Precedes(a, c)
  <2>1. PICK i \in 1 .. n : a[i] < b[i] /\ \A j \in 1 .. i - 1 : a[j] = b[j]
    BY <1>2 DEF Precedes
  <2>2. PICK k \in 1 .. n : b[k] < c[k] /\ \A j \in 1 .. k - 1 : b[j] = c[j]
    BY <1>2 DEF Precedes
  <2>3. CASE i <= k
    <3>1. a[i] < c[i]
      <4>1. CASE i = k
        BY <2>1, <2>2, <4>1
      <4>2. CASE i < k
        BY <2>1, <2>2, <4>2
      <4> QED
        BY <2>3, <4>1, <4>2
    <3>2. \A j \in 1 .. i - 1 : a[j] = c[j]
      BY <2>1, <2>2, <2>3
    <3> QED
      BY <3>1, <3>2 DEF Precedes
  <2>4. CASE k < i
    <3>1. a[k] < c[k]
      BY <2>1, <2>2, <2>4
    <3>2. \A j \in 1 .. k - 1 : a[j] = c[j]
      BY <2>1, <2>2, <2>4
    <3> QED
      BY <3>1, <3>2 DEF Precedes
  <2> QED
    BY <2>3, <2>4
<1>3. ASSUME a # b
      PROVE  Precedes(a, b) \/ Precedes(b, a)
  <2> DEFINE differ == {i \in 1 .. n : a[i] # b[i]}
  <2>1. differ # {} /\ differ \subseteq Nat
    <3>1. (\A i \in 1 .. n : a[i] = b[i]) => a = b
      OBVIOUS
    <3>2. PICK i \in 1 .. n : a[i] # b[i]
      BY <1>3, <3>1
    <3>3. i \in differ /\ 1 .. n \subseteq Nat
      BY <3>2
    <3> QED
      BY <3>3
  <2>2. PICK i \in differ : \A j \in differ : i <= j
    <3> HIDE DEF differ
    <3> QED
      BY <2>1, LeastOf
  <2>3. \A j \in 1 .. i - 1 : a[j] = b[j]
    BY <2>2
  <2>4. a[i] < b[i] \/ b[i] < a[i]
    BY <2>2
  <2> QED
    BY <2>2, <2>3, <2>4 DEF Precedes
<1> QED
  BY <1>1, <1>2, <1>3

LEMMA SortedByOrders ==
  ASSUME NEW S, IsFiniteSet(S), NEW n \in Nat, NEW rank \in [S -> [1 .. n -> Int]],
         \A s, t \in S : rank[s] = rank[t] => s = t
  PROVE  /\ SortedBy(S, rank) \in Seq(S) /\ Len(SortedBy(S, rank)) = Cardinality(S)
         /\ \A s \in S : \E i \in 1 .. Len(SortedBy(S, rank)) : SortedBy(S, rank)[i] = s
         /\ \A i, j \in 1 .. Len(SortedBy(S, rank)) :
              i < j => Precedes(rank[SortedBy(S, rank)[i]], rank[SortedBy(S, rank)[j]])
<1> DEFINE before(s) == {t \in S : Precedes(rank[t], rank[s])}
           place == [s \in S |-> Cardinality(before(s)) + 1]
           size == Cardinality(S)
<1>1. size \in Nat
  BY FS_CardinalityType
<1>a. \A s \in S : ~Precedes(rank[s], rank[s])
  <2> SUFFICES ASSUME NEW s \in S
               PROVE  ~Precedes(rank[s], rank[s])
    OBVIOUS
  <2>1. rank[s] \in [1 .. n -> Int]
    OBVIOUS
  <2> QED
    BY <2>1, PrecedesIsAnOrder
<1>2. ASSUME NEW s \in S
      PROVE  Cardinality(before(s)) \in Nat /\ Cardinality(before(s)) < size
  <2>1. s \notin before(s)
    BY <1>a
  <2>2. before(s) \in SUBSET S /\ before(s) # S
    BY <2>1
  <2> HIDE DEF before
  <2>3. IsFiniteSet(before(s)) /\ Cardinality(before(s)) <= size
        /\ Cardinality(before(s)) # size
    BY <2>2, FS_Subset
  <2> QED
    BY <1>1, <2>3, FS_CardinalityType
<1>3. ASSUME NEW s \in S, NEW t \in S, Precedes(rank[s], rank[t])
      PROVE  Cardinality(before(s)) < Cardinality(before(t))
  <2>1. before(s) \subseteq before(t)
    BY <1>3, PrecedesIsAnOrder
  <2>2. s \in before(t) /\ s \notin before(s)
    BY <1>3, <1>a
  <2>3. before(t) \in SUBSET S
    OBVIOUS
  <2> HIDE DEF before
  <2>4. IsFiniteSet(before(t))
    BY <2>3, FS_Subset
  <2>5. /\ Cardinality(before(s)) <= Cardinality(before(t))
        /\ Cardinality(before(s)) # Cardinality(before(t))
    BY <2>1, <2>2, <2>4, FS_Subset
  <2> QED
    BY <1>2, <2>5
<1>4. place \in Injection(S, 1 .. size)
  <2>1. place \in [S -> 1 .. size]
    <3> HIDE DEF before
    <3> QED
      BY <1>1, <1>2
  <2>2. ASSUME NEW s \in S, NEW t \in S, place[s] = place[t]
        PROVE  s = t
    <3>1. Cardinality(before(s)) = Cardinality(before(t))
      <4> HIDE DEF before
      <4> QED
        BY <1>2, <2>2
    <3> SUFFICES ASSUME rank[s] # rank[t]
                 PROVE  FALSE
      OBVIOUS
    <3>2. Precedes(rank[s], rank[t]) \/ Precedes(rank[t], rank[s])
      BY PrecedesIsAnOrder
    <3> HIDE DEF before
    <3> QED
      BY <1>2, <1>3, <3>1, <3>2
  <2> HIDE DEF place
  <2> QED
    BY <2>1, <2>2 DEF Injection, IsInjective
<1>5. IsFiniteSet(1 .. size) /\ Cardinality(1 .. size) = size
  BY <1>1, FS_Interval
<1>6. place \in Surjection(S, 1 .. size)
  <2> HIDE DEF place, size
  <2> QED
    BY <1>4, <1>5, FS_Injection DEF size
<1>7. ASSUME NEW i \in 1 .. size
      PROVE  \E s \in S : Cardinality(before(s)) = i - 1
  <2>1. PICK s \in S : place[s] = i
    <3> HIDE DEF place, size
    <3> QED
      BY <1>6, <1>7 DEF Surjection
  <2> HIDE DEF before
  <2> QED
    BY <1>1, <1>2, <2>1
<1> DEFINE list == SortedBy(S, rank)
<1>8. list = [i \in 1 .. size |-> CHOOSE s \in S : Cardinality(before(s)) = i - 1]
  BY DEF SortedBy
<1>9. /\ list \in [1 .. size -> S]
      /\ \A i \in 1 .. size : Cardinality(before(list[i])) = i - 1
  <2> HIDE DEF before, size, list
  <2> QED
    BY <1>7, <1>8
<1> HIDE DEF list, size
<1>10. ASSUME NEW s \in S
       PROVE  \E i \in 1 .. size : list[i] = s
  <2>1. place[s] \in 1 .. size
    BY <1>4 DEF Injection
  <2>2. Cardinality(before(list[place[s]])) + 1 = place[s] /\ list[place[s]] \in S
    <3> HIDE DEF before, place
    <3> QED
      BY <1>1, <1>9, <2>1
  <2>3. place[list[place[s]]] = place[s]
    <3> HIDE DEF before
    <3> QED
      BY <2>2
  <2> HIDE DEF place
  <2>4. list[place[s]] = s
    BY <1>4, <2>2, <2>3 DEF Injection, IsInjective
  <2> QED
    BY <2>1, <2>4
<1>11. ASSUME NEW i \in 1 .. size, NEW j \in 1 .. size, i < j
       PROVE  Precedes(rank[list[i]], rank[list[j]])
  <2>1. list[i] \in S /\ list[j] \in S
    BY <1>9
  <2>2. Cardinality(before(list[i])) < Cardinality(before(list[j]))
    <3> HIDE DEF before
    <3> QED
      BY <1>1, <1>9, <1>11
  <2>3. rank[list[i]] # rank[list[j]]
    <3> SUFFICES ASSUME rank[list[i]] = rank[list[j]]
                 PROVE  FALSE
      OBVIOUS
    <3>1. list[i] = list[j]
      BY <2>1
    <3> HIDE DEF before
    <3> QED
      BY <1>2, <2>1, <2>2, <3>1
  <2>4. \/ Precedes(rank[list[i]], rank[list[j]])
        \/ Precedes(rank[list[j]], rank[list[i]])
    BY <2>1, <2>3, PrecedesIsAnOrder
  <2>5. ~Precedes(rank[list[j]], rank[list[i]])
    <3> HIDE DEF before
    <3> QED
      BY <1>2, <1>3, <2>1, <2>2
  <2> QED
    BY <2>4, <2>5
<1>12. list \in Seq(S) /\ Len(list) = size
  BY <1>1, <1>9
<1> QED
  BY <1>10, <1>11, <1>12 DEF list, size

LEMMA SortedByLists ==
  ASSUME NEW S, IsFiniteSet(S), NEW n \in Nat, NEW rank \in [S -> [1 .. n -> Int]],
         \A s, t \in S : rank[s] = rank[t] => s = t
  PROVE  SortedBy(S, rank) \in Seq(S) /\ Len(SortedBy(S, rank)) = Cardinality(S)
BY SortedByOrders, Zenon

================================================================================

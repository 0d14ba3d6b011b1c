------------------------------- MODULE Knapsack -------------------------------
(***************************************************************************)
(* Which items of a bundle a token budget keeps: what prompt caching pins  *)
(* (src/src/core/planner/cache-aware.ts) and what the 0/1 knapsack selects *)
(* of the rest (knapsack.ts): exactly, by dynamic programming, when there  *)
(* are few items and a small budget, else greedily by density.             *)
(*                                                                         *)
(* Values are natural numbers here and floating-point scores in the code.  *)
(***************************************************************************)
EXTENDS Integers, Sequences, FiniteSets, FiniteSetsExt, SequencesExt

CONSTANTS
  Items,         \* records of weight, value, and keep: system, preserved, constraint
  Budgets,       \* token ceilings
  Horizon,       \* prefixPinHorizonTokens
  MaxDpItems, MaxDpCapacity,   \* up to which the exact solver is used
  MaxItems       \* bound: the items of a bundle

ASSUME KnapsackAssumption ==
  /\ Items \subseteq [weight : Nat, value : Nat, keep : BOOLEAN]
  /\ Budgets \subseteq Nat
  /\ Horizon \in Nat /\ MaxDpItems \in Nat /\ MaxDpCapacity \in Nat /\ MaxItems \in Nat

VARIABLES
  items, maxTokens,   \* the input
  phase,              \* "start", "fill", "trace", "greedy", "done"
  candidates,         \* the items not pinned, in the order they are considered
  residual,           \* what the pinned ones leave of the budget
  dp,                 \* best value for each capacity, over the items seen
  bits,               \* <<item, capacity>> where the item improved it
  at,                 \* the candidate looked at
  cap,                \* capacity left while the bits are traced back
  selected            \* the candidates chosen so far

vars == <<items, maxTokens, phase, candidates, residual, dp, bits, at, cap, selected>>

input == <<items, maxTokens, candidates, residual>>

-----------------------------------------------------------------------------
All == 1..Len(items)

Weight(S) == SumFunctionOnSet([i \in All |-> items[i].weight], S)

Value(S) == SumFunctionOnSet([i \in All |-> items[i].value], S)

\* Kept for itself, or because the tokens before it do not fill the horizon.
Pinned == {i \in All : items[i].keep \/ Weight(1..(i - 1)) < Horizon}

Capacity == Max({0, maxTokens - Weight(Pinned)})

Item(n) == items[candidates[n]]

Chosen == selected \cap ToSet(candidates)

Exact(n, capacity) == n <= MaxDpItems /\ capacity <= MaxDpCapacity

Phases == {"start", "fill", "trace", "greedy", "done"}

\* The table has an entry for every capacity, and its bits are within it.
SolverTypeOK ==
  /\ items \in Seq(Items) /\ Len(items) <= MaxItems
  /\ maxTokens \in Budgets
  /\ ToSet(candidates) \subseteq All /\ IsInjective(candidates)
  /\ residual \in 0..maxTokens
  /\ dp \in [0..residual -> Nat]
  /\ bits \subseteq (1..Len(candidates)) \X (0..residual)
  /\ at \in 0..(Len(candidates) + 1)
  /\ cap \in 0..residual
  /\ selected \subseteq All

TypeOK == SolverTypeOK /\ phase \in Phases

Init ==
  /\ items \in BoundedSeq(Items, MaxItems)
  /\ maxTokens \in Budgets
  /\ phase = "start"
  /\ candidates = <<>>
  /\ residual = 0
  /\ dp = [c \in {0} |-> 0]
  /\ bits = {}
  /\ at = 1
  /\ cap = 0
  /\ selected = {}

-----------------------------------------------------------------------------
PassThrough ==
  /\ phase = "start"
  /\ Weight(All) <= maxTokens
  /\ selected' = All
  /\ phase' = "done"
  /\ UNCHANGED <<input, dp, bits, at, cap>>

\* The elements of S in the order of R.
Ordered(S, R) ==
  CHOOSE s \in SetToSeqs(S) : \A m \in 1..Cardinality(S) : \A n \in 1..(m - 1) : <<s[n], s[m]>> \in R

ByPlace == {p \in All \X All : p[1] < p[2]}

\* The density order of the greedy solver, by value among equals; it is stable.
Denser(i, j) ==
  LET left  == items[i].value * Max({1, items[j].weight})
      right == items[j].value * Max({1, items[i].weight})
  IN \/ left > right
     \/ left = right /\ items[i].value > items[j].value
     \/ left = right /\ items[i].value = items[j].value /\ i < j

ByDensity == {p \in All \X All : Denser(p[1], p[2])}

Choose ==
  /\ phase = "start"
  /\ Weight(All) > maxTokens
  /\ LET unpinned == All \ Pinned
         exact    == Exact(Cardinality(unpinned), Capacity)
     IN /\ selected' = Pinned
        /\ residual' = Capacity
        /\ candidates' = IF exact THEN Ordered(unpinned, ByPlace) ELSE Ordered(unpinned, ByDensity)
        /\ dp' = [c \in 0..Capacity |-> 0]
        /\ cap' = Capacity
        /\ phase' = IF Capacity = 0 \/ unpinned = {} THEN "done"
                    ELSE IF exact THEN "fill" ELSE "greedy"
  /\ UNCHANGED <<items, maxTokens, bits, at>>

\* Mutant: the row is filled upwards, so that an item is taken more than once.
Taken_Upwards(c) ==
  LET n == Item(at)
  IN Max({dp[c - k * n.weight] + k * n.value :
            k \in {x \in 1..MaxDpCapacity : x * n.weight <= c}})

Taken(c) == dp[c - Item(at).weight] + Item(at).value

\* Taking the item beats the best without it.
Better(c) == Item(at).weight <= c /\ Taken(c) > dp[c]

\* One row, from the largest capacity down: each entry reads entries of the last row.
FillRow ==
  /\ phase = "fill"
  /\ at <= Len(candidates)
  /\ dp' = [c \in DOMAIN dp |-> IF Better(c) THEN Taken(c) ELSE dp[c]]
  /\ bits' = bits \cup {<<at, c>> : c \in {x \in DOMAIN dp : Better(x)}}
  /\ at' = at + 1
  /\ UNCHANGED <<input, phase, cap, selected>>

EndFill ==
  /\ phase = "fill"
  /\ at > Len(candidates)
  /\ phase' = "trace"
  /\ at' = Len(candidates)
  /\ UNCHANGED <<input, dp, bits, cap, selected>>

\* Mutant: the capacity is not reduced by what was taken.
Left_Same == cap

Left == cap - Item(at).weight

TraceBack ==
  /\ phase = "trace"
  /\ at > 0
  /\ \/ /\ <<at, cap>> \in bits
        /\ selected' = selected \cup {candidates[at]}
        /\ cap' = Left
     \/ <<at, cap>> \notin bits /\ UNCHANGED <<selected, cap>>
  /\ at' = at - 1
  /\ UNCHANGED <<input, phase, dp, bits>>

EndTrace ==
  /\ phase = "trace"
  /\ at = 0
  /\ phase' = "done"
  /\ UNCHANGED <<input, dp, bits, at, cap, selected>>

Fits(w) == w <= residual

\* An item that does not fit is passed over, not the end.
TakeDensest ==
  /\ phase = "greedy"
  /\ at <= Len(candidates)
  /\ selected' = IF Fits(Weight(Chosen) + Item(at).weight)
                   THEN selected \cup {candidates[at]} ELSE selected
  /\ at' = at + 1
  /\ UNCHANGED <<input, phase, dp, bits, cap>>

\* Mutant: the greedy choice stands.
Guarded_Never(chosen) == chosen

\* The most valuable of the items that fit, the first of equals, if it beats them all.
Guarded(chosen) ==
  LET fitting == {i \in ToSet(candidates) : Fits(items[i].weight)}
      best    == CHOOSE i \in fitting : \A o \in fitting :
                   \/ items[i].value > items[o].value
                   \/ items[i].value = items[o].value /\ i <= o
  IN IF fitting # {} /\ items[best].value > Value(chosen) THEN {best} ELSE chosen

EndGreedy ==
  /\ phase = "greedy"
  /\ at > Len(candidates)
  /\ selected' = (selected \ Chosen) \cup Guarded(Chosen)
  /\ phase' = "done"
  /\ UNCHANGED <<input, dp, bits, at, cap>>

Next ==
  \/ PassThrough \/ Choose
  \/ FillRow \/ EndFill \/ TraceBack \/ EndTrace
  \/ TakeDensest \/ EndGreedy

Spec == Init /\ [][Next]_vars

-----------------------------------------------------------------------------
(* Properties.                                                             *)

\* The reference: the best value of any set of candidates within the budget.
Optimum ==
  Max({Value(S) : S \in {T \in SUBSET ToSet(candidates) : Weight(T) <= residual}})

Selecting == phase = "done" /\ Weight(All) > maxTokens

\* Whatever is pinned is kept, and what is added to it fits in what the pinned
\* items leave of the budget: a bundle is over its ceiling only if its pinned items
\* alone are (knapsack.ts:135-209).
WithinBudget ==
  Selecting => /\ Pinned \subseteq selected
               /\ Weight(selected) <= Max({maxTokens, Weight(Pinned)})

\* The bits lead back to an optimal choice, the one whose value the table gives.
ExactIsOptimal ==
  Selecting /\ Exact(Len(candidates), residual) /\ residual > 0
    => Value(Chosen) = Optimum /\ dp[residual] = Optimum

\* The comment on the greedy solver: comparing with the best single item makes it a
\* 1/2-approximation.
GreedyIsHalf ==
  Selecting /\ ~Exact(Len(candidates), residual) /\ residual > 0 => 2 * Value(Chosen) >= Optimum
=============================================================================

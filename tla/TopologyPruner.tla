---------------------------- MODULE TopologyPruner ----------------------------
(***************************************************************************)
(* The stage pruning:topology-pruner: asks git which files are being       *)
(* edited, measures how far every other file is from those over the        *)
(* imports, scores the items by that, and lets the knapsack choose what to *)
(* keep of a bundle that is over its ceiling.                              *)
(*                                                                         *)
(* A file has two spellings. Git names it from the root of the repository; *)
(* an item has the path its host gave it, which the command line makes     *)
(* absolute. The graph of imports is one of paths as the items spell them, *)
(* the search in it begins at paths as git spells them, and only when a    *)
(* score is looked up is the item's path cut down to git's spelling.       *)
(***************************************************************************)
EXTENDS Knapsack, GitInspector

CONSTANTS
  FromRoot,   \* path -> the path as git spells it
  Specs,      \* what an import may name, resolved as its file is spelled
  Tries,      \* specifier -> the paths it may stand for, in the order of trying
  Imports,    \* the imports files may have: functions path -> set of specifiers
  Bundles,    \* sequences of records of path, kind, weight, directive, protected
  NoPath      \* the path of an item that has none

ASSUME TopologyAssumption ==
  /\ IsFiniteSet(Paths)
  /\ NoPath \notin Paths
  /\ FromRoot \in [Paths -> Paths] /\ \A p \in Files : FromRoot[p] = p
  /\ Tries \in [Specs -> Seq(Paths)]
  /\ Imports \subseteq [Paths -> SUBSET Specs]
  /\ Bundles \subseteq Seq([path : Paths \cup {NoPath}, weight : Nat,
                           kind : {"prompt", "conversation", "file", "diff", "log"},
                           directive : BOOLEAN, protected : BOOLEAN])

VARIABLES
  bundle,     \* the items, in order
  imports,    \* what each file imports
  distance,   \* path -> how far it is from an edited file, as far as known
  queue, head \* the paths to look at next, and the first of them

searchVars == <<bundle, imports, distance, queue, head>>

topologyVars == <<vars, gitVars, searchVars>>

-----------------------------------------------------------------------------
(* The dependency graph.                                                   *)

Known == {bundle[i].path : i \in DOMAIN bundle} \ {NoPath}

\* The first path a specifier may stand for that is in the bundle.
Resolved(spec) ==
  LET hits == {n \in DOMAIN Tries[spec] : Tries[spec][n] \in Known}
  IN IF hits = {} THEN {} ELSE {Tries[spec][Min(hits)]}

Edges(p) == UNION {Resolved(s) : s \in imports[p]} \ {p}

\* Imported by p, or importing it.
Neighbours(p) ==
  IF p \notin Known THEN {} ELSE {q \in Known : q \in Edges(p) \/ p \in Edges(q)}

-----------------------------------------------------------------------------
(* Scores.                                                                 *)

\* The path under which git's answer and the distances know the item.
LookedUp(e) == IF e.path = NoPath THEN NoPath ELSE FromRoot[e.path]

\* Mutant: what the search did not reach is taken for far away.
GraphScore_Far(p) == IF p \in DOMAIN distance THEN Max({10, 40 - 10 * distance[p]}) ELSE 10

\* Three imports or more are all the same; not reached at all is less.
GraphScore(p) ==
  CASE p \notin DOMAIN distance -> 5
    [] p \in DOMAIN distance -> Max({10, 40 - 10 * distance[p]})

GitScore(p) ==
  CASE p \in status.allDirtyFiles -> 30
    [] p \in status.recentCommitFiles \ status.allDirtyFiles -> 15
    [] OTHER -> 0

KindScore(kind) ==
  CASE kind = "prompt" -> 30 [] kind = "conversation" -> 20 [] kind = "file" -> 15
    [] kind = "diff" -> 10 [] OTHER -> 5

Score(e) ==
  Min({100, GraphScore(LookedUp(e)) + GitScore(LookedUp(e)) + KindScore(e.kind) + (IF e.directive THEN 25 ELSE 0)})

\* What the knapsack is given: an item holding a directive is pinned like one of a
\* preserved kind or of role system.
Scored(e) == [weight |-> e.weight, value |-> Score(e), keep |-> e.protected \/ e.directive]

-----------------------------------------------------------------------------
SearchInit ==
  /\ bundle \in Bundles
  /\ imports \in Imports
  /\ distance = [p \in {} |-> 0] /\ queue = <<>> /\ head = 1

TopologyInit ==
  /\ GitInit
  /\ SearchInit
  /\ items = <<>>
  /\ maxTokens \in Budgets
  /\ phase = "inspect"
  /\ candidates = <<>> /\ residual = 0 /\ dp = [c \in {0} |-> 0] /\ bits = {}
  /\ at = 1 /\ cap = 0 /\ selected = {}

\* Git is inspected by every run of the stage; the last answer is the one used.
AskGit == phase = "inspect" /\ Asking /\ UNCHANGED <<vars, searchVars>>

InspectAgain == phase = "inspect" /\ Inspected /\ UNCHANGED <<vars, searchVars>>

TimePasses == phase = "inspect" /\ GitNext /\ UNCHANGED <<vars, searchVars>>

\* The search begins at the edited files.
InspectGit ==
  /\ phase = "inspect"
  /\ Inspected
  /\ distance' = [p \in status'.allDirtyFiles |-> 0]
  /\ queue' = SetToSeq(status'.allDirtyFiles)
  /\ phase' = "search"
  /\ UNCHANGED <<items, maxTokens, candidates, residual, dp, bits, at, cap, selected, bundle, imports, head>>

\* Mutant: the path found last is looked at first.
Found_First(new) == SubSeq(queue, 1, head) \o SetToSeq(new) \o SubSeq(queue, head + 1, Len(queue))

Found(new) == queue \o SetToSeq(new)

Visit ==
  /\ phase = "search"
  /\ head <= Len(queue)
  /\ LET p   == queue[head]
         new == Neighbours(p) \ DOMAIN distance
     IN /\ distance' = [q \in DOMAIN distance \cup new |-> IF q \in new THEN distance[p] + 1 ELSE distance[q]]
        /\ queue' = Found(new)
  /\ head' = head + 1
  /\ UNCHANGED <<vars, gitVars, bundle, imports>>

ScoreItems ==
  /\ phase = "search"
  /\ head > Len(queue)
  /\ items' = [i \in DOMAIN bundle |-> Scored(bundle[i])]
  /\ phase' = "start"
  /\ UNCHANGED <<maxTokens, candidates, residual, dp, bits, at, cap, selected, gitVars, searchVars>>

\* The knapsack, as in its own module, and the bundle is what it selected.
Solve == Next /\ UNCHANGED <<gitVars, searchVars>>

TopologyNext == AskGit \/ InspectAgain \/ TimePasses \/ InspectGit \/ Visit \/ ScoreItems \/ Solve

TopologySpec == TopologyInit /\ [][TopologyNext]_topologyVars

-----------------------------------------------------------------------------
(* Properties.                                                             *)

TopologyTypeOK ==
  /\ GitTypeOK
  /\ SolverTypeOK
  /\ phase \in Phases \cup {"inspect", "search"}
  /\ bundle \in Bundles /\ imports \in Imports
  /\ DOMAIN distance \subseteq Paths /\ \A p \in DOMAIN distance : distance[p] \in Nat
  /\ queue \in Seq(Paths) /\ head \in 1..(Len(queue) + 1)

\* The paths at most n steps away from an edited file, each step to a path around.
Within(around) ==
  LET near[n \in 0..Cardinality(Paths)] ==
        IF n = 0 THEN status.allDirtyFiles
        ELSE LET last == near[n - 1] IN last \cup UNION {around[p] : p \in last}
  IN near

\* One search from all edited files at once finds every path that is connected, in
\* the graph as it is spelled, to one git named, and its distance to the nearest,
\* whichever way the imports lead (dependency-graph.ts:303-352).
ShortestDistances ==
  phase = "start" =>
    LET near == Within([p \in Paths |-> Neighbours(p)])
    IN \A p \in Paths : \A n \in DOMAIN near :
         p \in near[n] <=> p \in DOMAIN distance /\ distance[p] <= n

\* How far an item is for its score: edited, one import away, two, more, not reached.
Grade(e) ==
  LET p == LookedUp(e) IN IF p \in DOMAIN distance THEN Min({3, distance[p]}) ELSE 4

\* Of two items alike in kind and weight that are not pinned, the one found nearer to
\* an edited file is not the one to go: three imports away is nearer than not
\* connected at all, and an edited file nearer than any, however its host spells it
\* (topology-scorer.ts:86-136, topology-pruner.ts:45-60). Recent commits may outweigh
\* the distance.
NearerIsKept ==
  Selecting =>
    \A i \in selected \ Pinned, j \in All \ selected :
      /\ bundle[i].weight = bundle[j].weight /\ bundle[i].kind = bundle[j].kind
      /\ LookedUp(bundle[i]) \notin status.recentCommitFiles \ status.allDirtyFiles
      => Grade(bundle[i]) <= Grade(bundle[j])

\* No directive and no system prompt is pruned, however little the ceiling leaves
\* (cache-aware.ts:53-66).
ProtectedIsKept ==
  phase = "done" => {i \in DOMAIN bundle : bundle[i].directive \/ bundle[i].protected} \subseteq selected

\* The pruner's choice keeps what it must, and goes over its ceiling only by what it
\* must (topology-pruner.ts:56-64).
ChoiceIsLegal == WithinBudget /\ ProtectedIsKept
=============================================================================

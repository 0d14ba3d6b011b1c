--------------------------- MODULE MCTopologyPruner ---------------------------
(***************************************************************************)
(* Four files whose imports form a tree, a cycle, a line or nothing, two   *)
(* specifiers that could name two of them, and three states of the working *)
(* tree. The paths 1 to 4 are as git spells them, 11 to 14 the same files  *)
(* as absolute paths. Items are light or heavy files, or logs, and a       *)
(* bundle spells all of them one way.                                      *)
(***************************************************************************)
EXTENDS TopologyPruner, TLC

MCFiles == 1..4
MCPaths == MCFiles \cup 11..14
MCFromRoot == [p \in MCPaths |-> p % 10]
MCSpecs == {"a", "b", "c", "d", "none"} \X {0, 10}

\* A specifier is resolved beside the file it stands in: spelled like it.
MCTries ==
  [s \in MCSpecs |-> LET tries == CASE s[1] = "a" -> <<1>> [] s[1] = "b" -> <<2, 1>> [] s[1] = "c" -> <<3, 4>>
                                   [] s[1] = "d" -> <<4>> [] OTHER -> <<>>
                     IN [n \in DOMAIN tries |-> tries[n] + s[2]]]
MCImports ==
  {[p \in MCPaths |-> files[p % 10] \X {p - (p % 10)}] :
     files \in {<<{"d"}, {"c"}, {"d"}, {"none"}>>, <<{}, {"a"}, {"a", "b"}, {"c"}>>, <<{}, {"a"}, {"b"}, {"c"}>>,
               <<{}, {}, {}, {"none"}>>}}
MCTrees ==
  {[codes |-> <<<<"M", " ">>, <<"?", "?">>, <<" ", " ">>, <<" ", " ">>>>, recent |-> {3}],
   [codes |-> <<<<" ", " ">>, <<" ", " ">>, <<" ", " ">>, <<" ", "M">>>>, recent |-> {4}],
   [codes |-> <<<<" ", " ">>, <<" ", " ">>, <<" ", " ">>, <<" ", " ">>>>, recent |-> {3, 4}]}
MCItems == [weight : 0..6, value : 0..100, keep : BOOLEAN]

File(p, w) == [path |-> p, kind |-> "file", weight |-> w, directive |-> FALSE, protected |-> FALSE]
Log(w, must) == [path |-> 0, kind |-> "log", weight |-> w, directive |-> must, protected |-> FALSE]
First == {File(1, 1), File(1, 4), [Log(2, FALSE) EXCEPT !.protected = TRUE]}
Second == {File(2, 2), Log(2, TRUE)}
Third == {File(3, 2), File(3, 1)}
Fourth == {File(4, 2), File(4, 5), Log(0, FALSE)}
Relative ==
  {<<a, b>> : a \in First, b \in Second} \cup {<<a, b, c>> : a \in First, b \in Second, c \in Third}
    \cup {<<a, b, c, d>> : a \in First, b \in Second, c \in Third, d \in Fourth}

\* As the command line gives them.
Absolute ==
  {[i \in DOMAIN b |-> [b[i] EXCEPT !.path = IF @ = 0 THEN 0 ELSE 10 + @]] : b \in {r \in Relative : Len(r) = 4 /\ r[4] = File(4, 2)}}

\* One whose file 1 is three imports away from file 4, and a file without a path.
Stray == [Log(1, FALSE) EXCEPT !.kind = "file"]
MCBundles == Relative \cup Absolute \cup {<<File(4, 2), Stray, File(1, 1), File(2, 2), File(3, 2)>>}

\* Files are edited and time passes, in units of half a second, before and while git is
\* asked on behalf of one bundle; for the others git is asked once.
Unhurried ==
  /\ asking.spent = 0
  /\ \A t \in Trees \ {tree} : current[t] = Longest
  /\ \A key \in DOMAIN cache : phase # "inspect" /\ cache[key].age = 0

OnTheClock == phase = "inspect" /\ bundle = <<File(1, 1), Log(2, TRUE)>> /\ maxTokens = 1 /\ imports[1] = {<<"d", 0>>}

Bounded == Unhurried \/ OnTheClock
=============================================================================

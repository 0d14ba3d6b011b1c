---------------------------- MODULE MCMcpServer -----------------------------
(* The tools use three blocks, two of which share a ref; lines of every kind,  *)
(* some of them in several parts, of which one more than MaxBuffer makes them  *)
(* too long.  While no line comes the hasher is used by itself, as by a host   *)
(* without a server: seven blocks, of which four share a ref and two another,  *)
(* registered in every order, and the tables cleared.                          *)
EXTENDS McpServer, TLC

CONSTANTS a1, a2, a3, a4, b1, b2, c1, a, b, c

MCHashes == {a1, a2, a3, a4, b1, b2, c1}
MCRefOf == a1 :> a @@ a2 :> a @@ a3 :> a @@ a4 :> a @@ b1 :> b @@ b2 :> b @@ c1 :> c

Plain(kind, sizes) == [kind : {kind}, size : sizes, arg : {a}]

MCLines == UNION {Plain(k, {1}) : k \in {"blank", "malformed", "notification", "badVersion",
                                         "badMethod", "unknown", "badBudget"}}
             \cup Plain("list", {1, 3}) \cup Plain("rehydrate", {1, 2})
             \cup [kind : {"optimize"}, size : {1}, arg : {a1, a2}]
             \cup [kind : {"optimize"}, size : {3}, arg : {b1}]

\* Up to two lines of any kind, three of at most five parts together of those whose order
\* or framing can tell a difference, or four tool calls of one part each about one block.
Framed == {l \in MCLines : l.kind \in {"blank", "malformed", "list", "optimize", "badBudget", "rehydrate"}}
Parts(input) == FoldSeq(LAMBDA l, n : n + l.size, 0, input)
MCInputs == BoundedSeq(MCLines, 2) \cup {input \in BoundedSeq(Framed, 3) : Parts(input) <= 5}
              \cup BoundedSeq({l \in MCLines : l.size = 1 /\ l.arg # a2
                                         /\ l.kind \in {"optimize", "badBudget", "rehydrate"}}, 4)

HasherAlone ==
  /\ lines = <<>> /\ process = "running" /\ listening
  /\ Next
  /\ UNCHANGED <<stream, buffer, draining, jobs, written, output, traces>>

MCSpec == McpInit /\ [][McpNext \/ HasherAlone]_mcpVars
=============================================================================

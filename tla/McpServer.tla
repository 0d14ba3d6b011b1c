------------------------------ MODULE McpServer ------------------------------
(***************************************************************************)
(* The MCP server (src/src/adapters/mcp): it reads JSON-RPC lines from     *)
(* standard input in chunks, answers on standard output, and leaves when   *)
(* the input ends or at a signal (src/src/cli/main.ts:74-137).  Its tools  *)
(* share one TokenHasher, for as long as the process lives.                *)
(*                                                                         *)
(* A data event is handled without interruption: Data, then HandleLine for *)
(* each complete line, then EndDrain.  The handlers are asynchronous only  *)
(* in form: they do their work at once, and their answers are written by   *)
(* the microtask queue, some microtasks later.                             *)
(***************************************************************************)
EXTENDS TokenHasher

CONSTANTS
  Inputs,          \* what a client may send: sequences of lines
  MaxBuffer,       \* parts of an unfinished line that are kept (MAX_BUFFER_SIZE)
  TraceCapacity,   \* TRACE_STORE_CAPACITY
  MaxSize          \* bound: the parts of a line, its newline in the last

Kinds == {"blank", "malformed", "notification", "badVersion", "badMethod",
          "list", "unknown", "optimize", "badBudget", "rehydrate"}

\* arg: the block an optimize_context elides, the ref a rehydrate_context is given.
\* "badBudget" is an optimize_context whose maxInputTokens is a number, but no budget.
Line == [kind : Kinds, size : 1..MaxSize, arg : Hashes \cup Refs]

ASSUME McpAssumption ==
  /\ Inputs \subseteq Seq(Line)
  /\ \A input \in Inputs : \A n \in 1..Len(input) :
       /\ input[n].kind = "optimize"  => input[n].arg \in Hashes
       /\ input[n].kind = "rehydrate" => input[n].arg \in Refs
  /\ MaxBuffer \in Nat /\ TraceCapacity \in Nat /\ MaxSize \in Nat
  \* The text of a block is no status of an answer.
  /\ {"error", "ok", "marker", "original"} \cap (Hashes \cup {None}) = {}

VARIABLES
  lines,      \* what this client sends, unless it stops earlier
  unread,     \* the parts of them not received yet, each <<line, part>>
  buffer,     \* parts received and not consumed
  listening,  \* the data handler is installed
  draining,   \* a data event is being handled
  jobs,       \* the microtask queue: answers to be written
  written,    \* answers written to standard output
  flushed,    \* how many of them the operating system has taken
  process,    \* "running", "closing" after a signal, "exited", "killed"
  traces      \* the trace store: the optimizations kept, oldest first

mcpVars == <<lines, unread, buffer, listening, draining, jobs, written, flushed,
             process, traces, vars>>

hasher == vars
stream == <<lines, unread, listening>>
output == <<flushed, process>>

\* id: whether it carries the id of its line, or null.
Answer == [line : Nat, id : BOOLEAN,
           result : {"error", "ok", "marker", "original"} \cup Hashes \cup {None}]

PartsOf(input) == FlattenSeq([n \in 1..Len(input) |-> [p \in 1..input[n].size |-> <<n, p>>]])

Sent == 1..Len(lines)

EndsLine(part) == part[2] = lines[part[1]].size

\* The caches and queues of the server, and the hasher it owns.
McpTypeOK ==
  /\ TypeOK
  /\ lines \in Seq(Line)
  /\ \A part \in ToSet(buffer) \cup ToSet(unread) :
       part[1] \in Sent /\ part[2] \in 1..lines[part[1]].size
  /\ ~draining => Len(buffer) <= MaxBuffer /\ ~\E i \in 1..Len(buffer) : EndsLine(buffer[i])
  /\ listening \in BOOLEAN /\ draining \in BOOLEAN
  /\ jobs \in Seq([ticks : 1..4, answer : Answer])
  /\ written \in Seq(Answer)
  /\ flushed \in 0..Len(written)
  /\ process \in {"running", "closing", "exited", "killed"}
  /\ ToSet(traces) \subseteq 1..Len(lines) /\ Len(traces) <= TraceCapacity

-----------------------------------------------------------------------------
McpInit ==
  /\ Init
  /\ lines \in Inputs
  /\ unread = PartsOf(lines)
  /\ buffer = <<>>
  /\ listening = TRUE
  /\ draining = FALSE
  /\ jobs = <<>>
  /\ written = <<>>
  /\ flushed = 0
  /\ process = "running"
  /\ traces = <<>>

Alive == process \in {"running", "closing"}

\* Mutant: the limit is applied before the complete lines are taken out.
Buffered_LimitFirst(chunk) ==
  IF Len(buffer \o chunk) > MaxBuffer THEN <<>> ELSE buffer \o chunk

Buffered(chunk) == buffer \o chunk

Data ==
  /\ Alive /\ listening /\ ~draining
  /\ \E k \in 1..Len(unread) :
       /\ buffer' = Buffered(SubSeq(unread, 1, k))
       /\ unread' = SubSeq(unread, k + 1, Len(unread))
  /\ draining' = TRUE
  /\ UNCHANGED <<lines, listening, jobs, written, output, traces, hasher>>

\* Mutant: an optimization that awaits something.
Ticks_SlowOptimize(kind) ==
  CASE kind = "rehydrate" -> 3
    [] kind = "optimize"  -> 5
    [] kind = "badBudget" -> 5
    [] kind = "unknown"   -> 2
    [] OTHER              -> 1

\* Microtasks between the return of the request handler and its answer: a rejection
\* passes through then() to catch(), and a tool call's own promise is adopted first.
Ticks(kind) ==
  CASE kind \in {"optimize", "rehydrate"} -> 3
    [] kind = "badBudget"                 -> 4
    [] kind = "unknown"                   -> 2
    [] OTHER                              -> 1

Enqueue(n, result) ==
  /\ jobs' = Append(jobs, [ticks  |-> Ticks(lines[n].kind),
                           answer |-> [line |-> n, id |-> TRUE, result |-> result]])
  /\ UNCHANGED written

Write(n, withId) ==
  /\ written' = Append(written, [line |-> n, id |-> withId, result |-> "error"])
  /\ UNCHANGED jobs

Traced(kept) == IF Len(kept) > TraceCapacity THEN Tail(kept) ELSE kept

\* Elision registers the block; the engine falls back to the original unless its
\* marker resolves then.  It may also find nothing to elide, or reject what it did.
Optimize(n) ==
  /\ \/ /\ RegisterBlock(lines[n].arg)
        /\ \/ Resolve(RefOf[lines[n].arg])' # None /\ Enqueue(n, "marker")
           \/ Enqueue(n, "original")
     \/ UNCHANGED hasher /\ Enqueue(n, "original")
  /\ traces' = Traced(Append(traces, n))

Rehydrate(n) ==
  /\ Enqueue(n, Resolve(lines[n].arg))
  /\ UNCHANGED <<hasher, traces>>

\* A line that is no request: answered at once, or not at all.
Reject(n, kind) ==
  /\ \/ kind = "malformed" /\ Write(n, FALSE)
     \/ kind \in {"badVersion", "badMethod"} /\ Write(n, TRUE)
     \/ kind \in {"blank", "notification"} /\ UNCHANGED <<jobs, written>>
  /\ UNCHANGED <<hasher, traces>>

\* The first newline ends a line; the tail of one whose head was dropped does not
\* parse, if anything is left of it.
HandleLine ==
  /\ draining
  /\ UNCHANGED <<stream, draining, output>>
  /\ \E k \in 1..Len(buffer), n \in Sent :
       /\ buffer[k] = <<n, lines[n].size>> /\ \A i \in 1..(k - 1) : ~EndsLine(buffer[i])
       /\ buffer' = SubSeq(buffer, k + 1, Len(buffer))
       /\ \E kind \in IF buffer[1] = <<n, 1>> THEN {lines[n].kind} ELSE {"malformed", "blank"} :
            \/ kind = "optimize" /\ Optimize(n)
            \/ kind = "rehydrate" /\ Rehydrate(n)
            \/ /\ kind \in {"list", "unknown", "badBudget"}
               /\ Enqueue(n, IF kind = "list" THEN "ok" ELSE "error")
               /\ UNCHANGED <<hasher, traces>>
            \/ Reject(n, kind)

\* Only what has no newline yet is judged by the limit.
EndDrain ==
  /\ draining
  /\ \A i \in 1..Len(buffer) : ~EndsLine(buffer[i])
  /\ draining' = FALSE
  /\ \/ Len(buffer) <= MaxBuffer /\ UNCHANGED <<buffer, written, jobs>>
     \/ Len(buffer) > MaxBuffer /\ buffer' = <<>> /\ Write(Last(buffer)[1], FALSE)
  /\ UNCHANGED <<stream, output, traces, hasher>>

RunJob ==
  /\ Alive /\ ~draining
  /\ jobs # <<>>
  /\ LET job == Head(jobs)
     IN \/ /\ job.ticks = 1
           /\ written' = Append(written, job.answer)
           /\ jobs' = Tail(jobs)
        \/ /\ job.ticks > 1
           /\ jobs' = Append(Tail(jobs), [job EXCEPT !.ticks = @ - 1])
           /\ UNCHANGED written
  /\ UNCHANGED <<stream, buffer, draining, output, traces, hasher>>

-----------------------------------------------------------------------------
(* The end of the process.  Signals, timers and the completion of writes are  *)
(* events, between which the microtask queue is emptied.                       *)

Idle == Alive /\ ~draining /\ jobs = <<>>

EndInput ==
  /\ Idle /\ listening
  /\ listening' = FALSE
  /\ UNCHANGED <<lines, unread, buffer, draining, jobs, written, output, traces, hasher>>

\* The handlers of the signals are removed by the first: the second one kills.
Signal ==
  /\ Idle
  /\ process' = IF process = "running" THEN "closing" ELSE "killed"
  /\ listening' = FALSE
  /\ UNCHANGED <<lines, unread, buffer, draining, jobs, written, flushed, traces, hasher>>

Flush ==
  /\ Idle
  /\ flushed < Len(written)
  /\ flushed' = flushed + 1
  /\ UNCHANGED <<stream, buffer, draining, jobs, written, process, traces, hasher>>

\* Mutant: the exit follows stop() at once.
Drained_Immediately == TRUE

\* The callback of an empty write comes after everything written before it.
Drained == flushed = Len(written)

\* With the output drained: at a signal, or when the input has ended and nothing
\* keeps the process alive.
Exit ==
  /\ Idle /\ ~listening
  /\ Drained
  /\ process' = "exited"
  /\ UNCHANGED <<stream, buffer, draining, jobs, written, flushed, traces, hasher>>

\* Two seconds after the signal a client that does not read is left behind.
CapExpires ==
  /\ Idle /\ process = "closing"
  /\ process' = "killed"
  /\ UNCHANGED <<stream, buffer, draining, jobs, written, flushed, traces, hasher>>

McpNext ==
  \/ Data \/ HandleLine \/ EndDrain \/ RunJob
  \/ EndInput \/ Signal \/ Flush \/ Exit \/ CapExpires

McpSpec == McpInit /\ [][McpNext]_mcpVars

-----------------------------------------------------------------------------
(* Properties.                                                             *)

\* Answers given or under way.
Answers == ToSet(written) \cup {job.answer : job \in ToSet(jobs)}

Given(n, withId) ==
  LET mine(a) == a.line = n /\ a.id = withId
  IN Cardinality({i \in 1..Len(written) : mine(written[i])})
       + Cardinality({i \in 1..Len(jobs) : mine(jobs[i].answer)})

\* All of a line within the limit has come.
Received(n) == lines[n].size <= MaxBuffer + 1 /\ <<n, lines[n].size>> \notin ToSet(unread)

\* A line within the limit, completely received, is answered exactly once if it
\* asks for an answer and never otherwise, however the input is cut into chunks and
\* whatever comes before it; one over the limit is never answered twice by its id
\* (OX-L7, server.ts:58-66).
AnsweredOnce ==
  \A n \in Sent :
    /\ Given(n, TRUE) <= 1
    /\ Received(n) /\ <<n, lines[n].size>> \notin ToSet(buffer)
         => /\ Given(n, TRUE) = IF lines[n].kind \in {"blank", "malformed", "notification"}
                                  THEN 0 ELSE 1
            /\ Given(n, FALSE) = IF lines[n].kind = "malformed" THEN 1 ELSE 0

IsTool(n) == lines[n].kind \in {"optimize", "badBudget", "rehydrate"}

\* The handler of the call throws (validateBudget), so its promise is rejected.
Throws(n) == lines[n].kind = "badBudget"

MayOvertake(later, n) == Throws(n) /\ ~Throws(later)

\* A client that sends several tool calls gets their answers in the order of the
\* calls, except that the error of one that throws takes a microtask more and may
\* be overtaken by the results of later calls.  No result is overtaken, by a result
\* or by an error, and no error by another error
\* (server.ts:171-187, tools.ts:227).
ToolAnswersInOrder ==
  \A i, j \in 1..Len(written) :
    (i < j /\ IsTool(written[i].line) /\ IsTool(written[j].line) /\ written[i].id /\ written[j].id)
      => \/ written[i].line < written[j].line
         \/ MayOvertake(written[i].line, written[j].line)

\* A marker that an optimization put into its answer stands for its block in every
\* later request: rehydration gives that block back, or nothing, and nothing only
\* once a block with the same ref has come (tools.ts:236, 280).
MarkersRestore ==
  \A given, asked \in Answers :
    (/\ given.result = "marker"
     /\ lines[asked.line].kind = "rehydrate" /\ asked.id
     /\ given.line < asked.line
     /\ RefOf[lines[given.line].arg] = lines[asked.line].arg)
      => \/ asked.result = lines[given.line].arg
         \/ asked.result = None /\ Cardinality({h \in store : RefOf[h] = lines[asked.line].arg}) > 1

\* Unless it is killed or its client does not read, the process delivers an answer
\* to every request it has completely received before it exits (OX-L8,
\* src/src/cli/main.ts:88-137).
ExitLosesNothing ==
  process = "exited" =>
    \A n \in Sent :
      (Received(n) /\ lines[n].kind \notin {"blank", "notification"})
        => \E i \in 1..flushed : written[i].line = n
=============================================================================

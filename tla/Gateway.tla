------------------------------- MODULE Gateway -------------------------------
(***************************************************************************)
(* The life of the gateway's HTTP requests (src/src/gateway/server.ts and  *)
(* the first part of proxy.ts): admission, the upstream call with its      *)
(* time-to-first-byte timer, and the relay of the answer under             *)
(* backpressure, while clients hang up, upstreams stall, fail or redirect, *)
(* and the server is stopped.                                              *)
(*                                                                         *)
(* A handler runs from one await to the next without interleaving; an      *)
(* action is one such stretch, or an event the handler did not cause.      *)
(* What happens to the chat between BodyEnds and the upstream call is the  *)
(* subject of GatewayTurn and BodySplice.                                  *)
(***************************************************************************)
EXTENDS Integers, Sequences, FiniteSets, FiniteSetsExt

CONSTANTS
  Requests,    \* the requests that may arrive
  Scenarios,   \* the configuration of a server, and what each request to it is
  HighWater,   \* chunks a response buffers before write() returns false
  MaxChunks    \* bound: the chunks of an upstream body

Config == [loopbackBind : BOOLEAN, token : BOOLEAN, openRelay : BOOLEAN,
           badUpstream : BOOLEAN, insecureUpstream : BOOLEAN,
           mock : BOOLEAN, keyless : BOOLEAN]

\* foreign: a browser's foreign Origin, or a Host that is not this server's;
\* local: a loopback peer; token, creds: the gateway's and the upstream's keys.
Ask == [foreign : BOOLEAN, local : BOOLEAN, token : BOOLEAN,
        post : BOOLEAN, creds : BOOLEAN, stream : BOOLEAN,
        route : {"health", "chat", "other"},
        body  : {"chat", "bytes", "invalid", "contentless", "huge"}]

ASSUME GatewayAssumption ==
  /\ \A s \in Scenarios : /\ s = [config |-> s.config, ask |-> s.ask]
                          /\ s.config \in Config
                          /\ DOMAIN s.ask \subseteq Requests
                          /\ \A r \in DOMAIN s.ask : s.ask[r] \in Ask
  /\ HighWater \in Nat \ {0} /\ MaxChunks \in Nat

VARIABLES
  config, ask,     \* chosen once
  server,          \* "new", "refused", "listening", "stopped"
  client,          \* of each request: "connected", "gone"
  phase,           \* where its handler is
  timer,           \* its TTFB timer: "off", "armed", "fired"
  upstream,        \* its upstream exchange
  queued,          \* upstream chunks not yet read
  written,         \* chunks written to the client so far
  buffered,        \* those the client has not taken yet
  received,        \* all the chunks the upstream sent
  status,          \* the head written, "none" before
  answer,          \* "open", "whole" (ended), "destroyed"
  opened           \* whether it opened a session

vars == <<config, ask, server, client, phase, timer, upstream, queued, written,
          buffered, received, status, answer, opened>>

Phases == {"none", "receiving", "awaiting", "cancelling", "text", "reading",
           "draining", "done"}

\* "hungUp" and "timedOut" are the reasons the fetch signal was aborted for.
Broken == {"failed", "hungUp", "timedOut"}

Statuses == {"none", "200", "400", "401", "403", "404", "405", "413", "500", "502",
             "504", "relayed"}

TypeOK ==
  /\ [config |-> config, ask |-> ask] \in Scenarios
  /\ server \in {"new", "refused", "listening", "stopped"}
  /\ client \in [Requests -> {"connected", "gone"}]
  /\ phase \in [Requests -> Phases]
  /\ timer \in [Requests -> {"off", "armed", "fired"}]
  /\ upstream \in [Requests -> {"none", "connecting", "cancelled", "body", "ended"} \cup Broken]
  /\ \A count \in {queued, written, received} : count \in [Requests -> 0..MaxChunks]
  \* Backpressure: a slow client never makes the gateway buffer a whole answer.
  /\ buffered \in [Requests -> 0..HighWater]
  /\ status \in [Requests -> Statuses]
  /\ answer \in [Requests -> {"open", "whole", "destroyed"}]
  /\ opened \in [Requests -> BOOLEAN]

Init ==
  /\ \E s \in Scenarios : config = s.config /\ ask = s.ask
  /\ server = "new"
  /\ client = [r \in Requests |-> "connected"]
  /\ phase = [r \in Requests |-> "none"]
  /\ timer = [r \in Requests |-> "off"]
  /\ upstream = [r \in Requests |-> "none"]
  /\ queued = [r \in Requests |-> 0]
  /\ written = [r \in Requests |-> 0]
  /\ buffered = [r \in Requests |-> 0]
  /\ received = [r \in Requests |-> 0]
  /\ status = [r \in Requests |-> "none"]
  /\ answer = [r \in Requests |-> "open"]
  /\ opened = [r \in Requests |-> FALSE]

relay == <<queued, written, buffered, received>>
chosen == <<config, ask>>

-----------------------------------------------------------------------------
(* The server.                                                             *)

\* Mutant: a bind nobody protected is accepted.
StartRefused_UpstreamOnly == config.badUpstream /\ ~config.insecureUpstream

\* An exposed bind without a token, or an upstream that is no https URL of a
\* public host, unless the operator asked for it.
StartRefused ==
  \/ ~config.loopbackBind /\ ~config.token /\ ~config.openRelay
  \/ config.badUpstream /\ ~config.insecureUpstream

Start ==
  /\ server = "new"
  /\ server' = IF StartRefused THEN "refused" ELSE "listening"
  /\ UNCHANGED <<chosen, client, phase, timer, upstream, relay, status, answer, opened>>

\* The exchanges that a closing response aborts.
Pending(r) == upstream[r] \in {"connecting", "body", "ended"} /\ phase[r] # "done"

\* Mutant: the body phase is no longer governed by the caller's signal.
HungUp_HeadersOnly(r) == IF upstream[r] = "connecting" THEN "hungUp" ELSE upstream[r]

HungUp(r) == IF Pending(r) THEN "hungUp" ELSE upstream[r]

\* The sockets of these requests close.  A request still being received never
\* reaches its handler; a running handler has its upstream signal aborted.
Disconnect(gone) ==
  /\ client' = [r \in Requests |-> IF r \in gone THEN "gone" ELSE client[r]]
  /\ upstream' = [r \in Requests |-> IF r \in gone THEN HungUp(r) ELSE upstream[r]]
  /\ phase' = [r \in Requests |->
                 IF r \in gone /\ phase[r] = "receiving" THEN "done" ELSE phase[r]]
  /\ answer' = [r \in Requests |->
                 IF r \in gone /\ answer[r] = "open" THEN "destroyed" ELSE answer[r]]
  /\ UNCHANGED <<chosen, timer, relay, status, opened>>

Connected == {r \in Requests : client[r] = "connected" /\ phase[r] # "none"}

ClientLeaves(r) ==
  /\ r \in Connected
  /\ Disconnect({r})
  /\ UNCHANGED server

Stop ==
  /\ server = "listening"
  /\ server' = "stopped"
  /\ Disconnect(Connected)

-----------------------------------------------------------------------------
(* Admission: the early returns, in their order.                           *)

\* The status of the first return whose condition holds, or "none".
FirstOf(returns) ==
  LET hits == {i \in 1..Len(returns) : returns[i][1]}
  IN IF hits = {} THEN "none" ELSE returns[Min(hits)][2]

OnRequest(a) == FirstOf(<<
  <<a.foreign, "403">>,
  <<a.route = "health" /\ ~a.post, "200">>,
  <<config.token /\ ~a.local /\ ~a.token, "401">> >>)

Respond(r, code) ==
  /\ status' = [status EXCEPT ![r] = code]
  /\ answer' = [answer EXCEPT ![r] = IF @ = "open" THEN "whole" ELSE @]
  /\ phase' = [phase EXCEPT ![r] = "done"]

\* Only loopback peers reach a loopback bind.
Arrive(r) ==
  /\ server = "listening"
  /\ phase[r] = "none"
  /\ r \in DOMAIN ask
  /\ config.loopbackBind => ask[r].local
  /\ \/ OnRequest(ask[r]) # "none" /\ Respond(r, OnRequest(ask[r]))
     \/ /\ OnRequest(ask[r]) = "none"
        /\ phase' = [phase EXCEPT ![r] = "receiving"]
        /\ UNCHANGED <<status, answer>>
  /\ UNCHANGED <<chosen, server, client, timer, upstream, relay, opened>>

\* 413 goes out, then the socket is destroyed.
BodyTooLarge(r) ==
  /\ phase[r] = "receiving"
  /\ ask[r].body = "huge"
  /\ status' = [status EXCEPT ![r] = "413"]
  /\ answer' = [answer EXCEPT ![r] = "destroyed"]
  /\ phase' = [phase EXCEPT ![r] = "done"]
  /\ client' = [client EXCEPT ![r] = "gone"]
  /\ UNCHANGED <<chosen, server, timer, upstream, relay, opened>>

Keyed(a) == a.creds \/ config.mock \/ config.keyless

\* What handleProxyRequest refuses before it opens a session.
TurnedAway(a) == FirstOf(<<
  <<a.route = "chat" /\ ~a.post, "405">>,
  <<a.route = "chat" /\ ~Keyed(a), "401">>,
  <<a.route # "chat", "404">> >>)

\* What it then answers itself: a body that is not JSON, the TypeError of a
\* message without content, and what is configured to stay local.
AnsweredLocally(a) == FirstOf(<<
  <<a.body = "invalid", "400">>,
  <<a.body = "contentless", "500">>,
  <<config.mock \/ ~a.creds, "200">> >>)

\* Mutant: the session is opened above the route dispatch.
OpensSession_AnyRoute(a) == TurnedAway(a) \in {"none", "404"}

OpensSession(a) == TurnedAway(a) = "none"

\* Mutant: the upstream call has no time budget.
Armed_Never == "off"

Armed == "armed"

BodyEnds(r) ==
  /\ phase[r] = "receiving"
  /\ ask[r].body # "huge"
  /\ LET a    == ask[r]
         code == IF TurnedAway(a) # "none" THEN TurnedAway(a) ELSE AnsweredLocally(a)
     IN /\ opened' = [opened EXCEPT ![r] = OpensSession(a)]
        /\ IF code # "none"
             THEN Respond(r, code) /\ UNCHANGED <<timer, upstream>>
             ELSE /\ phase' = [phase EXCEPT ![r] = "awaiting"]
                  /\ timer' = [timer EXCEPT ![r] = Armed]
                  /\ upstream' = [upstream EXCEPT ![r] = "connecting"]
                  /\ UNCHANGED <<status, answer>>
  /\ UNCHANGED <<chosen, server, client, relay>>

-----------------------------------------------------------------------------
(* The upstream call.                                                      *)

\* setTimeout: it aborts the fetch signal, whatever the fetch has come to.
TimerFires(r) ==
  /\ timer[r] = "armed"
  /\ timer' = [timer EXCEPT ![r] = "fired"]
  /\ upstream' = [upstream EXCEPT ![r] = IF Pending(r) THEN "timedOut" ELSE @]
  /\ UNCHANGED <<chosen, server, client, phase, relay, status, answer, opened>>

\* Mutant: the signal handed to fetch keeps its timeout, as AbortSignal.timeout does.
Disarmed_AtSettle(r) == IF phase[r] = "awaiting" THEN timer[r] ELSE "off"

\* clearTimeout in the finally of the header phase.
Disarmed(r) == IF timer[r] = "armed" THEN "off" ELSE timer[r]

\* A caller that asked for a stream, or an event stream nobody asked for, is
\* relayed as it comes; any other answer is read as text first.
HeadersArrive(r) ==
  /\ phase[r] = "awaiting"
  /\ upstream[r] = "connecting"
  /\ upstream' = [upstream EXCEPT ![r] = "body"]
  /\ timer' = [timer EXCEPT ![r] = Disarmed(r)]
  /\ \E eventStream \in BOOLEAN :
       IF ask[r].stream \/ eventStream
         THEN /\ phase' = [phase EXCEPT ![r] = "reading"]
              /\ status' = [status EXCEPT ![r] = "relayed"]
         ELSE /\ phase' = [phase EXCEPT ![r] = "text"]
              /\ UNCHANGED status
  /\ UNCHANGED <<chosen, server, client, relay, answer, opened>>

\* A redirect is not followed: its body is cancelled, with the timer still armed.
RedirectArrives(r) ==
  /\ phase[r] = "awaiting"
  /\ upstream[r] = "connecting"
  /\ upstream' = [upstream EXCEPT ![r] = "cancelled"]
  /\ phase' = [phase EXCEPT ![r] = "cancelling"]
  /\ UNCHANGED <<chosen, server, client, timer, relay, status, answer, opened>>

CancelSettles(r) ==
  /\ phase[r] = "cancelling"
  /\ timer' = [timer EXCEPT ![r] = Disarmed(r)]
  /\ Respond(r, "502")
  /\ UNCHANGED <<chosen, server, client, upstream, relay, opened>>

FetchFails(r) ==
  /\ phase[r] = "awaiting"
  /\ upstream[r] \in Broken
  /\ timer' = [timer EXCEPT ![r] = Disarmed(r)]
  /\ Respond(r, IF upstream[r] = "timedOut" THEN "504" ELSE "502")
  /\ UNCHANGED <<chosen, server, client, upstream, relay, opened>>

UpstreamSends(r) ==
  /\ upstream[r] = "body"
  /\ received[r] < MaxChunks
  /\ received' = [received EXCEPT ![r] = @ + 1]
  /\ queued' = [queued EXCEPT ![r] = @ + 1]
  /\ UNCHANGED <<chosen, server, client, phase, timer, upstream, written, buffered,
                 status, answer, opened>>

UpstreamEnds(r) ==
  /\ upstream[r] = "body"
  /\ upstream' = [upstream EXCEPT ![r] = "ended"]
  /\ UNCHANGED <<chosen, server, client, phase, timer, relay, status, answer, opened>>

UpstreamFails(r) ==
  /\ upstream[r] \in {"connecting", "body"}
  /\ upstream' = [upstream EXCEPT ![r] = "failed"]
  /\ UNCHANGED <<chosen, server, client, phase, timer, relay, status, answer, opened>>

-----------------------------------------------------------------------------
(* The answer.                                                             *)

\* response.text() is awaited outside the try: its failure becomes a 500.
TextSettles(r) ==
  /\ phase[r] = "text"
  /\ \/ /\ upstream[r] = "ended"
        /\ Respond(r, "relayed")
        /\ written' = [written EXCEPT ![r] = queued[r]]
        /\ queued' = [queued EXCEPT ![r] = 0]
     \/ /\ upstream[r] \in Broken
        /\ Respond(r, "500")
        /\ UNCHANGED <<written, queued>>
  /\ UNCHANGED <<chosen, server, client, timer, upstream, buffered, received, opened>>

\* Mutant: write()'s answer is ignored.
AfterWrite_Regardless(n) == "reading"

\* write() returns false at the high-water mark, and the pump awaits 'drain'.
AfterWrite(n) == IF n >= HighWater THEN "draining" ELSE "reading"

ReadChunk(r) ==
  /\ phase[r] = "reading"
  /\ upstream[r] \notin Broken
  /\ queued[r] > 0
  /\ queued' = [queued EXCEPT ![r] = @ - 1]
  /\ written' = [written EXCEPT ![r] = @ + 1]
  /\ buffered' = [buffered EXCEPT ![r] = @ + 1]
  /\ phase' = [phase EXCEPT ![r] = AfterWrite(buffered[r] + 1)]
  /\ UNCHANGED <<chosen, server, client, timer, upstream, received, status, answer, opened>>

\* 'drain' is emitted when the buffer has emptied.
AfterTake(p, left) == IF p = "draining" /\ left = 0 THEN "reading" ELSE p

ClientTakes(r) ==
  /\ client[r] = "connected"
  /\ buffered[r] > 0
  /\ buffered' = [buffered EXCEPT ![r] = @ - 1]
  /\ phase' = [phase EXCEPT ![r] = AfterTake(phase[r], buffered[r] - 1)]
  /\ UNCHANGED <<chosen, server, client, timer, upstream, queued, written, received,
                 status, answer, opened>>

ReadEnds(r) ==
  /\ phase[r] = "reading"
  /\ upstream[r] = "ended"
  /\ queued[r] = 0
  /\ Respond(r, status[r])
  /\ UNCHANGED <<chosen, server, client, timer, upstream, relay, opened>>

\* Mutant: the pump ends the response in a finally.
Cut_Ended(a) == IF a = "open" THEN "whole" ELSE a

\* A response that cannot be completed is destroyed, not ended.
Cut(a) == "destroyed"

\* Mutant: the pump has no catch, and the caller's answers with another head.
HeadOnCut_Again(s) == "500"

HeadOnCut(s) == s

ReadFails(r) ==
  /\ phase[r] = "reading"
  /\ upstream[r] \in Broken
  /\ answer' = [answer EXCEPT ![r] = Cut(@)]
  /\ status' = [status EXCEPT ![r] = HeadOnCut(@)]
  /\ phase' = [phase EXCEPT ![r] = "done"]
  /\ client' = [client EXCEPT ![r] = "gone"]
  /\ UNCHANGED <<chosen, server, timer, upstream, relay, opened>>

Handler(r) ==
  \/ CancelSettles(r) \/ FetchFails(r) \/ TextSettles(r)
  \/ ReadChunk(r) \/ ReadEnds(r) \/ ReadFails(r)

Next ==
  \/ Start
  \/ Stop
  \/ \E r \in Requests :
       \/ Arrive(r) \/ BodyTooLarge(r) \/ BodyEnds(r)
       \/ TimerFires(r) \/ HeadersArrive(r) \/ RedirectArrives(r)
       \/ UpstreamSends(r) \/ UpstreamEnds(r) \/ UpstreamFails(r)
       \/ Handler(r)
       \/ ClientTakes(r) \/ ClientLeaves(r)

Spec == Init /\ [][Next]_vars

\* The event loop runs what is ready and fires timers that are due.
LoopSpec == Spec /\ \A r \in Requests : WF_vars(Handler(r)) /\ WF_vars(TimerFires(r))

\* And a client that stays reads what it is sent.
LiveSpec == LoopSpec /\ \A r \in Requests : WF_vars(ClientTakes(r))

-----------------------------------------------------------------------------
(* Properties.                                                             *)

\* A request that is refused opened no session: not for want of credentials, nor
\* on a route that has none, so that such requests cannot push real conversations
\* out of the store (proxy.ts:68-116).
RefusedOpensNoSession ==
  \A r \in Requests : status[r] \in {"401", "403", "404", "405", "413"} => ~opened[r]

\* Nothing that comes from another machine without the token is processed, unless
\* the operator allowed it: the check at start and the one at each request leave
\* no configuration between them (server.ts:230-252, 425-437).
NoOpenRelay ==
  \A r \in Requests : opened[r] /\ ~ask[r].local => ask[r].token \/ config.openRelay

\* The timer's budget is for the headers only: it never cuts an answer whose
\* headers have come (proxy.ts:208-222).
TimerSparesBody ==
  \A r \in Requests :
    upstream[r] = "timedOut" => phase[r] = "awaiting" \/ status[r] = "504"

\* A client that hangs up takes its upstream exchange with it, in the headers,
\* during the body or under backpressure, and so does a server that stops
\* (server.ts:480-485, proxy.ts:220-222).
HangUpReleasesUpstream ==
  /\ \A r \in Requests : client[r] = "gone" => upstream[r] \notin {"connecting", "body"}
  /\ server = "stopped" => \A r \in Requests : upstream[r] \notin {"connecting", "body"}

\* An answer that ends normally is all of what the upstream sent: a cut one is
\* never passed off as complete (server.ts:530-550).
WholeOrBroken ==
  \A r \in Requests :
    status[r] = "relayed" /\ answer[r] = "whole"
      => upstream[r] = "ended" /\ written[r] = received[r]

\* No response gets a second head, which would throw in the handler
\* (server.ts:511-517).
OneHead == [][\A r \in Requests : status[r] # "none" => status'[r] = status[r]]_vars

\* The wait for upstream headers ends, answered or not.
HeaderPhaseEnds == \A r \in Requests : phase[r] = "awaiting" ~> phase[r] # "awaiting"

\* Once the upstream has finished or failed, the request is answered in full or
\* cut, unless its client left: no wake-up of the pump is missed.
UpstreamEndAnswers ==
  \A r \in Requests :
    upstream[r] \in {"ended", "failed"} ~> phase[r] = "done" \/ client[r] = "gone"

\* Neither the headers that do not come, nor a client that reads slowly, keep a
\* handler waiting for ever (proxy.ts:223-238, server.ts:535-545).
WaitsEnd == HeaderPhaseEnds /\ UpstreamEndAnswers
=============================================================================

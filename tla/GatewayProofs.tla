---------------------------- MODULE GatewayProofs ----------------------------
(***************************************************************************)
(* The safety properties of the gateway's request life cycle, for every    *)
(* number of requests, every configuration and every limit.                *)
(***************************************************************************)
EXTENDS Gateway, TLAPS

\* What the checks at start leave: requests are only handled by a server that
\* was allowed to listen, and one that stopped receives no more.
Guarded ==
  /\ server \in {"listening", "stopped"} => ~StartRefused
  /\ \A r \in Requests :
       /\ phase[r] # "none" => server \in {"listening", "stopped"} /\ r \in DOMAIN ask
       /\ server = "stopped" => phase[r] # "receiving"

\* A request past the checks of onRequest, and its session, satisfied them.
Admitted(r) ==
  phase[r] = "receiving" \/ opened[r] =>
    /\ r \in DOMAIN ask
    /\ config.loopbackBind => ask[r].local
    /\ config.token => ask[r].local \/ ask[r].token

\* The phase of a handler determines what it has done so far.
InPhase(r) ==
  /\ phase[r] \in {"none", "receiving"} =>
       /\ upstream[r] = "none" /\ timer[r] = "off" /\ ~opened[r]
       /\ client[r] = "connected" /\ answer[r] = "open"
  /\ phase[r] \in {"none", "receiving", "awaiting", "cancelling", "text"} =>
       status[r] = "none" /\ written[r] = 0 /\ buffered[r] = 0
  /\ phase[r] = "cancelling" => upstream[r] = "cancelled"
  /\ phase[r] = "reading" => buffered[r] < HighWater
  /\ upstream[r] \in {"connecting", "body"} => phase[r] # "done"
  /\ timer[r] = "armed" => phase[r] \in {"awaiting", "cancelling"}
  /\ answer[r] = "whole" => phase[r] = "done"
  /\ received[r] = written[r] + queued[r]

\* The properties proved, of one request.
Refused(r)  == status[r] \in {"401", "403", "404", "405", "413"} => ~opened[r]
Timed(r)    == upstream[r] = "timedOut" => phase[r] = "awaiting" \/ status[r] = "504"
Released(r) == client[r] = "gone" \/ server = "stopped" => upstream[r] \notin {"connecting", "body"}
Whole(r)    == status[r] = "relayed" /\ answer[r] = "whole" => upstream[r] = "ended" /\ written[r] = received[r]

Orderly(r) == Admitted(r) /\ InPhase(r) /\ Refused(r) /\ Timed(r) /\ Released(r) /\ Whole(r)

IInv == TypeOK /\ Guarded /\ \A r \in Requests : Orderly(r)

-----------------------------------------------------------------------------
(* The early returns.                                                      *)

\* Of three conditional returns, the first whose condition holds.
LEMMA FirstOfThree ==
  ASSUME NEW c1 \in BOOLEAN, NEW c2 \in BOOLEAN, NEW c3 \in BOOLEAN, NEW s1, NEW s2, NEW s3
  PROVE  FirstOf(<< <<c1, s1>>, <<c2, s2>>, <<c3, s3>> >>)
           = IF c1 THEN s1 ELSE IF c2 THEN s2 ELSE IF c3 THEN s3 ELSE "none"
<1>. DEFINE returns == << <<c1, s1>>, <<c2, s2>>, <<c3, s3>> >>
            hits == {i \in 1..Len(returns) : returns[i][1]}
<1>1. FirstOf(returns) = IF hits = {} THEN "none" ELSE returns[Min(hits)][2]
  BY DEF FirstOf
<1>2. hits = {i \in 1..3 : returns[i][1]}
  OBVIOUS
<1>3. /\ 1 \in hits <=> c1
      /\ 2 \in hits <=> c2
      /\ 3 \in hits <=> c3
      /\ hits \subseteq 1..3
  BY <1>2
<1>. HIDE DEF hits
<1>4. ASSUME NEW m \in hits, \A y \in hits : m =< y
      PROVE  Min(hits) = m
  <2>. DEFINE k == CHOOSE x \in hits : \A y \in hits : x =< y
  <2>1. k \in hits /\ \A y \in hits : k =< y
    BY <1>4
  <2>2. Min(hits) = k
    BY DEF Min
  <2>. HIDE DEF k
  <2>3. k = m
    BY <1>3, <1>4, <2>1
  <2>. QED
    BY <2>2, <2>3
<1>5. CASE c1
  <2>1. Min(hits) = 1
    BY <1>3, <1>4, <1>5
  <2>. QED
    BY <1>1, <1>3, <1>5, <2>1
<1>6. CASE ~c1 /\ c2
  <2>1. Min(hits) = 2
    BY <1>3, <1>4, <1>6
  <2>. QED
    BY <1>1, <1>3, <1>6, <2>1
<1>7. CASE ~c1 /\ ~c2 /\ c3
  <2>1. Min(hits) = 3
    BY <1>3, <1>4, <1>7
  <2>. QED
    BY <1>1, <1>3, <1>7, <2>1
<1>8. CASE ~c1 /\ ~c2 /\ ~c3
  <2>1. hits = {}
    BY <1>3, <1>8
  <2>. QED
    BY <1>1, <1>8, <2>1
<1>. QED
  BY <1>5, <1>6, <1>7, <1>8

\* The early returns of onRequest, as the nested conditions they are.
LEMMA OnRequestIs ==
  ASSUME NEW a \in Ask, config \in Config
  PROVE  OnRequest(a) = IF a.foreign THEN "403"
                        ELSE IF a.route = "health" /\ ~a.post THEN "200"
                        ELSE IF config.token /\ ~a.local /\ ~a.token THEN "401" ELSE "none"
<1>. DEFINE c1 == a.foreign
            c2 == a.route = "health" /\ ~a.post
            c3 == config.token /\ ~a.local /\ ~a.token
<1>1. c1 \in BOOLEAN /\ c2 \in BOOLEAN /\ c3 \in BOOLEAN
  BY DEF Ask, Config
<1>2. OnRequest(a) = FirstOf(<< <<c1, "403">>, <<c2, "200">>, <<c3, "401">> >>)
  BY DEF OnRequest
<1>. HIDE DEF c1, c2, c3
<1>3. OnRequest(a) = IF c1 THEN "403" ELSE IF c2 THEN "200" ELSE IF c3 THEN "401" ELSE "none"
  BY <1>1, <1>2, FirstOfThree
<1>. QED
  BY <1>3 DEF c1, c2, c3

\* Those of handleProxyRequest before it opens a session.
LEMMA TurnedAwayIs ==
  ASSUME NEW a \in Ask, config \in Config
  PROVE  TurnedAway(a) = IF a.route = "chat" /\ ~a.post THEN "405"
                         ELSE IF a.route = "chat" /\ ~Keyed(a) THEN "401"
                         ELSE IF a.route # "chat" THEN "404" ELSE "none"
<1>. DEFINE c1 == a.route = "chat" /\ ~a.post
            c2 == a.route = "chat" /\ ~Keyed(a)
            c3 == a.route # "chat"
<1>1. c1 \in BOOLEAN /\ c2 \in BOOLEAN /\ c3 \in BOOLEAN
  BY DEF Ask, Config
<1>2. TurnedAway(a) = FirstOf(<< <<c1, "405">>, <<c2, "401">>, <<c3, "404">> >>)
  BY DEF TurnedAway
<1>. HIDE DEF c1, c2, c3
<1>3. TurnedAway(a) = IF c1 THEN "405" ELSE IF c2 THEN "401" ELSE IF c3 THEN "404" ELSE "none"
  BY <1>1, <1>2, FirstOfThree
<1>. QED
  BY <1>3 DEF c1, c2, c3

\* And those after it.
LEMMA AnsweredLocallyIs ==
  ASSUME NEW a \in Ask, config \in Config
  PROVE  AnsweredLocally(a) = IF a.body = "invalid" THEN "400"
                              ELSE IF a.body = "contentless" THEN "500"
                              ELSE IF config.mock \/ ~a.creds THEN "200" ELSE "none"
<1>. DEFINE c1 == a.body = "invalid"
            c2 == a.body = "contentless"
            c3 == config.mock \/ ~a.creds
<1>1. c1 \in BOOLEAN /\ c2 \in BOOLEAN /\ c3 \in BOOLEAN
  BY DEF Ask, Config
<1>2. AnsweredLocally(a) = FirstOf(<< <<c1, "400">>, <<c2, "500">>, <<c3, "200">> >>)
  BY DEF AnsweredLocally
<1>. HIDE DEF c1, c2, c3
<1>3. AnsweredLocally(a) = IF c1 THEN "400" ELSE IF c2 THEN "500" ELSE IF c3 THEN "200" ELSE "none"
  BY <1>1, <1>2, FirstOfThree
<1>. QED
  BY <1>3 DEF c1, c2, c3

\* What was chosen is a configuration, and the requests to it are well formed.
LEMMA ChosenTyped ==
  ASSUME TypeOK
  PROVE  /\ config \in Config
         /\ \A r \in Requests : r \in DOMAIN ask => ask[r] \in Ask
<1>1. PICK s \in Scenarios : s = [config |-> config, ask |-> ask]
  BY DEF TypeOK
<1>2. s.config = config /\ s.ask = ask
  BY <1>1
<1>. QED
  BY <1>1, <1>2, GatewayAssumption

-----------------------------------------------------------------------------
(* The initial states.                                                     *)

\* They satisfy the invariant.
LEMMA InitInductive == Init => IInv
<1>. SUFFICES ASSUME Init PROVE IInv
  OBVIOUS
<1>. USE GatewayAssumption
<1>1. TypeOK
  <2>1. [config |-> config, ask |-> ask] \in Scenarios
    BY DEF Init
  <2>. QED
    BY <2>1 DEF Init, TypeOK, Phases, Broken, Statuses
<1>2. Guarded
  BY DEF Init, Guarded
<1>3. ASSUME NEW r \in Requests PROVE Orderly(r)
  BY DEF Init, Orderly, Admitted, InPhase, Refused, Timed, Released, Whole
<1>. QED
  BY <1>1, <1>2, <1>3 DEF IInv

-----------------------------------------------------------------------------
(* Each action preserves the invariant.                                    *)

\* What is chosen once stays so; a handler's own step touches one request, and
\* only Arrive takes it out of "none".
LEMMA HandlingGuarded ==
  ASSUME IInv, UNCHANGED <<config, ask, server>>,
         \A r \in Requests : phase[r] = "none" => phase'[r] = "none",
         \A r \in Requests : phase'[r] = "receiving" => phase[r] = "receiving"
  PROVE  Guarded'
  BY DEF IInv, Guarded, StartRefused

\* The steps of one request after its admission.
LEMMA HandlingInductive ==
  ASSUME IInv, NEW q \in Requests,
         \/ TimerFires(q) \/ HeadersArrive(q) \/ RedirectArrives(q)
         \/ UpstreamSends(q) \/ UpstreamEnds(q) \/ UpstreamFails(q)
         \/ Handler(q) \/ ClientTakes(q) \/ BodyTooLarge(q)
  PROVE  IInv'
<1>. USE GatewayAssumption DEF relay, chosen
<1>. TypeOK /\ \A r \in Requests : Orderly(r)
  BY DEF IInv
<1>. USE DEF TypeOK, Phases, Broken, Statuses,
             Orderly, Admitted, InPhase, Refused, Timed, Released, Whole
<1>1. CASE TimerFires(q)
  <2>1. TypeOK'
    BY <1>1 DEF TimerFires, Pending
  <2>2. Guarded'
    BY <1>1, HandlingGuarded DEF TimerFires, Pending
  <2>3. \A r \in Requests : Orderly(r)'
    BY <1>1 DEF TimerFires, Pending
  <2>. QED
    BY <2>1, <2>2, <2>3 DEF IInv
<1>2. CASE HeadersArrive(q)
  <2>1. TypeOK'
    BY <1>2 DEF HeadersArrive, Disarmed
  <2>2. Guarded'
    BY <1>2, HandlingGuarded DEF HeadersArrive, Disarmed
  <2>3. \A r \in Requests : Orderly(r)'
    BY <1>2 DEF HeadersArrive, Disarmed
  <2>. QED
    BY <2>1, <2>2, <2>3 DEF IInv
<1>3. CASE RedirectArrives(q)
  <2>1. TypeOK'
    BY <1>3 DEF RedirectArrives
  <2>2. Guarded'
    BY <1>3, HandlingGuarded DEF RedirectArrives
  <2>3. \A r \in Requests : Orderly(r)'
    BY <1>3 DEF RedirectArrives
  <2>. QED
    BY <2>1, <2>2, <2>3 DEF IInv
<1>4. CASE UpstreamSends(q)
  <2>1. TypeOK'
    BY <1>4 DEF UpstreamSends
  <2>2. Guarded'
    BY <1>4, HandlingGuarded DEF UpstreamSends
  <2>3. \A r \in Requests : Orderly(r)'
    BY <1>4 DEF UpstreamSends
  <2>. QED
    BY <2>1, <2>2, <2>3 DEF IInv
<1>5. CASE UpstreamEnds(q)
  <2>1. TypeOK'
    BY <1>5 DEF UpstreamEnds
  <2>2. Guarded'
    BY <1>5, HandlingGuarded DEF UpstreamEnds
  <2>3. \A r \in Requests : Orderly(r)'
    BY <1>5 DEF UpstreamEnds
  <2>. QED
    BY <2>1, <2>2, <2>3 DEF IInv
<1>6. CASE UpstreamFails(q)
  <2>1. TypeOK'
    BY <1>6 DEF UpstreamFails
  <2>2. Guarded'
    BY <1>6, HandlingGuarded DEF UpstreamFails
  <2>3. \A r \in Requests : Orderly(r)'
    BY <1>6 DEF UpstreamFails
  <2>. QED
    BY <2>1, <2>2, <2>3 DEF IInv
<1>7. CASE CancelSettles(q)
  <2>1. TypeOK'
    BY <1>7 DEF CancelSettles, Respond, Disarmed
  <2>2. Guarded'
    BY <1>7, HandlingGuarded DEF CancelSettles, Respond, Disarmed
  <2>3. \A r \in Requests : Orderly(r)'
    BY <1>7 DEF CancelSettles, Respond, Disarmed
  <2>. QED
    BY <2>1, <2>2, <2>3 DEF IInv
<1>8. CASE FetchFails(q)
  <2>1. TypeOK'
    BY <1>8 DEF FetchFails, Respond, Disarmed
  <2>2. Guarded'
    BY <1>8, HandlingGuarded DEF FetchFails, Respond, Disarmed
  <2>3. \A r \in Requests : Orderly(r)'
    BY <1>8 DEF FetchFails, Respond, Disarmed
  <2>. QED
    BY <2>1, <2>2, <2>3 DEF IInv
<1>9. CASE TextSettles(q)
  <2>1. TypeOK'
    <3>1. /\ written' \in [Requests -> 0..MaxChunks] /\ queued' \in [Requests -> 0..MaxChunks]
          /\ UNCHANGED <<received, buffered>>
      BY <1>9 DEF TextSettles
    <3>2. PICK code \in {"relayed", "500"} : Respond(q, code)
      BY <1>9 DEF TextSettles
    <3>3. /\ status' \in [Requests -> Statuses] /\ phase' \in [Requests -> Phases]
          /\ answer' \in [Requests -> {"open", "whole", "destroyed"}]
      BY <3>2 DEF Respond
    <3>. QED
      BY <1>9, <3>1, <3>3 DEF TextSettles
  <2>2. Guarded'
    BY <1>9, HandlingGuarded DEF TextSettles, Respond
  <2>3. \A r \in Requests : Orderly(r)'
    BY <1>9 DEF TextSettles, Respond
  <2>. QED
    BY <2>1, <2>2, <2>3 DEF IInv
<1>10. CASE ReadChunk(q)
  <2>1. TypeOK'
    BY <1>10 DEF ReadChunk, AfterWrite
  <2>2. Guarded'
    BY <1>10, HandlingGuarded DEF ReadChunk, AfterWrite
  <2>3. ASSUME NEW r \in Requests PROVE Orderly(r)'
    <3>1. CASE r = q
      <4>1. /\ queued'[q] = queued[q] - 1 /\ written'[q] = written[q] + 1
            /\ buffered'[q] = buffered[q] + 1 /\ received'[q] = received[q]
            /\ phase[q] = "reading" /\ upstream'[q] \notin Broken
            /\ phase'[q] = IF buffered'[q] >= HighWater THEN "draining" ELSE "reading"
        BY <1>10 DEF ReadChunk, AfterWrite
      <4>2. UNCHANGED <<chosen, server, client, timer, upstream, status, answer, opened>>
        BY <1>10 DEF ReadChunk
      <4>. QED
        BY <3>1, <4>1, <4>2
    <3>2. CASE r # q
      BY <1>10, <3>2 DEF ReadChunk
    <3>. QED
      BY <3>1, <3>2
  <2>. QED
    BY <2>1, <2>2, <2>3 DEF IInv
<1>11. CASE ReadEnds(q)
  <2>1. TypeOK'
    BY <1>11 DEF ReadEnds, Respond
  <2>2. Guarded'
    BY <1>11, HandlingGuarded DEF ReadEnds, Respond
  <2>3. \A r \in Requests : Orderly(r)'
    BY <1>11 DEF ReadEnds, Respond
  <2>. QED
    BY <2>1, <2>2, <2>3 DEF IInv
<1>12. CASE ReadFails(q)
  <2>1. TypeOK'
    BY <1>12 DEF ReadFails, Cut, HeadOnCut
  <2>2. Guarded'
    BY <1>12, HandlingGuarded DEF ReadFails, Cut, HeadOnCut
  <2>3. \A r \in Requests : Orderly(r)'
    BY <1>12 DEF ReadFails, Cut, HeadOnCut
  <2>. QED
    BY <2>1, <2>2, <2>3 DEF IInv
<1>13. CASE ClientTakes(q)
  <2>1. TypeOK'
    BY <1>13 DEF ClientTakes, AfterTake
  <2>2. Guarded'
    BY <1>13, HandlingGuarded DEF ClientTakes, AfterTake
  <2>3. \A r \in Requests : Orderly(r)'
    BY <1>13 DEF ClientTakes, AfterTake
  <2>. QED
    BY <2>1, <2>2, <2>3 DEF IInv
<1>14. CASE BodyTooLarge(q)
  <2>1. TypeOK'
    BY <1>14 DEF BodyTooLarge
  <2>2. Guarded'
    BY <1>14, HandlingGuarded DEF BodyTooLarge
  <2>3. \A r \in Requests : Orderly(r)'
    BY <1>14 DEF BodyTooLarge
  <2>. QED
    BY <2>1, <2>2, <2>3 DEF IInv
<1>. QED
  BY <1>1, <1>2, <1>3, <1>4, <1>5, <1>6, <1>7, <1>8, <1>9, <1>10, <1>11, <1>12, <1>13, <1>14 DEF Handler

\* Starting and stopping the server, arrival, the end of a body, and hang-ups.
LEMMA StartInductive == IInv /\ Start => IInv'
<1>. SUFFICES ASSUME IInv, Start PROVE IInv'
  OBVIOUS
<1>1. UNCHANGED <<config, ask, client, phase, timer, upstream, relay, status, answer, opened>>
      /\ server = "new" /\ server' \in {"refused", "listening"}
      /\ (server' = "listening" => ~StartRefused)
  BY DEF Start, chosen
<1>. USE <1>1 DEF relay
<1>2. TypeOK'
  BY DEF IInv, TypeOK
<1>3. Guarded'
  BY DEF IInv, Guarded, StartRefused
<1>4. \A r \in Requests : Orderly(r)'
  BY DEF IInv, Orderly, Admitted, InPhase, Refused, Timed, Released, Whole
<1>. QED
  BY <1>2, <1>3, <1>4 DEF IInv

\* A request that gets past onRequest has satisfied its checks.
LEMMA ArriveInductive ==
  ASSUME IInv, NEW q \in Requests, Arrive(q)
  PROVE  IInv'
<1>. TypeOK /\ Guarded /\ \A r \in Requests : Orderly(r)
  BY DEF IInv
<1>. DEFINE code == OnRequest(ask[q])
<1>1. /\ code \in {"403", "200", "401", "none"}
      /\ code = "none" => (config.token => ask[q].local \/ ask[q].token)
  <2>1. q \in DOMAIN ask /\ ask[q] \in Ask /\ config \in Config
    BY ChosenTyped DEF Arrive
  <2>. QED
    BY <2>1, OnRequestIs
<1>2. /\ server = "listening" /\ phase[q] = "none" /\ q \in DOMAIN ask
      /\ config.loopbackBind => ask[q].local
      /\ \/ code # "none" /\ Respond(q, code)
         \/ /\ code = "none"
            /\ phase' = [phase EXCEPT ![q] = "receiving"]
            /\ UNCHANGED <<status, answer>>
      /\ UNCHANGED <<config, ask, server, client, timer, upstream, relay, opened>>
  BY DEF Arrive, chosen
<1>. HIDE DEF code
<1>. USE DEF relay, TypeOK, Phases, Statuses
<1>3. TypeOK'
  BY <1>1, <1>2 DEF Respond
<1>4. Guarded'
  BY <1>2 DEF Guarded, StartRefused, Respond
<1>5. \A r \in Requests : Orderly(r)'
  BY <1>1, <1>2 DEF Respond, Orderly, Admitted, InPhase, Refused, Timed, Released, Whole
<1>. QED
  BY <1>3, <1>4, <1>5 DEF IInv

\* A session is opened for a request that is answered or forwarded, not refused.
LEMMA BodyEndsInductive ==
  ASSUME IInv, NEW q \in Requests, BodyEnds(q)
  PROVE  IInv'
<1>. TypeOK /\ Guarded /\ \A r \in Requests : Orderly(r)
  BY DEF IInv
<1>. DEFINE away == TurnedAway(ask[q])
            code == IF away # "none" THEN away ELSE AnsweredLocally(ask[q])
<1>1. /\ away \in {"405", "401", "404", "none"}
      /\ code \in {"405", "401", "404", "400", "500", "200", "none"}
      /\ away = "none" => code \in {"400", "500", "200", "none"}
  <2>1. q \in DOMAIN ask
    BY DEF BodyEnds, Orderly, Admitted
  <2>2. ask[q] \in Ask /\ config \in Config
    BY <2>1, ChosenTyped
  <2>3. away \in {"405", "401", "404", "none"}
    BY <2>2, TurnedAwayIs
  <2>4. AnsweredLocally(ask[q]) \in {"400", "500", "200", "none"}
    BY <2>2, AnsweredLocallyIs
  <2>. QED
    BY <2>3, <2>4
<1>2. /\ phase[q] = "receiving"
      /\ opened' = [opened EXCEPT ![q] = (away = "none")]
      /\ IF code # "none"
           THEN Respond(q, code) /\ UNCHANGED <<timer, upstream>>
           ELSE /\ phase' = [phase EXCEPT ![q] = "awaiting"]
                /\ timer' = [timer EXCEPT ![q] = "armed"]
                /\ upstream' = [upstream EXCEPT ![q] = "connecting"]
                /\ UNCHANGED <<status, answer>>
      /\ UNCHANGED <<config, ask, server, client, relay>>
  BY DEF BodyEnds, OpensSession, Armed, chosen
<1>. HIDE DEF away, code
<1>. USE DEF relay
<1>3. TypeOK'
  BY <1>1, <1>2 DEF Respond, TypeOK, Phases, Statuses
<1>4. Guarded'
  BY <1>2, HandlingGuarded DEF Respond, TypeOK
<1>5. \A r \in Requests : Orderly(r)'
  BY <1>1, <1>2 DEF Respond, TypeOK, Guarded, Orderly, Admitted, InPhase, Refused, Timed, Released, Whole
<1>. QED
  BY <1>3, <1>4, <1>5 DEF IInv

\* Sockets that close: the requests being received are dropped, and the pending
\* exchanges of the others aborted.
LEMMA DisconnectInductive ==
  ASSUME IInv, Stop \/ \E r \in Requests : ClientLeaves(r)
  PROVE  IInv'
<1>. TypeOK /\ Guarded /\ \A r \in Requests : Orderly(r)
  BY DEF IInv
<1>. PICK gone \in SUBSET Connected :
       /\ Disconnect(gone)
       /\ \/ server' = server
          \/ server = "listening" /\ server' = "stopped" /\ gone = Connected
  <2>1. CASE Stop
    BY <2>1 DEF Stop
  <2>2. ASSUME NEW r \in Requests, ClientLeaves(r)
        PROVE  {r} \in SUBSET Connected /\ Disconnect({r}) /\ server' = server
    BY <2>2 DEF ClientLeaves
  <2>. QED
    BY <2>1, <2>2
<1>1. UNCHANGED <<config, ask, timer, queued, written, buffered, received, status, opened>>
  BY DEF Disconnect, chosen, relay
<1>2. TypeOK'
  BY <1>1 DEF Disconnect, HungUp, TypeOK, Phases, Broken
<1>3. Guarded'
  BY <1>1 DEF Disconnect, Guarded, StartRefused, Connected, InPhase, Orderly, TypeOK
<1>4. ASSUME NEW r \in Requests PROVE Orderly(r)'
  <2>1. CASE r \in gone
    <3>1. /\ client'[r] = "gone" /\ upstream'[r] = HungUp(r)
          /\ phase'[r] = IF phase[r] = "receiving" THEN "done" ELSE phase[r]
          /\ answer'[r] = IF answer[r] = "open" THEN "destroyed" ELSE answer[r]
          /\ phase[r] # "none"
      BY <2>1 DEF Disconnect, Connected
    <3>. QED
      BY <1>1, <3>1 DEF HungUp, Pending, Orderly, Admitted, InPhase, Refused, Timed, Released, Whole
  <2>2. CASE r \notin gone
    <3>1. client'[r] = client[r] /\ upstream'[r] = upstream[r] /\ phase'[r] = phase[r]
          /\ answer'[r] = answer[r]
      BY <2>2 DEF Disconnect, TypeOK
    <3>2. server' = "stopped" => server = "stopped" \/ client[r] = "gone" \/ phase[r] = "none"
      BY <2>2 DEF Connected, TypeOK
    <3>. QED
      BY <1>1, <3>1, <3>2 DEF Orderly, Admitted, InPhase, Refused, Timed, Released, Whole
  <2>. QED
    BY <2>1, <2>2
<1>. QED
  BY <1>2, <1>3, <1>4 DEF IInv

\* Every step preserves the invariant.
LEMMA NextInductive == IInv /\ [Next]_vars => IInv'
<1>. SUFFICES ASSUME IInv, [Next]_vars PROVE IInv'
  OBVIOUS
<1>1. CASE Start
  BY <1>1, StartInductive
<1>2. CASE Stop \/ \E r \in Requests : ClientLeaves(r)
  BY <1>2, DisconnectInductive
<1>3. ASSUME NEW r \in Requests, Arrive(r) PROVE IInv'
  BY <1>3, ArriveInductive
<1>4. ASSUME NEW r \in Requests, BodyEnds(r) PROVE IInv'
  BY <1>4, BodyEndsInductive
<1>5. ASSUME NEW r \in Requests,
             \/ TimerFires(r) \/ HeadersArrive(r) \/ RedirectArrives(r)
             \/ UpstreamSends(r) \/ UpstreamEnds(r) \/ UpstreamFails(r)
             \/ Handler(r) \/ ClientTakes(r) \/ BodyTooLarge(r)
      PROVE  IInv'
  BY <1>5, HandlingInductive
<1>6. CASE UNCHANGED vars
  <2>1. TypeOK'
    BY <1>6 DEF vars, IInv, TypeOK
  <2>2. Guarded'
    BY <1>6 DEF vars, IInv, Guarded, StartRefused
  <2>3. ASSUME NEW r \in Requests PROVE Orderly(r)'
    BY <1>6 DEF vars, IInv, Orderly, Admitted, InPhase, Refused, Timed, Released, Whole
  <2>. QED
    BY <2>1, <2>2, <2>3 DEF IInv
<1>. QED
  BY <1>1, <1>2, <1>3, <1>4, <1>5, <1>6 DEF Next

-----------------------------------------------------------------------------
(* The theorems.                                                           *)

\* The invariant holds throughout.
LEMMA Invariant == Spec => []IInv
<1>. QED
  BY InitInductive, NextInductive, PTL DEF Spec

\* Every request is where its handler can be, and a slow client never makes the
\* gateway buffer more than the high-water mark.
THEOREM TypeCorrect == Spec => []TypeOK
<1>1. IInv => TypeOK
  BY DEF IInv
<1>. QED
  BY <1>1, Invariant, PTL

\* A request that is refused opened no session, whatever the configuration.
THEOREM RefusedLeavesNoTrace == Spec => []RefusedOpensNoSession
<1>1. IInv => RefusedOpensNoSession
  BY DEF IInv, Orderly, Refused, RefusedOpensNoSession
<1>. QED
  BY <1>1, Invariant, PTL

\* The check at start and the checks at each request leave no configuration in
\* which a remote caller without the token is processed.
THEOREM NoRelayIsOpen == Spec => []NoOpenRelay
<1>1. IInv => NoOpenRelay
  <2>. SUFFICES ASSUME IInv, NEW r \in Requests, opened[r], ~ask[r].local
                PROVE  ask[r].token \/ config.openRelay
    BY DEF NoOpenRelay
  <2>1. Admitted(r) /\ InPhase(r)
    BY DEF IInv, Orderly
  <2>2. phase[r] # "none"
    BY <2>1 DEF InPhase
  <2>3. ~StartRefused
    BY <2>2 DEF IInv, Guarded
  <2>. QED
    BY <2>1, <2>3 DEF Admitted, StartRefused
<1>. QED
  BY <1>1, Invariant, PTL

\* The timer's budget ends with the headers.
THEOREM BodyIsNotTimed == Spec => []TimerSparesBody
<1>1. IInv => TimerSparesBody
  BY DEF IInv, Orderly, Timed, TimerSparesBody
<1>. QED
  BY <1>1, Invariant, PTL

\* No upstream exchange outlives its client or the server.
THEOREM NoOrphanExchange == Spec => []HangUpReleasesUpstream
<1>1. IInv => HangUpReleasesUpstream
  BY DEF IInv, Orderly, Released, HangUpReleasesUpstream
<1>. QED
  BY <1>1, Invariant, PTL

\* An answer that ends normally is complete.
THEOREM NoAnswerIsCut == Spec => []WholeOrBroken
<1>1. IInv => WholeOrBroken
  BY DEF IInv, Orderly, Whole, WholeOrBroken
<1>. QED
  BY <1>1, Invariant, PTL

\* No response gets a second head.
THEOREM HeadIsFinal == Spec => OneHead
<1>1. IInv /\ [Next]_vars => [\A r \in Requests : status[r] # "none" => status'[r] = status[r]]_vars
  <2>. SUFFICES ASSUME IInv, Next, NEW r \in Requests, status[r] # "none"
                PROVE  status'[r] = status[r]
    OBVIOUS
  <2>1. status \in [Requests -> Statuses] /\ InPhase(r)
    BY DEF IInv, TypeOK, Orderly
  <2>2. phase[r] \notin {"none", "receiving", "awaiting", "cancelling", "text"}
    BY <2>1 DEF InPhase
  <2>3. ASSUME NEW q \in Requests, NEW code, q # r \/ code = status[r], Respond(q, code)
        PROVE  status'[r] = status[r]
    BY <2>1, <2>3 DEF Respond
  <2>4. CASE Start \/ Stop
    BY <2>4 DEF Start, Stop, Disconnect
  <2>5. ASSUME NEW q \in Requests,
               \/ Arrive(q) \/ BodyTooLarge(q) \/ BodyEnds(q) \/ TimerFires(q)
               \/ HeadersArrive(q) \/ RedirectArrives(q) \/ ClientTakes(q) \/ ClientLeaves(q)
        PROVE  status'[r] = status[r]
    <3>1. CASE Arrive(q) \/ BodyEnds(q)
      BY <2>1, <2>2, <2>3, <3>1 DEF Arrive, BodyEnds
    <3>2. CASE BodyTooLarge(q) \/ HeadersArrive(q)
      BY <2>1, <2>2, <3>2 DEF BodyTooLarge, HeadersArrive
    <3>3. CASE TimerFires(q) \/ RedirectArrives(q) \/ ClientTakes(q) \/ ClientLeaves(q)
      BY <3>3 DEF TimerFires, RedirectArrives, ClientTakes, ClientLeaves, Disconnect
    <3>. QED
      BY <2>5, <3>1, <3>2, <3>3
  <2>6. ASSUME NEW q \in Requests, UpstreamSends(q) \/ UpstreamEnds(q) \/ UpstreamFails(q)
        PROVE  status'[r] = status[r]
    BY <2>6 DEF UpstreamSends, UpstreamEnds, UpstreamFails
  <2>7. ASSUME NEW q \in Requests, Handler(q)
        PROVE  status'[r] = status[r]
    <3>1. CASE CancelSettles(q) \/ FetchFails(q) \/ TextSettles(q)
      BY <2>2, <2>3, <3>1 DEF CancelSettles, FetchFails, TextSettles
    <3>2. CASE ReadEnds(q)
      BY <2>3, <3>2 DEF ReadEnds
    <3>3. CASE ReadChunk(q) \/ ReadFails(q)
      BY <2>1, <3>3 DEF ReadChunk, ReadFails, HeadOnCut
    <3>. QED
      BY <2>7, <3>1, <3>2, <3>3 DEF Handler
  <2>. QED
    BY <2>4, <2>5, <2>6, <2>7 DEF Next
<1>. QED
  BY <1>1, Invariant, PTL DEF Spec, OneHead
=============================================================================

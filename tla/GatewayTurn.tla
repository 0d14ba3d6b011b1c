----------------------------- MODULE GatewayTurn -----------------------------
(***************************************************************************)
(* What the gateway does to one chat request: open the session, replace    *)
(* repeated messages by elision markers (cleanup:session-dedup), validate  *)
(* the optimized payload, repair it or fall back to the original, splice   *)
(* the result into the request and record the turn.                        *)
(*                                                                         *)
(* The handler runs without awaiting anything, so requests do not          *)
(* interleave; the clock does move under it, and every call into the store *)
(* reads it, so the session it was given may expire while it runs.         *)
(*                                                                         *)
(* A message is its content hash (of its role and text): the constants say *)
(* what the stages would read in it.                                       *)
(***************************************************************************)
EXTENDS SessionStore

CONSTANTS
  Kept,        \* messages of a preserved kind or with the role system
  Elidable,    \* messages elideItem does not refuse: no structured content, and
               \* longer than their marker, which their validator accepts
  Names,       \* symbol names and content markers
  SymbolsOf,   \* the symbols drift reads in a message
  MarkersOf,   \* its content markers: headings, fences, sections
  Directives,  \* messages holding an imperative directive
  Broken,      \* messages their own AST validator rejects
  MaxInput,    \* the input budget, in intact messages; 0 for none
  MaxPayload,  \* bound: the messages of a request
  Payloads     \* bound: the requests clients send, as sequences of messages

ASSUME TurnAssumption ==
  /\ Kept \subseteq Hashes /\ Elidable \subseteq Hashes
  /\ Directives \subseteq Hashes /\ Broken \subseteq Hashes
  /\ SymbolsOf \in [Hashes -> SUBSET Names] /\ MarkersOf \in [Hashes -> SUBSET Names]
  /\ MaxInput \in Nat /\ MaxPayload \in Nat
  /\ Payloads \subseteq BoundedSeq(Hashes, MaxPayload)

VARIABLES
  req,    \* the request being handled
  told    \* history: <<serial, hash>> when an earlier turn carried the message
          \* and was recorded in that session object

turnVars == <<vars, req, told>>

-----------------------------------------------------------------------------
Request ==
  [phase : {"none"}]
    \cup [phase : {"dedup", "optimized", "recording", "sent"},
          sid : SessionIds, serial : Nat, seen : SUBSET Hashes,
          payload : Payloads, at : 1..(MaxPayload + 1), surviving : SUBSET Hashes,
          elided : SUBSET (1..MaxPayload), recoverable : SUBSET (1..MaxPayload)]

NoRequest == [phase |-> "none"]

TurnTypeOK ==
  /\ req \in Request
  /\ told \subseteq Nat \X Hashes

Positions == 1..Len(req.payload)

Copies(h) == {i \in Positions : req.payload[i] = h}

-----------------------------------------------------------------------------
(* cleanup:session-dedup, one message at a time.                           *)

\* Mutant: what any conversation has seen counts as seen in this one.
CapturedSeen_AnySession(r) == UNION {ToSet(sessions[id].seen) : id \in Live}

\* previousBlockHashes is the seen set of the session object the handler was
\* given: it follows that object for as long as the store holds it.
CapturedSeen(r) ==
  IF Holds(sessions, r.sid, r.serial) THEN ToSet(sessions[r.sid].seen) ELSE r.seen

\* Mutant: a copy the session store could restore counts as a copy in the payload.
HasReferent_InStore(r, h) == h \in r.surviving \cup CapturedSeen(r)

\* An intact copy of the message has been kept earlier in this payload.
HasReferent(r, h) == h \in r.surviving

Repeats(r, h) == Cardinality({i \in 1..Len(r.payload) : r.payload[i] = h}) > 1

\* Rules 1 and 2, a message with nothing to refer to, and rule 3.
Preserved(r, h) ==
  \/ h \in Kept
  \/ h \notin CapturedSeen(r) /\ ~Repeats(r, h)
  \/ Repeats(r, h) /\ ~HasReferent(r, h)

AfterItem(r) ==
  LET h == r.payload[r.at]
      next == [r EXCEPT !.at = @ + 1]
  IN IF Preserved(r, h) THEN [next EXCEPT !.surviving = @ \cup {h}]
     ELSE IF h \notin Elidable THEN next
     ELSE [next EXCEPT !.elided = @ \cup {r.at},
                       !.recoverable = IF HasReferent(r, h) THEN @ \cup {r.at} ELSE @]

-----------------------------------------------------------------------------
(* Validation of a payload in which the positions in E are markers.        *)

NamesIn(of, P) == UNION {of[req.payload[i]] : i \in P}

\* Drift is measured on the payload with the recoverable markers resolved.
Effective(E) == E \ req.recoverable

Retained(of, E) ==
  Cardinality(NamesIn(of, Positions) \cap NamesIn(of, Positions \ Effective(E)))

\* 0.6 of the symbols and 0.4 of the markers, or the one of the two that there
\* is, must reach 0.6: the score 1 - retention must not exceed 0.40.
RetentionPasses(E) ==
  LET symbols == Cardinality(NamesIn(SymbolsOf, Positions))
      markers == Cardinality(NamesIn(MarkersOf, Positions))
      keptS   == Retained(SymbolsOf, E)
      keptM   == Retained(MarkersOf, E)
  IN CASE symbols > 0 /\ markers > 0 -> 6 * keptS * markers + 4 * keptM * symbols
                                          >= 6 * symbols * markers
       [] symbols > 0 /\ markers = 0 -> 5 * keptS >= 3 * symbols
       [] symbols = 0 /\ markers > 0 -> 5 * keptM >= 3 * markers
       [] OTHER -> TRUE

\* The measurement gate: a message is gone and offered no symbol to measure it by.
Unwitnessed(E) == {i \in Effective(E) : SymbolsOf[req.payload[i]] = {}}

\* Mutant: a directive in a recoverable marker counts as kept.
DirectiveLost_Resolved(E) == {i \in Effective(E) : req.payload[i] \in Directives}

\* Directives are looked for in the marker itself, recoverable or not.
DirectiveLost(E) == {i \in E : req.payload[i] \in Directives}

AstInvalid(E) == {i \in Positions \ E : req.payload[i] \in Broken}

OverBudget(E) == MaxInput > 0 /\ Cardinality(Positions \ E) > MaxInput

Failing(E) == AstInvalid(E) \cup DirectiveLost(E) \cup Unwitnessed(E)

Passes(E) == Failing(E) = {} /\ RetentionPasses(E) /\ ~OverBudget(E)

\* One repair pass: revert the messages that errors name, unless that reverts
\* nothing or everything, and keep the result only if it validates.
Repaired(E) == E \ Failing(E)

Optimized(E) ==
  CASE Passes(E) -> E
    [] ~Passes(E) /\ Repaired(E) \notin {E, {}} /\ Passes(Repaired(E)) -> Repaired(E)
    [] OTHER -> {}

-----------------------------------------------------------------------------
TurnInit == Init /\ req = NoRequest /\ told = {}

TurnTick == Tick /\ UNCHANGED <<req, told>>

Ready == req.phase \in {"none", "sent"}

Ingested(sid, serial, payload) ==
  [phase |-> "dedup", sid |-> sid, serial |-> serial, seen |-> {}, payload |-> payload,
   at |-> 1, surviving |-> {}, elided |-> {}, recoverable |-> {}]

OpenRequest(sid, payload) ==
  /\ Ready
  /\ GetOrCreateSession(sid)
  /\ req' = Ingested(sid, sessions'[sid].serial, payload)
  /\ UNCHANGED told

\* A request that is refused (not JSON) or forwarded untouched (not UTF-8) opens
\* its session and records nothing.
BypassRequest(sid) ==
  /\ Ready
  /\ GetOrCreateSession(sid)
  /\ req' = NoRequest
  /\ UNCHANGED told

DedupItem ==
  /\ req.phase = "dedup"
  /\ req.at \in Positions
  /\ LET h == req.payload[req.at]
         after == AfterItem(req)
     IN /\ IF after.elided # req.elided
             THEN StoreContent(req.sid, h)
             ELSE UNCHANGED vars
        /\ req' = [after EXCEPT !.seen = IF Holds(sessions', req.sid, req.serial)
                                           THEN ToSet(sessions'[req.sid].seen)
                                           ELSE CapturedSeen(req)]
  /\ UNCHANGED told

\* Validate, repair or fall back, and splice: the markers are spliced into the
\* request together or, when that does not succeed or does not shorten it, not
\* at all.
Optimize ==
  /\ req.phase = "dedup"
  /\ req.at \notin Positions
  /\ \E E \in {Optimized(req.elided), {}} :
       req' = [req EXCEPT !.phase = "optimized", !.elided = E]
  /\ UNCHANGED <<vars, told>>

Blocks(payload) == [i \in 1..Len(payload) |-> [hash |-> payload[i], stored |-> TRUE]]

Record ==
  /\ req.phase = "optimized"
  /\ BeginRecordTurn(req.sid, Blocks(req.payload))
  /\ req' = [req EXCEPT !.phase = "recording"]
  /\ UNCHANGED told

RecordNext == RecordBlock /\ UNCHANGED <<req, told>>

Send ==
  /\ EndRecordTurn
  /\ req' = [req EXCEPT !.phase = "sent"]
  /\ told' = told \cup ({turn.serial} \cup {sessions[id].serial : id \in Live \cap {turn.sid}})
                      \X ToSet(req.payload)

TurnNext ==
  \/ TurnTick
  \/ \E sid \in SessionIds :
       \/ \E payload \in Payloads : OpenRequest(sid, payload)
       \/ BypassRequest(sid)
  \/ DedupItem
  \/ Optimize
  \/ Record
  \/ RecordNext
  \/ Send

TurnSpec == TurnInit /\ [][TurnNext]_turnVars

-----------------------------------------------------------------------------
(* Properties of the payload that goes out.                                *)

Forwarded == req.phase \in {"optimized", "recording", "sent"}

Intact == Positions \ req.elided

\* A marker that validation took for resolvable refers to a message that is
\* there to be read: an intact copy comes before it in the very payload sent,
\* through repair, fallback and splice (session-dedup.ts:143-154).
RecoverableHasReferent ==
  Forwarded =>
    \A i \in req.elided \cap req.recoverable :
      \E j \in Intact : j < i /\ req.payload[j] = req.payload[i]

\* A message in which drift could read nothing is never replaced by a marker
\* unless a copy of it stays in the payload (drift-tracker.ts:391-456).
UnwitnessedNeverDeleted ==
  Forwarded =>
    \A i \in req.elided :
      SymbolsOf[req.payload[i]] = {} => Copies(req.payload[i]) \cap Intact # {}

\* A message holding an imperative directive goes out verbatim, whether or not
\* another copy of it does (validation/index.ts:93-122).
DirectiveSurvives ==
  Forwarded => \A i \in req.elided : req.payload[i] \notin Directives

\* What goes out satisfies what the engine's validation looked at, though repair,
\* fallback and the splice came after it (engine/index.ts:301-335).
SentIsValidated == UnwitnessedNeverDeleted /\ DirectiveSurvives

\* A message that is replaced by a marker and has no other copy in the payload
\* was carried by an earlier turn recorded in the same session object: neither
\* another conversation's messages, nor those of an expired session under the
\* same id, make a message of this one disappear (session-dedup.ts:109-121).
DeletedOnlyIfCarriedBefore ==
  req.phase \in {"optimized", "recording"} =>
    \A i \in req.elided :
      Copies(req.payload[i]) \cap Intact = {} => <<req.serial, req.payload[i]>> \in told

\* What the gateway's documentation says of a sole copy: the marker it would
\* leave is one the model cannot resolve, so it is never sent.
SoleCopyNeverElided ==
  Forwarded => \A i \in req.elided : Copies(req.payload[i]) \cap Intact # {}
=============================================================================

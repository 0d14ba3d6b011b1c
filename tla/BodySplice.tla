------------------------------ MODULE BodySplice ------------------------------
(***************************************************************************)
(* How the gateway writes elision markers into the bytes of a request      *)
(* (forwardableBody, src/src/gateway/proxy.ts): it scans the body for the  *)
(* span of every message's content and replaces those; when the scan does  *)
(* not understand the body it searches for the canonical encoding of each  *)
(* message's text, forward from where the previous one ended.              *)
(*                                                                         *)
(* A body arrives as marks: brackets, colons, commas, quotes, the escape,  *)
(* and whole words for runs of other characters. What the parser makes of  *)
(* it is given by the structure the body was written from, not by the      *)
(* scan. White space, which both step over, is left out, and so are bodies *)
(* the parser refuses.                                                     *)
(***************************************************************************)
EXTENDS Integers, Sequences, FiniteSets, SequencesExt

CONSTANTS
  Bodies,   \* the requests that may arrive, as structures
  Long      \* texts a marker is shorter than

Quote == "\""

Escape == "\\"

\* A member of an object: its key, a string as it is spelled, and the marks of its value.
Members(Marks) == [key : Seq(Marks), value : Seq(Marks)]

\* A message is the members of its object. A null message has none.
Null == <<>>

VARIABLES
  body,      \* the request's structure
  raw,       \* the request as received
  replaced,  \* the messages that session-dedup turned into markers
  phase,     \* "scan", "search", and how it ended: "spliced" or "searched"
  entry,     \* the message whose text is searched for; 0 is the system prompt
  cursor,    \* the first mark not consumed
  edits      \* the ranges overwritten: first mark, the mark after the last, message

vars == <<body, raw, replaced, phase, entry, cursor, edits>>

-----------------------------------------------------------------------------
(* Encoding, and the body as it is written.                                *)

\* An escape that is not itself escaped: an even number of them stands right before.
Introduces(literal, i) ==
  /\ literal[i] = Escape
  /\ Cardinality({j \in 2..(i - 1) : \A k \in j..(i - 1) : literal[k] = Escape}) % 2 = 0

\* What a string spells: an escape stands for the character after it.
Decoded(literal) ==
  FlattenSeq([i \in 1..(Len(literal) - 2) |-> IF Introduces(literal, i + 1) THEN <<>> ELSE <<literal[i + 1]>>])

\* JSON.stringify of a text: only quotes and escapes are escaped.
Encoded(text) ==
  <<Quote>> \o FlattenSeq([i \in DOMAIN text |-> IF text[i] \in {Quote, Escape} THEN <<Escape, text[i]>> ELSE <<text[i]>>])
            \o <<Quote>>

Marker == Encoded(<<"marker">>)

Listed(parts) == FlattenSeq([i \in DOMAIN parts |-> (IF i = 1 THEN <<>> ELSE <<",">>) \o parts[i]])

Object(members) ==
  <<"{">> \o Listed([i \in DOMAIN members |-> members[i].key \o <<":">> \o members[i].value]) \o <<"}">>

Rendered(b) ==
  LET message(m) == IF b.messages[m] = Null THEN <<"null">> ELSE Object(b.messages[m])
      list == <<"[">> \o Listed([m \in DOMAIN b.messages |-> message(m)]) \o <<"]">>
  IN Object(b.before \o <<[key |-> Encoded(<<"messages">>), value |-> list]>> \o b.after)

-----------------------------------------------------------------------------
(* What the parser makes of it.                                            *)

\* The members of that name. The parser keeps the last of them.
Named(members, name) == {i \in DOMAIN members : Decoded(members[i].key) = <<name>>}

\* The list given last is the one of messages; one without content is an error before
\* anything is spliced.
ASSUME SpliceAssumption ==
  \A b \in Bodies :
    /\ b.before \in Seq(Members(STRING))
    /\ b.messages \in Seq(Seq(Members(STRING)))
    /\ \A m \in DOMAIN b.messages : b.messages[m] # Null => Named(b.messages[m], "content") # {}
    /\ b.after \in Seq(Members(STRING)) /\ Named(b.after, "messages") = {}
    /\ b.anthropic \in BOOLEAN

IsString(value) == value[1] = Quote

\* A string says what it spells; anything else is made a string again.
Flattened(value) == IF IsString(value) THEN Decoded(value) ELSE value

Messages == DOMAIN body.messages

Holes == {m \in Messages : body.messages[m] = Null}

ContentOf(m) == body.messages[m][Max(Named(body.messages[m], "content"))].value

RootMembers == body.before \o body.after

SystemValue == RootMembers[Max(Named(RootMembers, "system"))].value

\* There is a system prompt, and it is not null or empty.
IncludeSystem ==
  body.anthropic /\ Named(RootMembers, "system") # {} /\ SystemValue \notin {<<"null">>, <<Quote, Quote>>}

\* The text of an entry: of the system prompt, of a message, of a null one.
TextOf(m) ==
  CASE m = 0 -> Flattened(SystemValue)
    [] m \in Holes -> <<>>
    [] m \in Messages \ Holes -> Flattened(ContentOf(m))

\* Only a text can have become a marker.
Elidable == {m \in Messages \ Holes : IsString(ContentOf(m)) /\ TextOf(m) \in Long}

-----------------------------------------------------------------------------
(* The scan. It returns nothing, or what it found, as a set of at most one; *)
(* a place is the index of a mark, and 0 stands for none.                   *)

StringEnd(s, start) ==
  LET end[i \in 1..(Len(s) + 2)] ==
        CASE i > Len(s) -> 0
          [] i <= Len(s) /\ s[i] = Escape -> end[i + 2]
          [] i <= Len(s) /\ s[i] = Quote  -> i + 1
          [] OTHER -> end[i + 1]
  IN end[start + 1]

\* Only brackets of the first one's kind are counted, and strings are stepped over.
BracketEnd(s, start) ==
  LET open  == s[start]
      close == IF open = "{" THEN "}" ELSE "]"
      end[i \in 0..(Len(s) + 1), depth \in 0..Len(s)] ==
        CASE i = 0 \/ i > Len(s) -> 0
          [] i \in 1..Len(s) /\ s[i] = Quote -> end[StringEnd(s, i), depth]
          [] i \in 1..Len(s) /\ s[i] = open  -> end[i + 1, depth + 1]
          [] i \in 1..Len(s) /\ s[i] = close -> IF depth = 1 THEN i + 1 ELSE end[i + 1, depth - 1]
          [] OTHER -> end[i + 1, depth]
  IN end[start, 0]

\* A number, true, false or null ends at the first structural character.
PrimitiveEnd(s, start) ==
  LET end == CHOOSE i \in start..(Len(s) + 1) :
               /\ i = Len(s) + 1 \/ s[i] \in {",", "}", "]"}
               /\ \A j \in start..(i - 1) : s[j] \notin {",", "}", "]"}
  IN IF end = start THEN 0 ELSE end

ValueEnd(s, start) ==
  CASE start > Len(s) -> 0
    [] start <= Len(s) /\ s[start] = Quote -> StringEnd(s, start)
    [] start <= Len(s) /\ s[start] \in {"{", "["} -> BracketEnd(s, start)
    [] OTHER -> PrimitiveEnd(s, start)

At(s, i, mark) == i \in DOMAIN s /\ s[i] = mark

\* The spans of the members of the object there, with their decoded names.
Scanned(s, start) ==
  LET from[i \in 1..(Len(s) + 1)] ==
        LET colon == StringEnd(s, i)
            end   == ValueEnd(s, colon + 1)
            this  == [name |-> Decoded(SubSeq(s, i, colon - 1)), start |-> colon + 1, end |-> end]
        IN CASE At(s, i, "}") -> {<<>>}
             [] At(s, i, Quote) /\ colon # 0 /\ At(s, colon, ":") /\ end # 0 /\ At(s, end, ",") ->
                  {<<this>> \o rest : rest \in from[end + 1]}
             [] At(s, i, Quote) /\ colon # 0 /\ At(s, colon, ":") /\ end # 0 /\ At(s, end, "}") -> {<<this>>}
             [] OTHER -> {}
  IN IF At(s, start, "{") THEN from[start + 1] ELSE {}

Matches(members, key) == {i \in DOMAIN members : members[i].name = <<key>>}

\* Mutant: the first of two members of a name is taken.
MemberValue_First(s, start, key) ==
  {members[Min(Matches(members, key))] : members \in {seq \in Scanned(s, start) : Matches(seq, key) # {}}}

\* The last of several members of a name, as the parser does.
MemberValue(s, start, key) ==
  {members[Max(Matches(members, key))] : members \in {seq \in Scanned(s, start) : Matches(seq, key) # {}}}

\* The spans of the contents of the messages in the list there.
ContentSpans(s, start) ==
  LET from[i \in 1..(Len(s) + 1)] ==
        LET end     == ValueEnd(s, i)
            content == MemberValue(s, i, "content")
        IN CASE end = 0 \/ content = {} -> {}
             [] end # 0 /\ content # {} /\ At(s, end, ",") ->
                  {<<this>> \o rest : this \in content, rest \in from[end + 1]}
             [] end # 0 /\ content # {} /\ At(s, end, "]") -> {<<this>> : this \in content}
             [] OTHER -> {}
  IN IF At(s, start + 1, "]") THEN {<<>>} ELSE from[start + 1]

\* The spans of all entries, that of the system prompt first.
Spans(s) ==
  LET system   == IF IncludeSystem THEN {<<span>> : span \in MemberValue(s, 1, "system")} ELSE {<<>>}
      messages == {span \in MemberValue(s, 1, "messages") : At(s, span.start, "[")}
  IN UNION {{one \o rest : one \in system, rest \in ContentSpans(s, span.start)} : span \in messages}

-----------------------------------------------------------------------------
Init ==
  /\ body \in Bodies
  /\ raw = Rendered(body)
  /\ replaced \in SUBSET Elidable \ {{}}
  /\ phase = "scan"
  /\ entry = (IF IncludeSystem THEN 0 ELSE 1)
  /\ cursor = 1
  /\ edits = <<>>

Edit(span, m) == [start |-> span.start, end |-> span.end, message |-> m]

\* The edits at those spans, if there is one for each entry and they come in order.
SpanEdits ==
  LET offset == IF IncludeSystem THEN 1 ELSE 0
      at(spans) == [k \in 1..Cardinality(replaced) |->
                      LET m == SetToSortSeq(replaced, <)[k] IN Edit(spans[m + offset], m)]
      inOrder(e) == \A k \in 2..Len(e) : e[k - 1].end <= e[k].start
  IN {e \in {at(spans) : spans \in {t \in Spans(raw) : Len(t) = Len(body.messages) + offset}} : inOrder(e)}

\* A null message has no content member: the whole scan declines.
ScanDeclines ==
  /\ phase = "scan"
  /\ SpanEdits = {}
  /\ phase' = "search"
  /\ UNCHANGED <<body, raw, replaced, entry, cursor, edits>>

\* The spliced body is sent if it is shorter in bytes, else the original.
SpliceBySpans ==
  /\ phase = "scan"
  /\ SpanEdits # {}
  /\ edits' \in SpanEdits \cup {<<>>}
  /\ phase' = "spliced"
  /\ UNCHANGED <<body, raw, replaced, entry, cursor>>

\* indexOf(JSON.stringify(text), cursor): anywhere in the marks, not only where a
\* string begins.
Hits ==
  LET from == Encoded(TextOf(entry))
  IN {i \in cursor..(Len(raw) + 1 - Len(from)) : SubSeq(raw, i, i + Len(from) - 1) = from}

Entries == 0..Len(body.messages)

SearchHit ==
  /\ phase = "search"
  /\ entry \in Entries
  /\ Hits # {}
  /\ cursor' = Min(Hits) + Len(Encoded(TextOf(entry)))
  /\ edits' = IF entry \in replaced THEN Append(edits, Edit([start |-> Min(Hits), end |-> cursor'], entry)) ELSE edits
  /\ entry' = entry + 1
  /\ UNCHANGED <<body, raw, replaced, phase>>

\* Mutant: what was spliced before the miss is kept.
MissedEdits_Kept == edits

\* One text that is not found discards every replacement.
MissedEdits == <<>>

SearchMiss ==
  /\ phase = "search"
  /\ entry \in Entries
  /\ Hits = {}
  /\ edits' = MissedEdits
  /\ phase' = "searched"
  /\ UNCHANGED <<body, raw, replaced, entry, cursor>>

SearchEnds ==
  /\ phase = "search"
  /\ entry \notin Entries
  /\ edits' \in {edits, <<>>}
  /\ phase' = "searched"
  /\ UNCHANGED <<body, raw, replaced, entry, cursor>>

Next == ScanDeclines \/ SpliceBySpans \/ SearchHit \/ SearchMiss \/ SearchEnds

Spec == Init /\ [][Next]_vars

\* The marks with a marker in place of each range.
Spliced ==
  LET after[k \in 0..Len(edits)] == IF k = 0 THEN 1 ELSE edits[k].end
      upTo[k \in 0..Len(edits)] ==
        IF k = 0 THEN <<>> ELSE upTo[k - 1] \o SubSeq(raw, after[k - 1], edits[k].start - 1) \o Marker
  IN upTo[Len(edits)] \o SubSeq(raw, after[Len(edits)], Len(raw))

-----------------------------------------------------------------------------
(* Properties of the body sent.                                            *)

\* The search stays within the body and its entries.
TypeOK ==
  /\ body \in Bodies /\ raw = Rendered(body)
  /\ replaced \subseteq Messages
  /\ phase \in {"scan", "search", "spliced", "searched"}
  /\ entry \in 0..(Len(body.messages) + 1)
  /\ cursor \in 1..(Len(raw) + 1)
  /\ phase # "spliced" => edits \in Seq([start : 1..Len(raw), end : 1..(Len(raw) + 1), message : Messages])

\* The body as it should be sent: the content of every message replaced is a marker,
\* and the rest is what was received.
Intended ==
  Rendered([body EXCEPT !.messages =
    [m \in Messages |-> IF m \notin replaced THEN body.messages[m]
                        ELSE [body.messages[m] EXCEPT ![Max(Named(body.messages[m], "content"))].value = Marker]]])

\* The markers go in together or not at all: a request never goes out with some of
\* its repetitions elided and others not. Each is for a message of its own, they come
\* in the order of the messages and none inside another, and what each overwrites
\* reads as the message it stands for (proxy.ts:1005-1023).
WholeAndInPlace ==
  phase = "searched" /\ edits # <<>> =>
    /\ {edits[k].message : k \in DOMAIN edits} = replaced
    /\ \A k \in DOMAIN edits :
         SubSeq(raw, edits[k].start, edits[k].end - 1) = Encoded(TextOf(edits[k].message))
    /\ \A j, k \in DOMAIN edits :
         j < k => edits[j].message < edits[k].message /\ edits[j].end <= edits[k].start

\* Without a null message, the values overwritten are the contents of the messages
\* replaced and nothing else, as the parser reads them: whatever else the body holds
\* under such names, however its keys are spelled and whatever keys are given twice,
\* and wherever the system prompt stands (proxy.ts:776-1003).
SpansHitContent == phase \in {"spliced", "searched"} /\ Holes = {} => Spliced \in {raw, Intended}

\* What the code says of the search: that walking every message in order "keeps
\* position and identity in agreement" (proxy.ts:761-762), and that where it does not
\* find them "the splice declines, and the caller's bytes go out unchanged — a lost
\* saving, not a corruption" (proxy.ts:1305-1306).
OnlyContentsChange == phase = "searched" => Spliced \in {raw, Intended}
=============================================================================

---------------------------- MODULE Compression ----------------------------
(***************************************************************************)
(* One item through the two stages that replace content: token hashing,    *)
(* which puts markers in the place of function bodies, statements or the   *)
(* whole item, and delta compression, which puts the item's diff against   *)
(* an earlier version in the place of what is not elided yet.              *)
(*                                                                         *)
(* Every text a family of items can hold is written first, atom by atom.   *)
(* What the token ceiling keeps of a division is left open here: Engine    *)
(* says which parts it takes.                                              *)
(***************************************************************************)
EXTENDS RegionElision, LineDiff

CONSTANTS
  Families,    \* sequence of families of items: see FamilyAssumption
  NoVersion    \* no earlier version of an item

\* The texts a family gives its items and their earlier versions.
FamilyTexts(f) ==
  {f.head, f.tail} \cup f.pieces \cup (f.bases \ {NoVersion})
    \cup UNION {{p[n].text : n \in DOMAIN p} : p \in f.previous}

IsSequence(s) == s \in Seq(ToSet(s))

\* A family fixes the tags of its items, how their texts begin and end, the
\* pieces they are written with and how many (bound), what keepDocstrings is,
\* and the versions a host may supply: those of earlier items, each with what
\* it shares with the item, and those it knows by path ("" if it knows none).
\* The texts, and the lists of versions, are sequences.
ASSUME FamilyAssumption ==
  \A n \in DOMAIN Families : LET f == Families[n] IN
    /\ DOMAIN f = {"tag", "ext", "type", "structured", "head", "pieces", "tail",
                   "max", "keepDocstrings", "previous", "bases"}
    /\ f.max \in Nat /\ f.structured \in BOOLEAN /\ f.keepDocstrings \in BOOLEAN
    /\ \A s \in FamilyTexts(f) \cup f.previous : IsSequence(s)

VARIABLES
  family,  \* which family the item is of
  written, \* how many pieces have been written
  item,    \* the item as it is ingested
  phase,   \* "writing", "hashing", "delta" or "done"
  spans,   \* the spans token hashing replaced, or tried to
  outcome  \* what the stages made of the item

vars == <<family, written, item, phase, spans, outcome, diffVars>>

compressionVars == <<family, written, item, phase, spans, outcome>>

Family == Families[family]

Untouched == Skipped(item, "untouched")

Init ==
  /\ family \in DOMAIN Families /\ written = 0 /\ phase = "writing"
  /\ item = [tag |-> Family.tag, ext |-> Family.ext, type |-> Family.type,
             structured |-> Family.structured, text |-> Family.head]
  /\ spans = <<>> /\ outcome = Untouched /\ IdleDiff

\* The item's text grows by a piece, or is finished and ingested.
Write ==
  /\ phase = "writing" /\ written < Family.max
  /\ \E piece \in Family.pieces : item' = [item EXCEPT !.text = @ \o piece]
  /\ written' = written + 1 /\ outcome' = Skipped(item', "untouched")
  /\ UNCHANGED <<family, phase, spans, diffVars>>

Ingest ==
  /\ phase = "writing"
  /\ item' = [item EXCEPT !.text = @ \o Family.tail]
  /\ outcome' = Skipped(item', "untouched") /\ phase' = "hashing"
  /\ UNCHANGED <<family, written, spans, diffVars>>

Regions == selectElisionRegions(item, Family.keepDocstrings)

\* Whether the drift tracker would find a symbol in the item.
hasExtractableSymbols ==
  LET language == selectFastValidator(item)
  IN \E i \in DOMAIN item.text :
       IF language = "python" THEN item.text[i].kind \in {"def", "block"}
       ELSE item.text[i] \in {"F", "C"}

Hashed(tried, result) ==
  /\ phase = "hashing" /\ phase' = "delta"
  /\ spans' = tried /\ outcome' = result
  /\ UNCHANGED <<family, written, item, diffVars>>

\* Without a ceiling every region goes.
HashRegions == Regions # <<>> /\ Hashed(Regions, elideRegions(item, Regions))

\* The spans a ceiling chooses from: the division of each region, or the
\* region where it has none.
Offered ==
  LET division(r) == splitRegionIntoStatements(item, r)
  IN FlattenSeq([n \in DOMAIN Regions |->
       IF Len(division(Regions[n])) > 1 THEN division(Regions[n]) ELSE <<Regions[n]>>])

\* Under a ceiling any of them may go.
HashToCeiling ==
  \E offered \in {Offered} : \E taken \in SUBSET DOMAIN offered :
    \E kept \in {SetToSortSeq({offered[n] : n \in taken}, LAMBDA a, b : a[1] < b[1])} :
      taken # {} /\ kept # Regions /\ Hashed(kept, elideRegions(item, kept))

\* An item without a region goes whole, unless it has a symbol to lose.
HashWhole ==
  LET marker == IF selectFastValidator(item) = "python"
                THEN <<[indent |-> 0, kind |-> "marker"]>> ELSE <<"M">>
  IN /\ Regions = <<>>
     /\ Hashed(<<>>, IF hasExtractableSymbols THEN Skipped(item, "no_savings")
                     ELSE elideItem(item, marker))

\* The stage did not run, or left the item to the ceiling.
HashNothing == Hashed(<<>>, Untouched)

-----------------------------------------------------------------------------
\* A line ends before its line feed, and before a carriage return that precedes it.
LinesOf(text) ==
  LET feeds == Ascending({i \in DOMAIN text : text[i] = NL})
      ends == <<0>> \o feeds \o <<Len(text) + 1>>
      upTo(end) == IF end \in DOMAIN text /\ AtomAt(text, end - 1) = CR THEN end - 2 ELSE end - 1
  IN [n \in 1..(Len(ends) - 1) |-> SubSeq(text, ends[n] + 1, upTo(ends[n + 1]))]

\* The text to diff against: that of the first earlier item sharing a path, an
\* id or an origin with this one, then the one known by its path.
getBaseContent(previous, base) ==
  LET sharing == {n \in DOMAIN previous : previous[n].shares # {}}
  IN IF sharing # {} THEN previous[Min(sharing)].text ELSE base

Delta(base) ==
  /\ phase = "delta" /\ outcome.status # "elided" /\ search = "idle"
  /\ base # NoVersion /\ base # item.text
  /\ StartDiff(LinesOf(base), LinesOf(item.text))
  /\ UNCHANGED compressionVars

DeltaItem ==
  \E previous \in Family.previous, base \in Family.bases :
    Delta(getBaseContent(previous, base))

\* The diff as text: the marker and the labels, then the hunks.
Rendered ==
  LET line(o) == <<NL>> \o (IF o.type = "keep" THEN <<>>
                            ELSE IF o.type = "add" THEN <<"+">> ELSE <<"-">>) \o o.line
      body(h) == <<NL, "@@">> \o FlattenSeq([n \in DOMAIN h.ops |-> line(h.ops[n])])
  IN <<"D">> \o FlattenSeq([h \in DOMAIN Hunks |-> body(Hunks[h])])

\* The diff is there: the item becomes it, if elideItem agrees.
ApplyDelta ==
  /\ phase = "delta" /\ search = "done"
  /\ outcome' = elideItem(item, Rendered) /\ phase' = "done"
  /\ UNCHANGED <<family, written, item, spans, diffVars>>

\* No version to diff against, the same version, or an elided item.
NoDelta ==
  /\ phase = "delta" /\ search = "idle"
  /\ \/ outcome.status = "elided"
     \/ \E previous \in Family.previous, base \in Family.bases :
          getBaseContent(previous, base) \in {NoVersion, item.text}
  /\ phase' = "done"
  /\ UNCHANGED <<family, written, item, spans, outcome, diffVars>>

Diffing == (Extend \/ WalkBack \/ FinishDiff) /\ UNCHANGED compressionVars

Next ==
  \/ Write \/ Ingest
  \/ HashRegions \/ HashToCeiling \/ HashWhole \/ HashNothing
  \/ DeltaItem \/ Diffing \/ ApplyDelta \/ NoDelta

Spec == Init /\ [][Next]_vars
-----------------------------------------------------------------------------
Reasons == {"structured_content", "no_savings", "post_condition_rejected"}

CompressionTypeOK ==
  /\ family \in DOMAIN Families /\ written \in 0..Family.max
  /\ phase \in {"writing", "hashing", "delta", "done"}
  /\ \A n \in DOMAIN spans : spans[n][1] \in Nat /\ spans[n][2] \in spans[n][1]..Len(item.text)
  /\ outcome.status \in Reasons \cup {"untouched", "elided"}
  /\ outcome.status # "elided" => outcome.item = item
  /\ search \in {"idle", "forward", "backward", "done"}

\* The lexical states of the validator that governs the item.
Judged == IF selectFastValidator(item) = "go" THEN GoStates(item.text) ELSE TsStates(item.text)

\* Whether a position is code to the one who judges the result.
JudgedCode(i) ==
  IF selectFastValidator(item) = "python"
  THEN /\ item.text[i].kind \notin {"doc", "triple", "comment", "blank"}
       /\ ~Py!PyLiterals(item.text)[i].triple
  ELSE /\ IsCode(Judged, i) /\ item.text[i] \notin Quotes \cup {NL}
       /\ ~(item.text[i] = "/" /\ AtomAt(item.text, i + 1) \in {"/", "*"})

\* The spans handed to the splice are "disjoint, ascending ranges" of the item
\* (elision/index.ts:202), whatever bodies are nested and whatever a ceiling took of
\* regions and of their divisions. Otherwise the whole item would be refused, since "the
\* splice would be ambiguous" (elision/index.ts:281-282).
SpansApart == phase = "delta" => Spliceable(item, spans)

\* What the scanners and the validator read differently once a marker stands before it:
\* a regular expression that begins the statement after a span, since a marker ends
\* in a bracket; and in Python a comment to the left of the block it is in, which a
\* statement is taken to begin with.
Misread ==
  IF selectFastValidator(item) = "python"
  THEN \E i \in DOMAIN item.text :
         LET next == Py!FirstWritten(item.text, i + 1, Len(item.text))
         IN /\ item.text[i].kind = "comment" /\ next \in DOMAIN item.text
            /\ item.text[next].indent > item.text[i].indent
  ELSE \E n \in DOMAIN spans :
         LET after == Min({j \in (spans[n][2] + 1)..(Len(item.text) + 1) : AtomAt(item.text, j) # NL})
         IN AtomAt(item.text, after) = "/" /\ AtomAt(item.text, after + 1) \notin {"/", "*"}


\* What a body is divided into can be removed part by part: "Every span this
\* returns is balanced: it opens no bracket it does not close and starts no
\* string it does not finish" (regions.ts:488-489).
PartsBalanced ==
  phase = "delta" /\ selectFastValidator(item) = "typescript" /\ TsIssues(item.text) = 0 =>
    \A n \in DOMAIN spans : TsIssues(Slice(item, spans[n])) = 0

\* The lines of the docstring a function begins with: one line, or those up to the line
\* that closes it.
DocstringOf(head) ==
  LET last  == Py!BodyEnd(item.text, head)
      first == Py!FirstWritten(item.text, head + 1, last)
      closing == {j \in (first + 1)..last : item.text[j].kind = "triple"}
  IN CASE first > last -> {}
       [] item.text[first].kind = "doc" -> {first}
       [] item.text[first].kind = "triple" /\ closing # {} -> first..Min(closing)
       [] OTHER -> {}

\* Whether position i lies in a body under one of those headers.
InBody(i, headers) ==
  IF selectFastValidator(item) = "python"
  THEN \E h \in 1..(i - 1) :
         /\ item.text[h].kind \in headers /\ JudgedCode(h)
         /\ \A j \in (h + 1)..i : Py!Blank(item.text[j]) \/ item.text[j].indent > item.text[h].indent
  ELSE \E h \in 1..(i - 2) :
         LET inside(m) == {j \in (h + 1)..m : JudgedCode(j)}
             Of(m, brace) == Cardinality({j \in inside(m) : item.text[j] = brace})
         IN /\ item.text[h] \in headers /\ JudgedCode(h) /\ item.text[h + 1] = "{"
            /\ \A m \in (h + 1)..(i - 1) : Of(m, "{") > Of(m, "}")

\* Where docstrings are kept, that of a function no other function encloses stays whole
\* (regions.ts:313-330), unless a line in it reads like the header of a function: the
\* lines under such an example are elided (regions.ts:344).
DocstringsStay ==
  Family.keepDocstrings /\ outcome.status = "elided" /\ Issues(item) = 0 =>
    \A head \in {h \in DOMAIN item.text :
                   item.text[h].kind = "def" /\ JudgedCode(h) /\ ~InBody(h, {"def"})} :
      \/ \E i \in DocstringOf(head) : item.text[i].kind = "def"
      \/ \A n \in DOMAIN spans : DocstringOf(head) \cap (spans[n][1]..spans[n][2]) = {}

\* A position a function's header stands at.
OpensFunction(i) ==
  IF selectFastValidator(item) = "python" THEN item.text[i].kind = "def"
  ELSE item.text[i] = "F"

\* A function's header outside every function stays: a reader of the output still sees
\* each signature of the file or of a class (regions.ts:42-51). Not so in a class whose
\* own header ends in a parenthesis, as one that extends a call: it is taken for a
\* function (regions.ts:52).
SignaturesSurvive ==
  outcome.status = "elided" /\ Issues(item) = 0 =>
    \A i \in {j \in DOMAIN item.text : OpensFunction(j) /\ JudgedCode(j)} :
      \/ InBody(i, {"F", "def", ")"})
      \/ \A n \in DOMAIN spans : i \notin spans[n][1]..spans[n][2]
=============================================================================

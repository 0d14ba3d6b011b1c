--------------------------- MODULE RegionElision ---------------------------
(***************************************************************************)
(* Which parts of an item may be replaced by a marker, and the two         *)
(* functions every stage that elides goes through: elideRegions for parts  *)
(* and elideItem for an item as a whole.                                   *)
(*                                                                         *)
(* An item has a language tag, the extension of its path, a content type,  *)
(* a shape and a text: lines of PythonSource if it is Python, otherwise    *)
(* atoms of SourceScanner. "J" is a JSON document, "W" one that wraps a    *)
(* marker. A span is a pair of its first and last position.                *)
(***************************************************************************)
EXTENDS AstValidators

CONSTANTS
  MarkerSize,    \* size of a rendered marker, in atoms
  MinRegionSize, \* the least size of a region worth eliding
  Keep           \* of a divided region, the quarters its statements must keep

ASSUME ElisionAssumption == {MarkerSize, MinRegionSize, Keep} \subseteq Nat

Py == INSTANCE PythonSource

Languages == {"typescript", "go", "python", "json"}

\* The validator that governs an item: its tag, then its path, then its type.
selectFastValidator(item) ==
  CASE item.tag \in Languages -> item.tag
    [] item.ext \in Languages -> item.ext
    [] item.type = "json" -> "json"
    [] OTHER -> "none"

regionElisionLanguage(item) ==
  LET language == selectFastValidator(item)
  IN IF language = "json" THEN "none" ELSE language

\* JSON is rendered as JSON; the content is asked only if nothing governs it.
resolveElisionSyntax(item) ==
  LET language == selectFastValidator(item)
      isJson == language = "json" \/ (language = "none" /\ item.text = <<"J">>)
  IN IF isJson THEN "json" ELSE "raw"

Issues(item) ==
  LET language == selectFastValidator(item)
  IN CASE language = "typescript" -> TsIssues(item.text)
       [] language = "go" -> GoIssues(item.text)
       [] language = "python" -> Py!PyIssues(item.text)
       [] language = "json" -> IF item.text \in {<<"J">>, <<"W">>} THEN 0 ELSE 1
       [] OTHER -> 0

\* What the marker replacing a span puts in its place. In Python the span
\* begins after the indentation of its first line.
MarkerFor(item, span) ==
  IF selectFastValidator(item) = "python"
  THEN [indent |-> item.text[span[1]].indent, kind |-> "marker"] ELSE "M"

Weight(atom) ==
  CASE atom \in {"M", "D", "W"} -> MarkerSize
    [] atom = "J" -> 2 * MarkerSize
    [] OTHER -> 1

PyWeight(line) == IF line.kind = "marker" THEN MarkerSize ELSE 1

Size(item) ==
  LET W(i) == IF selectFastValidator(item) = "python" THEN PyWeight(item.text[i])
              ELSE Weight(item.text[i])
  IN MapThenSumSet(W, DOMAIN item.text)

-----------------------------------------------------------------------------
Slice(item, span) == SubSeq(item.text, span[1], span[2])

isSubstantiveRegion(text, language) ==
  CASE language = "python" -> Py!stripPython(text)
    [] language = "go" -> stripGo(text)
    [] OTHER -> stripTypeScript(text)

\* A span that is long enough to pay for its marker and holds code.
Usable(item, span) ==
  /\ span[2] - span[1] + 1 >= MinRegionSize
  /\ isSubstantiveRegion(Slice(item, span), selectFastValidator(item))

InOrder(spans) == SetToSortSeq(spans, LAMBDA a, b : a[1] < b[1] \/ (a[1] = b[1] /\ a[2] > b[2]))

\* Mutant: the cursor moves to the end of a span that is dropped, too.
dropOverlapping_OfNeighbours(spans) ==
  LET sorted == InOrder(spans)
      kept == SelectSeq([n \in DOMAIN sorted |-> n], LAMBDA n : n = 1 \/ sorted[n][1] > sorted[n - 1][2])
  IN [k \in DOMAIN kept |-> sorted[kept[k]]]

\* In the order of their starts, the longer first; a span that begins before
\* the last one kept has ended is dropped.
dropOverlapping(spans) ==
  LET sorted == InOrder(spans)
      K[n \in 0..Len(sorted)] ==
        IF n = 0 THEN <<>>
        ELSE LET kept == K[n - 1]
             IN IF kept # <<>> /\ sorted[n][1] <= Last(kept)[2] THEN kept
                ELSE Append(kept, sorted[n])
  IN K[Len(sorted)]

Candidates(item, keepDocstrings) ==
  LET language == regionElisionLanguage(item)
  IN CASE language = "python" -> Py!scanPythonDefBodies(item.text, keepDocstrings)
       [] language = "go" -> scanGoBraceSpans(item.text)
       [] language = "typescript" -> scanBraceSpans(item.text)
       [] OTHER -> {}

selectElisionRegions(item, keepDocstrings) ==
  SelectSeq(dropOverlapping(Candidates(item, keepDocstrings)), LAMBDA s : Usable(item, s))

\* The statements of a region, as spans of the item.
StatementsOf(item, region) ==
  LET text == Slice(item, region)
      language == regionElisionLanguage(item)
      spans == CASE language = "python" -> Py!splitPythonStatements(text)
                 [] language = "go" -> splitGoStatements(text)
                 [] OTHER -> splitTypeScriptStatements(text)
  IN [n \in DOMAIN spans |-> <<region[1] + spans[n][1] - 1, region[1] + spans[n][2] - 1>>]

\* The division of a region: its usable statements, if there are two of them
\* and they keep enough of it; otherwise none.
splitRegionIntoStatements(item, region) ==
  LET usable == SelectSeq(StatementsOf(item, region), LAMBDA s : Usable(item, s))
      covered == MapThenSumSet(LAMBDA n : usable[n][2] - usable[n][1] + 1, DOMAIN usable)
  IN IF Len(usable) <= 1 \/ 4 * covered < Keep * (region[2] - region[1] + 1)
     THEN <<>> ELSE usable

-----------------------------------------------------------------------------
Skipped(item, reason) == [status |-> reason, item |-> item]
Elided(item, text) == [status |-> "elided", item |-> [item EXCEPT !.text = text]]

\* The text with a marker in the place of every span.
Splice(item, spans) ==
  LET T[n \in 0..Len(spans)] ==
        IF n = 0 THEN <<>>
        ELSE LET from == IF n = 1 THEN 1 ELSE spans[n - 1][2] + 1
             IN T[n - 1] \o SubSeq(item.text, from, spans[n][1] - 1)
                         \o <<MarkerFor(item, spans[n])>>
      rest == IF spans = <<>> THEN 1 ELSE Last(spans)[2] + 1
  IN T[Len(spans)] \o SubSeq(item.text, rest, Len(item.text))

\* Spans the splice can take: in order, not empty, inside the text.
Spliceable(item, spans) ==
  \A n \in DOMAIN spans :
    /\ spans[n][1] > (IF n = 1 THEN 0 ELSE spans[n - 1][2])
    /\ spans[n][1] <= spans[n][2] /\ spans[n][2] <= Len(item.text)

elideRegions(item, spans) ==
  CASE item.structured -> Skipped(item, "structured_content")
    [] spans = <<>> -> Skipped(item, "no_savings")
    [] resolveElisionSyntax(item) = "json" \/ ~Spliceable(item, spans) ->
         Skipped(item, "post_condition_rejected")
    [] OTHER ->
         LET candidate == [item EXCEPT !.text = Splice(item, spans)]
         IN CASE Size(candidate) >= Size(item) -> Skipped(item, "no_savings")
              [] Issues(candidate) > Issues(item) -> Skipped(item, "post_condition_rejected")
              [] OTHER -> Elided(item, candidate.text)

\* The marker as the item must carry it: inside a JSON document, or bare.
renderElisionContent(marker, syntax) == IF syntax = "json" THEN <<"W">> ELSE marker

elideItem(item, marker) ==
  IF item.structured THEN Skipped(item, "structured_content")
  ELSE LET content == renderElisionContent(marker, resolveElisionSyntax(item))
           candidate == [item EXCEPT !.text = content]
       IN CASE Size(candidate) >= Size(item) -> Skipped(item, "no_savings")
            [] Issues(candidate) > 0 -> Skipped(item, "post_condition_rejected")
            [] OTHER -> Elided(item, content)

=============================================================================

--------------------------- MODULE SourceScanner ---------------------------
(***************************************************************************)
(* The hand-written lexers for TypeScript and Go: the scanners that say    *)
(* where a function body is, where a statement ends and whether a text     *)
(* holds code, and the validators that judge the text an elision leaves.   *)
(*                                                                         *)
(* A text is a sequence of atoms. An atom is a character the lexers tell   *)
(* from the others, or a run of characters they all read alike:            *)
(*   "F"  a function header up to its parameter list, as `function f(a)`   *)
(*   "I"  a control-flow header, as `if (x)`                               *)
(*   "C"  a header that is neither, as `class K` or `type T struct`        *)
(*   "r"  a reserved word of ts-validator.ts; "a" any other word character *)
(*   "${" the opening of an interpolation; "M" an elision marker, "D" the  *)
(*        marker and labels of a delta, "@@" the head of a hunk            *)
(* The two quotes of a string are one atom. Blanks other than a line feed  *)
(* are left out, but every header and marker ends a word.                  *)
(***************************************************************************)
EXTENDS Integers, Sequences, FiniteSets, FiniteSetsExt, SequencesExt

NL == "\n"

\* A carriage return is a blank to the lexers. The line diff drops one before a line feed.
CR == "\r"

Quotes == {"quote", "tick"}
Openers == {"(", "[", "{", "${"}
Closers == {")", "]", "}"}
Pairs == {<<"(", ")">>, <<"[", "]">>, <<"{", "}">>, <<"${", "}">>}

\* The atom at a position, and nothing past the ends.
AtomAt(text, i) == IF i \in DOMAIN text THEN text[i] ELSE ""

\* The last character of an atom, as the rule for a regular expression reads it.
LastChar(c) ==
  CASE c \in {"F", "I"} -> ")"
    [] c \in {"M", "D"} -> "]"
    [] c = "${" -> "{"
    [] c = "C" -> "a"
    [] OTHER -> c

\* The punctuation after which a slash begins a regular expression.
RegexMayFollow == {"", "(", "[", "{", "}", ";", "*", "+", "-"}

\* The states a lexer is in before the first atom and before each later one.
Run(text, start, Step(_, _)) ==
  LET S[i \in 0..Len(text)] ==
        IF i = 0 THEN <<start>>
        ELSE LET before == S[i - 1] IN Append(before, Step(before[i], i))
  IN S[Len(text)]

-----------------------------------------------------------------------------
(* The scanners of regions.ts. They share their lexical states and differ  *)
(* in a few rules:                                                         *)
(*   regex    a slash may begin a regular expression                       *)
(*   raw      a backtick string takes no escapes                           *)
(*   line     a line feed ends a quoted string                             *)
(*   cutsAt   what ends a statement at depth 0; a semicolon that does is   *)
(*            not remembered as the last significant character             *)

TypeScriptRules ==
  [regex |-> TRUE, raw |-> FALSE, line |-> FALSE, cutsAt |-> {}]

GoRules == [regex |-> FALSE, raw |-> TRUE, line |-> TRUE, cutsAt |-> {}]

TypeScriptStripRules == [TypeScriptRules EXCEPT !.regex = FALSE]

\* Before the first atom: upto is the last atom a lookahead consumed, cuts
\* the ends of the statements found so far.
Fresh == [mode |-> "code", upto |-> 0, prev |-> "", depth |-> 0, cuts |-> <<>>]

\* The terminators after a statement and the end of its line, if that follows.
ThroughLineEnd(text, from) ==
  LET semis == Max({e \in (from - 1)..Len(text) :
                      \A j \in from..e : text[j] = ";"})
  IN IF AtomAt(text, semis + 1) = NL THEN semis + 1 ELSE semis

\* A statement of TypeScript ends here: its terminators are skipped unread.
CutThroughLine(s, text, i) ==
  LET end == ThroughLineEnd(text, i + 1)
  IN [s EXCEPT !.upto = end, !.cuts = Append(@, end)]


\* A line feed outside every literal ends a statement of Go at depth 0.
AtLineFeed(s, i, rules) ==
  IF NL \in rules.cutsAt /\ s.depth = 0 THEN [s EXCEPT !.cuts = Append(@, i)] ELSE s

InCode(s, text, i, rules) ==
  LET c == text[i]
      next == AtomAt(text, i + 1)
      seen == [s EXCEPT !.prev = LastChar(c)]
  IN CASE c = "/" /\ next \in {"/", "*"} ->
            [s EXCEPT !.mode = IF next = "/" THEN "//" ELSE "/*", !.upto = i + 1]
       [] c = "/" /\ rules.regex /\ s.prev \in RegexMayFollow ->
            [s EXCEPT !.mode = "regex"]
       [] c \in Quotes -> [s EXCEPT !.mode = c]
       [] c \in Openers -> [seen EXCEPT !.depth = @ + 1]
       [] c \in Closers ->
            LET closed == [seen EXCEPT !.depth = @ - 1]
            IN IF c = "}" /\ c \in rules.cutsAt /\ closed.depth = 0
               THEN CutThroughLine(closed, text, i) ELSE closed
       [] c = ";" /\ c \in rules.cutsAt /\ s.depth = 0 -> CutThroughLine(s, text, i)
       [] c = NL -> AtLineFeed(s, i, rules)
       [] OTHER -> seen

InLiteral(s, text, i, rules) ==
  LET c == text[i]
      past == [s EXCEPT !.upto = i + 1]
      code == [s EXCEPT !.mode = "code"]
  IN CASE s.mode = "//" -> IF c = NL THEN AtLineFeed(code, i, rules) ELSE s
       [] s.mode = "/*" ->
            IF c = "*" /\ AtomAt(text, i + 1) = "/" THEN [past EXCEPT !.mode = "code"] ELSE s
       [] c = "\\" /\ ~(rules.raw /\ s.mode = "tick") -> past
       [] s.mode = "regex" /\ c = "/" -> [code EXCEPT !.prev = "/"]
       [] s.mode = "regex" /\ c = NL -> code
       [] c = s.mode -> [code EXCEPT !.prev = c]
       [] s.mode = "quote" /\ c = NL /\ rules.line -> code
       [] OTHER -> s

Scanned(text, rules) ==
  Run(text, Fresh,
      LAMBDA s, i : CASE i <= s.upto -> s
                      [] s.mode = "code" -> InCode(s, text, i, rules)
                      [] OTHER -> InLiteral(s, text, i, rules))

\* Whether the atom at i is read as code by the lexer whose states these are.
IsCode(states, i) == states[i].mode = "code" /\ i > states[i].upto

-----------------------------------------------------------------------------
\* The brace pairs of a text: each closing brace ends the innermost open one,
\* and one that ends nothing is passed over.
BracePairs(text, states) ==
  LET Braces == SelectSeq([i \in DOMAIN text |-> i],
                          LAMBDA i : IsCode(states, i) /\ text[i] \in {"{", "${", "}"})
      P[n \in 0..Len(Braces)] ==
        IF n = 0 THEN [open |-> <<>>, pairs |-> {}]
        ELSE LET before == P[n - 1]
                 i == Braces[n]
             IN CASE text[i] # "}" -> [before EXCEPT !.open = Append(@, i)]
                  [] before.open = <<>> -> before
                  [] OTHER -> [open |-> Front(before.open),
                               pairs |-> before.pairs \cup {<<Last(before.open), i>>}]
  IN P[Len(Braces)].pairs

\* The text of the line before an opening brace.
Header(text, open) ==
  LET lineFeeds == {j \in 1..(open - 1) : text[j] = NL}
  IN SubSeq(text, Max(lineFeeds \cup {0}) + 1, open - 1)

\* Mutant: a class header begins a body like any other.
FunctionHeader_AnyButControl(header) ==
  header # <<>> /\ \A i \in DOMAIN header : header[i] # "I"

\* A header ending in a parameter list, unless control flow is on its line.
FunctionHeader(header) ==
  /\ header # <<>> /\ LastChar(Last(header)) = ")"
  /\ \A i \in DOMAIN header : header[i] # "I"

\* In Go a function header begins with its keyword.
GoFunctionHeader(header) == header # <<>> /\ header[1] = "F"

\* What lies between the braces of a pair.
Body(pair) == <<pair[1] + 1, pair[2] - 1>>

scanBraceSpans(text) ==
  {Body(p) : p \in {q \in BracePairs(text, Scanned(text, TypeScriptRules)) :
                      FunctionHeader(Header(text, q[1]))}}

scanGoBraceSpans(text) ==
  {Body(p) : p \in {q \in BracePairs(text, Scanned(text, GoRules)) :
                      GoFunctionHeader(Header(text, q[1]))}}

\* The statements a scan found: what lies between one cut and the next, where
\* that is more than blank.
Cut(text, states) ==
  LET ends == <<0>> \o states[Len(text) + 1].cuts \o <<Len(text)>>
      spans == [n \in 1..(Len(ends) - 1) |-> <<ends[n] + 1, ends[n + 1]>>]
  IN SelectSeq(spans, LAMBDA s : \E i \in s[1]..s[2] : text[i] # NL)

splitTypeScriptStatements(text) ==
  Cut(text, Scanned(text, [TypeScriptRules EXCEPT !.cutsAt = {";", "}"}]))

splitGoStatements(text) == Cut(text, Scanned(text, [GoRules EXCEPT !.cutsAt = {NL}]))

\* Whether anything but comments, strings and blanks is left of a text.
HoldsCode(text, states) ==
  \E i \in DOMAIN text :
    /\ IsCode(states, i) /\ text[i] \notin Quotes \cup {NL}
    /\ ~(text[i] = "/" /\ AtomAt(text, i + 1) \in {"/", "*"})

stripTypeScript(text) == HoldsCode(text, Scanned(text, TypeScriptStripRules))
stripGo(text) == HoldsCode(text, Scanned(text, GoRules))
=============================================================================

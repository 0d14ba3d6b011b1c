---------------------------- MODULE PythonSource ----------------------------
(***************************************************************************)
(* Python, where a body is known by its indentation: which lines of a      *)
(* function may be replaced, where a statement begins, what is code, and   *)
(* the validator of what an elision leaves.                                *)
(*                                                                         *)
(* A text is a sequence of lines. A line has an indentation and a kind:    *)
(*   "def"    a function header, closed on its line                        *)
(*   "block"  another header ending in a colon, as `if x:` or `class K:`   *)
(*   "stmt"   a statement; "open" one that leaves a bracket open, "close"  *)
(*            a line that closes one                                       *)
(*   "doc"    a docstring on one line, in single quotes; "triple" a line   *)
(*            that begins with three quotes and holds no others            *)
(*   "comment", "blank", and "marker", a line an elision marker stands on  *)
(***************************************************************************)
EXTENDS Integers, Sequences, FiniteSets, FiniteSetsExt, SequencesExt

PyKinds == {"def", "block", "stmt", "open", "close", "doc", "triple", "comment", "blank"}

Blank(line) == line.kind = "blank"

\* The lines of a body under a header: up to the first line that is not blank
\* and no deeper than the header. Its last line is not blank.
BodyEnd(text, head) ==
  LET inside(j) == \A k \in (head + 1)..j :
                     Blank(text[k]) \/ text[k].indent > text[head].indent
  IN Max({head} \cup {j \in (head + 1)..Len(text) : inside(j) /\ ~Blank(text[j])})

\* The first line of from..to that is not blank, or the one after them all.
FirstWritten(text, from, to) ==
  Min({j \in from..to : ~Blank(text[j])} \cup {to + 1})

\* Mutant: only a string of three quotes is a docstring.
SkipDocstring_Triple(text, i, to) ==
  LET closing == {j \in (i + 1)..to : text[j].kind = "triple"}
  IN IF text[i].kind = "triple" /\ closing # {} THEN Min(closing) + 1 ELSE i

\* The line after a docstring that begins here; this line if none does or if
\* the docstring is not closed.
SkipDocstring(text, i, to) ==
  LET closing == {j \in (i + 1)..to : text[j].kind = "triple"}
  IN CASE text[i].kind = "doc" -> i + 1
       [] text[i].kind = "triple" /\ closing # {} -> Min(closing) + 1
       [] OTHER -> i

scanPythonDefBodies(text, keepDocstrings) ==
  LET region(head) ==
        LET last == BodyEnd(text, head)
            first == FirstWritten(text, head + 1, last)
            begin == IF keepDocstrings /\ first <= last
                     THEN FirstWritten(text, SkipDocstring(text, first, last), last)
                     ELSE first
        IN <<begin, last>>
      heads == {i \in DOMAIN text : text[i].kind = "def"}
  IN {r \in {region(h) : h \in heads} : r[1] <= r[2]}

\* What a splitter of statements knows before each line of a body: how many
\* brackets are open and whether a string of three quotes is.
PyLiterals(text) ==
  LET S[i \in 0..Len(text)] ==
        IF i = 0 THEN <<[depth |-> 0, triple |-> FALSE]>>
        ELSE LET before == S[i - 1]
                 s == before[i]
                 kind == text[i].kind
             IN Append(before,
                  CASE kind = "triple" -> [s EXCEPT !.triple = ~@]
                    [] s.triple -> s
                    [] kind = "open" -> [s EXCEPT !.depth = @ + 1]
                    [] kind = "close" /\ s.depth > 0 -> [s EXCEPT !.depth = @ - 1]
                    [] OTHER -> s)
  IN S[Len(text)]

\* A statement begins on a line at the body's own indentation that continues
\* nothing; the first line of a body is at that indentation by construction.
splitPythonStatements(text) ==
  LET later == {i \in DOMAIN text : i > 1 /\ ~Blank(text[i])}
      base == Min({text[i].indent : i \in later})
      states == PyLiterals(text)
      begins == SelectSeq([i \in DOMAIN text |-> i],
                  LAMBDA i : /\ ~Blank(text[i])
                             /\ states[i].depth = 0 /\ ~states[i].triple
                             /\ i = 1 \/ text[i].indent = base)
      before(n) == IF n = Len(begins) THEN Len(text) ELSE begins[n + 1] - 1
      lastOf(n) == Max({j \in begins[n]..before(n) : ~Blank(text[j])})
  IN IF later = {} THEN <<>>
     ELSE [n \in DOMAIN begins |-> <<begins[n], lastOf(n)>>]

\* Whether a line outside every string and comment is left.
stripPython(text) ==
  LET states == PyLiterals(text)
  IN \E i \in DOMAIN text : /\ text[i].kind \notin {"doc", "triple", "comment", "blank"}
                             /\ ~states[i].triple

-----------------------------------------------------------------------------
\* The validator: open brackets, the string of three quotes being read, the
\* indentations that enclose the line and whether a block must follow.
PyUnread == [depth |-> 0, triple |-> FALSE, indents |-> <<0>>, expect |-> FALSE, issues |-> 0]

\* The indentation rules, for a line of code outside strings and brackets.
Indented(s, line) ==
  LET top == Last(s.indents)
      kept == SelectSeq(s.indents, LAMBDA n : n <= line.indent)
  IN CASE s.expect /\ line.indent > top ->
            [s EXCEPT !.expect = FALSE, !.indents = Append(@, line.indent)]
       [] s.expect -> [s EXCEPT !.expect = FALSE, !.issues = @ + 1]
       [] line.indent > top -> [s EXCEPT !.issues = @ + 1]
       [] line.indent < top ->
            [s EXCEPT !.indents = kept,
                      !.issues = IF Last(kept) = line.indent THEN @ ELSE @ + 1]
       [] OTHER -> s

\* The brackets, quotes and colon of a line.
Read(s, kind) ==
  CASE kind = "triple" -> [s EXCEPT !.triple = ~@]
    [] s.triple -> s
    [] kind = "open" -> [s EXCEPT !.depth = @ + 1]
    [] kind = "close" -> IF s.depth > 0 THEN [s EXCEPT !.depth = @ - 1]
                         ELSE [s EXCEPT !.issues = @ + 1]
    [] kind \in {"def", "block"} /\ s.depth = 0 -> [s EXCEPT !.expect = TRUE]
    [] OTHER -> s

PyIssues(text) ==
  LET S[i \in 0..Len(text)] ==
        IF i = 0 THEN PyUnread
        ELSE LET s == S[i - 1]
                 checked == /\ ~s.triple /\ s.depth = 0
                            /\ text[i].kind \notin {"comment", "blank"}
             IN Read(IF checked THEN Indented(s, text[i]) ELSE s, text[i].kind)
      end == S[Len(text)]
  IN end.issues + end.depth + Cardinality({x \in {"triple", "expect"} : end[x]})
=============================================================================

--------------------------- MODULE AstValidators ---------------------------
(***************************************************************************)
(* The validators of TypeScript and Go: bracket stacks over lexers of      *)
(* their own. They count issues, since an elision inside an item may not   *)
(* leave more of them than the item had.                                   *)
(***************************************************************************)
EXTENDS SourceScanner

\* The state of a validator: the lexical mode, the last atom consumed by a
\* lookahead, the last token and the word still being read (ts-validator.ts),
\* the open brackets and the issues so far.
Unread == [mode |-> "code", upto |-> 0, last |-> "", word |-> "",
           stack |-> <<>>, issues |-> 0]

\* A word ends: a reserved word read by itself is remembered as such.
FlushWord(s) == IF s.word = "" THEN s ELSE [s EXCEPT !.last = s.word, !.word = ""]

\* A closing bracket: one issue if it closes nothing or the wrong bracket, and
\* in TypeScript the end of an interpolation is back in its template.
Close(s, c) ==
  IF s.stack = <<>> THEN [s EXCEPT !.issues = @ + 1]
  ELSE LET top == Last(s.stack)
           popped == [s EXCEPT !.stack = Front(@)]
       IN CASE <<top, c>> \notin Pairs -> [popped EXCEPT !.issues = @ + 1]
            [] top = "${" -> [popped EXCEPT !.mode = "tick"]
            [] OTHER -> popped

\* The token before the cursor, after an atom read as code: words are held
\* until they end, and a reserved word joined to another is no longer one.
Remember(s, c) ==
  CASE c = "r" /\ s.word = "" -> [s EXCEPT !.word = "r"]
    [] c \in {"a", "r"} -> [s EXCEPT !.word = "a"]
    [] OTHER -> [FlushWord(s) EXCEPT !.last = LastChar(c)]

TsCode(s, text, i) ==
  LET c == text[i]
      next == AtomAt(text, i + 1)
      flushed == FlushWord(s)
  IN CASE c = "/" /\ next \in {"/", "*"} ->
            [flushed EXCEPT !.mode = IF next = "/" THEN "//" ELSE "/*", !.upto = i + 1]
       [] c = "/" /\ flushed.last \in RegexMayFollow \cup {"r"} ->
            [flushed EXCEPT !.mode = "regex"]
       [] c \in Quotes -> [flushed EXCEPT !.mode = c]
       [] c \in Openers ->
            Remember([s EXCEPT !.stack = Append(@, IF c = "${" THEN "{" ELSE c)], c)
       [] c \in Closers -> Remember(Close(s, c), c)
       [] OTHER -> Remember(s, c)

\* A line feed ends a comment and a regular expression, and is an issue in a
\* quoted string unless a backslash stands before it.
TsLineFeed(s, text, i) ==
  CASE s.mode \in {"//", "regex", "class"} -> [s EXCEPT !.mode = "code"]
    [] s.mode = "quote" /\ AtomAt(text, i - 1) # "\\" ->
         [s EXCEPT !.mode = "code", !.issues = @ + 1]
    [] OTHER -> s

TsLiteral(s, text, i) ==
  LET c == text[i]
      past == [s EXCEPT !.upto = i + 1]
  IN CASE s.mode = "//" -> s
       [] s.mode = "/*" ->
            IF c = "*" /\ AtomAt(text, i + 1) = "/" THEN [past EXCEPT !.mode = "code"] ELSE s
       [] c = "\\" -> past
       [] s.mode \in {"regex", "class"} ->
            CASE c = "[" -> [s EXCEPT !.mode = "class"]
              [] c \in {"]", "M"} -> [s EXCEPT !.mode = "regex"]
              [] c = "/" /\ s.mode = "regex" -> [s EXCEPT !.mode = "code", !.last = "/"]
              [] OTHER -> s
       [] s.mode = "tick" /\ c = "${" ->
            [s EXCEPT !.mode = "code", !.last = "{", !.stack = Append(@, "${")]
       [] c = s.mode -> [s EXCEPT !.mode = "code", !.last = c]
       [] OTHER -> s

TsStates(text) ==
  Run(text, Unread,
      LAMBDA s, i : CASE i <= s.upto -> s
                      [] text[i] = NL -> TsLineFeed(s, text, i)
                      [] s.mode = "code" -> TsCode(s, text, i)
                      [] OTHER -> TsLiteral(s, text, i))

\* Go has no regular expressions, its raw strings take no escapes, and no
\* escape carries a quoted string over a line feed.
GoStep(s, text, i) ==
  LET c == text[i]
      next == AtomAt(text, i + 1)
      past == [s EXCEPT !.upto = i + 1]
      code == [s EXCEPT !.mode = "code"]
  IN CASE c = NL ->
            (CASE s.mode = "//" -> code
               [] s.mode = "quote" -> [code EXCEPT !.issues = @ + 1]
               [] OTHER -> s)
       [] s.mode = "//" -> s
       [] s.mode = "/*" -> IF c = "*" /\ next = "/" THEN [past EXCEPT !.mode = "code"] ELSE s
       [] s.mode = "quote" /\ c = "\\" -> IF next = NL THEN s ELSE past
       [] s.mode \in Quotes -> IF c = s.mode THEN code ELSE s
       [] c = "/" /\ next \in {"/", "*"} ->
            [past EXCEPT !.mode = IF next = "/" THEN "//" ELSE "/*"]
       [] c \in Quotes -> [s EXCEPT !.mode = c]
       [] c \in Openers -> [s EXCEPT !.stack = Append(@, IF c = "${" THEN "{" ELSE c)]
       [] c \in Closers -> Close(s, c)
       [] OTHER -> s

GoStates(text) ==
  Run(text, Unread, LAMBDA s, i : IF i <= s.upto THEN s ELSE GoStep(s, text, i))

\* A literal or a comment the end of the text cuts off, and every bracket left
\* open, is an issue as well.
AtEnd(states) ==
  LET s == Last(states)
  IN s.issues + Len(s.stack) + (IF s.mode \in Quotes \cup {"/*"} THEN 1 ELSE 0)

TsIssues(text) == AtEnd(TsStates(text))
GoIssues(text) == AtEnd(GoStates(text))
=============================================================================

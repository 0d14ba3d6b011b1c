------------------------------ MODULE LineDiff ------------------------------
(***************************************************************************)
(* The line diff of myers-diff.ts: what two versions share at both ends is *)
(* set aside, the furthest point reachable with each number of edits is    *)
(* kept row by row, and the rows are walked back into a script. Then the   *)
(* unified diff of delta-compression.ts, which shows a script as hunks.    *)
(***************************************************************************)
EXTENDS Integers, Sequences, FiniteSets, FiniteSetsExt, SequencesExt

CONSTANT ContextSize  \* lines shown around a change

ASSUME ContextAssumption == ContextSize \in Nat

VARIABLES
  old, new,  \* the two versions, as sequences of lines
  search,    \* "idle", "forward", "backward" or "done"
  trace,     \* the rows of the search so far; while walking back, those left
  at,        \* the point the walk back has reached
  script     \* the operations found, in the order of the file

diffVars == <<old, new, search, trace, at, script>>

Op(type, line) == [type |-> type, line |-> line]
Kept(lines) == [n \in DOMAIN lines |-> Op("keep", lines[n])]

\* How many lines two versions share from the start, and from the end of what
\* that leaves.
Start == Max({n \in 0..Min({Len(old), Len(new)}) :
                \A j \in 1..n : old[j] = new[j]})

\* Mutant: what is shared at the end may overlap what is shared at the start.
Tail_Overlapping == Max({n \in 0..Min({Len(old), Len(new)}) :
                          \A j \in 0..(n - 1) : old[Len(old) - j] = new[Len(new) - j]})

Tail_ == Max({n \in 0..(Min({Len(old), Len(new)}) - Start) :
                \A j \in 0..(n - 1) : old[Len(old) - j] = new[Len(new) - j]})

\* What is left between the two: the texts the search is about.
A == SubSeq(old, Start + 1, Len(old) - Tail_)
B == SubSeq(new, Start + 1, Len(new) - Tail_)

Bound == Len(A) + Len(B)

\* Down a diagonal as long as the lines agree.
Snake(x, y) ==
  x + Max({0} \cup {n \in 0..Min({Len(A) - x, Len(B) - y}) :
                      \A j \in 1..n : A[x + j] = B[y + j]})

ZeroRow == [k \in (-Bound)..Bound |-> IF k = 0 THEN Snake(0, 0) ELSE 0]

\* Whether diagonal k is entered at depth d by an insertion from the diagonal
\* above it, rather than by a deletion from the one below.
FromAbove(row, d, k) == k = -d \/ (k # d /\ row[k - 1] < row[k + 1])

Row(row, d) ==
  [k \in (-Bound)..Bound |->
     IF k \notin (-d)..d \/ (k + d) % 2 = 1 THEN row[k]
     ELSE LET x == IF FromAbove(row, d, k) THEN row[k + 1] ELSE row[k - 1] + 1
          IN Snake(x, x - k)]

Reaches(row, d) ==
  \E k \in (-d)..d : (k + d) % 2 = 0 /\ row[k] >= Len(A) /\ row[k] - k >= Len(B)

-----------------------------------------------------------------------------
IdleDiff ==
  /\ old = <<>> /\ new = <<>> /\ search = "idle"
  /\ trace = <<>> /\ at = <<0, 0>> /\ script = <<>>

StartDiff(from, to) ==
  /\ old' = from /\ new' = to
  /\ search' = "forward" /\ trace' = <<>> /\ at' = <<0, 0>> /\ script' = <<>>

\* One more row; the search ends with the first that reaches the end of both.
Extend ==
  LET d == Len(trace)
      row == IF d = 0 THEN ZeroRow ELSE Row(trace[d], d)
  IN /\ search = "forward"
     /\ trace' = Append(trace, row)
     /\ search' = IF Reaches(row, d) THEN "backward" ELSE "forward"
     /\ at' = <<Len(A), Len(B)>>
     /\ UNCHANGED <<old, new, script>>

\* From the end of row d back to where row d - 1 left off: the diagonal, then
\* the one edit between the rows.
WalkBack ==
  LET d == Len(trace) - 1
      k == at[1] - at[2]
      row == trace[d]
      before == IF FromAbove(row, d, k) THEN k + 1 ELSE k - 1
      x == row[before]
      y == x - before
      same == Max({0, Min({at[1] - x, at[2] - y})})
      edit == <<at[1] - same, at[2] - same>>
      kept == Kept(SubSeq(A, edit[1] + 1, at[1]))
  IN /\ search = "backward" /\ d > 0
     /\ IF edit[1] = x
        THEN /\ at' = <<edit[1], edit[2] - 1>>
             /\ script' = <<Op("add", B[edit[2]])>> \o kept \o script
        ELSE /\ at' = <<edit[1] - 1, edit[2]>>
             /\ script' = <<Op("delete", A[edit[1]])>> \o kept \o script
     /\ trace' = SubSeq(trace, 1, d)
     /\ UNCHANGED <<old, new, search>>

\* The diagonal of row 0, and the lines set aside at both ends.
FinishDiff ==
  /\ search = "backward" /\ Len(trace) = 1
  /\ script' = Kept(SubSeq(old, 1, Start)) \o Kept(SubSeq(A, 1, Min({at[1], at[2]})))
                 \o script \o Kept(SubSeq(old, Len(old) - Tail_ + 1, Len(old)))
  /\ search' = "done" /\ at' = <<0, 0>> /\ trace' = <<>>
  /\ UNCHANGED <<old, new>>

-----------------------------------------------------------------------------
\* The operations shown: the changes and the lines around them.
Shown == {n \in DOMAIN script :
            \E c \in DOMAIN script :
              /\ script[c].type # "keep"
              /\ n \in (c - ContextSize)..(c + ContextSize)}

\* The lines of one side among some operations.
Side(ops, type) ==
  LET S[n \in 0..Len(ops)] ==
        IF n = 0 THEN <<>>
        ELSE IF ops[n].type \in {"keep", type} THEN Append(S[n - 1], ops[n]) ELSE S[n - 1]
  IN S[Len(ops)]

\* Mutant: a hunk is placed by all operations before it, of either side.
Hunk_CountsAll(n, m) ==
  LET ops == SubSeq(script, n, m)
  IN [oldStart |-> n, oldLength |-> Len(Side(ops, "delete")),
      newStart |-> n, newLength |-> Len(Side(ops, "add")), ops |-> ops]

\* The operations n to m as a hunk, placed by the lines that come before it.
Hunk(n, m) ==
  LET before == SubSeq(script, 1, n - 1)
      ops == SubSeq(script, n, m)
  IN [oldStart |-> Len(Side(before, "delete")) + 1, oldLength |-> Len(Side(ops, "delete")),
      newStart |-> Len(Side(before, "add")) + 1, newLength |-> Len(Side(ops, "add")),
      ops |-> ops]

\* Some numbers, the smaller before the larger.
Ascending(S) ==
  CHOOSE s \in SetToSeqs(S) : \A m \in 1..Cardinality(S) : \A n \in 1..(m - 1) : s[n] < s[m]

\* A hunk for each run of operations shown, in order.
Begins == {n \in Shown : (n - 1) \notin Shown}
End(n) == Max({m \in Shown : m >= n /\ n..m \subseteq Shown})

Hunks ==
  LET begins == Ascending(Begins)
  IN [h \in DOMAIN begins |-> Hunk(begins[h], End(begins[h]))]

-----------------------------------------------------------------------------
Lines(ops) == [n \in DOMAIN ops |-> ops[n].line]

\* A finished script takes the old version to the new one.
ScriptRebuilds ==
  search = "done" => /\ Lines(Side(script, "delete")) = old
                     /\ Lines(Side(script, "add")) = new

\* The pairs of equal lines of two versions, the sets of them that go through both
\* in order, and the most lines such a set pairs.
Matches(s, t) == {p \in (DOMAIN s) \X (DOMAIN t) : s[p[1]] = t[p[2]]}
InStep(M) == \A p, q \in M : p[1] < q[1] <=> p[2] < q[2]
Longest(R) == Max({Cardinality(M) : M \in {N \in SUBSET R : InStep(N)}})

\* A finished script has as few edits as any: it keeps as many lines as any set of
\* equal lines in order has.
ScriptIsShortest ==
  search = "done" => Len(Side(script, "keep")) = Longest(Matches(old, new))

\* The way back through the saved rows is a script from the old version to the new
\* one, and none is shorter (myers-diff.ts:24-174).
ScriptIsExact == ScriptRebuilds /\ ScriptIsShortest

\* Where the old version goes on after hunk h, and the lines that follow those of hunk
\* h - 1 up to the end of hunk h.
Resume(h) == IF h = 0 THEN 1 ELSE Hunks[h].oldStart + Hunks[h].oldLength
Upto(h) == SubSeq(old, Resume(h - 1), Hunks[h].oldStart - 1) \o Lines(Side(Hunks[h].ops, "add"))

\* Applied to the old version at the lines their heads name, the hunks alone
\* give the new one.
HunksPatch ==
  search = "done" =>
    LET P[h \in 0..Len(Hunks)] == IF h = 0 THEN <<>> ELSE P[h - 1] \o Upto(h)
    IN P[Len(Hunks)] \o SubSeq(old, Resume(Len(Hunks)), Len(old)) = new
=============================================================================

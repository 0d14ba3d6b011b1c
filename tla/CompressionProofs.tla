------------------------- MODULE CompressionProofs -------------------------
(***************************************************************************)
(* The line diff of the compression stage, for any two versions: its       *)
(* script takes the one to the other with as few edits as there can be,    *)
(* and its hunks alone patch the one into the other.                       *)
(*                                                                         *)
(* The argument: the edits between two beginnings of the versions are the  *)
(* lines that are not in a longest set of equal lines in order; a row of   *)
(* the search has the furthest point each diagonal reaches with so many    *)
(* edits; so the first row that reaches the end has as many as there must  *)
(* be, and a walk back that spends one at every row finds a script as      *)
(* short.                                                                  *)
(***************************************************************************)
EXTENDS Compression, OperatorLemmas

-----------------------------------------------------------------------------
(* The lines of one side.                                                  *)

\* The types of operations, and the operations on lines of L.
Types == {"keep", "add", "delete"}

Operation(L) == [type : Types, line : L]

\* g has the operations of a side among the first of s, as far as D goes.
IsSide(g, s, type, D) ==
  g = [n \in D |-> IF n = 0 THEN <<>>
                   ELSE IF s[n].type \in {"keep", type} THEN Append(g[n - 1], s[n]) ELSE g[n - 1]]

\* The side that Side stands for.
LEMMA SideIsChosen ==
  ASSUME NEW s, NEW type
  PROVE  Side(s, type) = (CHOOSE g : IsSide(g, s, type, 0..Len(s)))[Len(s)]
BY DEF Side, IsSide

\* There is such a function.
LEMMA SideExists ==
  ASSUME NEW s, NEW type, NEW m \in Nat
  PROVE  \E g : IsSide(g, s, type, 0..m)
<1>. DEFINE T == {n \in Nat : \E g : IsSide(g, s, type, 0..n)}
<1>1. 0 \in T
  <2>1. IsSide([n \in 0..0 |-> <<>>], s, type, 0..0)
    BY DEF IsSide
  <2>. QED
    BY <2>1
<1>2. ASSUME NEW n \in Nat, n \in T PROVE n + 1 \in T
  <2>1. PICK g : IsSide(g, s, type, 0..n)
    BY <1>2
  <2>. DEFINE h == [i \in 0..(n + 1) |->
                      IF i = 0 THEN <<>>
                      ELSE IF s[i].type \in {"keep", type} THEN Append(g[i - 1], s[i]) ELSE g[i - 1]]
  <2>2. ASSUME NEW i \in 0..n PROVE h[i] = g[i]
    <3>1. g[i] = IF i = 0 THEN <<>>
                 ELSE IF s[i].type \in {"keep", type} THEN Append(g[i - 1], s[i]) ELSE g[i - 1]
      BY <2>1, Zenon DEF IsSide
    <3>2. i \in 0..(n + 1)
      OBVIOUS
    <3>3. h[i] = IF i = 0 THEN <<>>
                 ELSE IF s[i].type \in {"keep", type} THEN Append(g[i - 1], s[i]) ELSE g[i - 1]
      BY <3>2, Zenon
    <3>. QED
      BY <3>1, <3>3
  <2>3. \A i \in 0..(n + 1) : i # 0 => h[i - 1] = g[i - 1]
    <3>1. ASSUME NEW i \in 0..(n + 1), i # 0 PROVE i - 1 \in 0..n
      BY <3>1
    <3>. QED
      BY <2>2, <3>1
  <2>4. IsSide(h, s, type, 0..(n + 1))
    BY <2>3 DEF IsSide
  <2>. QED
    BY <2>4
<1>. QED
  <2>. HIDE DEF T
  <2>1. m \in T
    BY <1>1, <1>2, NatInductionBySet
  <2>. QED
    BY <2>1 DEF T

\* Two such functions agree as far as the shorter goes, if the operations do.
LEMMA SideUnique ==
  ASSUME NEW s, NEW t, NEW type, NEW g, NEW h, NEW m \in Nat, NEW k \in Nat, k <= m,
         IsSide(g, s, type, 0..m), IsSide(h, t, type, 0..k),
         \A i \in 1..k : s[i] = t[i]
  PROVE  \A i \in 0..k : g[i] = h[i]
<1>. DEFINE T == {j \in Nat : j <= k => g[j] = h[j]}
<1>1. 0 \in T
  <2>1. 0 \in 0..m /\ 0 \in 0..k
    OBVIOUS
  <2>. QED
    BY <2>1 DEF IsSide
<1>2. ASSUME NEW j \in Nat, j \in T PROVE j + 1 \in T
  <2>. SUFFICES ASSUME j + 1 <= k PROVE g[j + 1] = h[j + 1]
    OBVIOUS
  <2>. DEFINE i == j + 1
  <2>1. i \in 0..m /\ i \in 0..k /\ i \in 1..k /\ i # 0 /\ i - 1 = j /\ j <= k
    OBVIOUS
  <2>2. g[j] = h[j] /\ s[i] = t[i]
    BY <1>2, <2>1
  <2>. HIDE DEF i
  <2>3. g[i] = IF i = 0 THEN <<>>
               ELSE IF s[i].type \in {"keep", type} THEN Append(g[i - 1], s[i]) ELSE g[i - 1]
    BY <2>1, Zenon DEF IsSide
  <2>4. h[i] = IF i = 0 THEN <<>>
               ELSE IF t[i].type \in {"keep", type} THEN Append(h[i - 1], t[i]) ELSE h[i - 1]
    BY <2>1, Zenon DEF IsSide
  <2>5. g[i] = h[i]
    BY <2>1, <2>2, <2>3, <2>4
  <2>. QED
    BY <2>5 DEF i
<1>3. Nat \subseteq T
  <2>. HIDE DEF T
  <2>. QED
    BY <1>1, <1>2, NatInductionBySet
<1>. QED
  BY <1>3

\* What the function for the whole says.
LEMMA SideFunction ==
  ASSUME NEW s, NEW type, Len(s) \in Nat
  PROVE  \E g : IsSide(g, s, type, 0..Len(s)) /\ Side(s, type) = g[Len(s)]
<1>. DEFINE f == CHOOSE g : IsSide(g, s, type, 0..Len(s))
<1>1. IsSide(f, s, type, 0..Len(s))
  BY SideExists
<1>2. Side(s, type) = f[Len(s)]
  BY SideIsChosen
<1>. QED
  BY <1>1, <1>2

\* Nothing has no side.
LEMMA SideOfNothing == ASSUME NEW type PROVE Side(<<>>, type) = <<>>
<1>1. Len(<<>>) = 0
  OBVIOUS
<1>2. PICK g : IsSide(g, <<>>, type, 0..0) /\ Side(<<>>, type) = g[0]
  BY <1>1, SideFunction
<1>3. 0 \in 0..0
  OBVIOUS
<1>. QED
  BY <1>2, <1>3 DEF IsSide

\* One more operation is on the side or is not.
LEMMA SideAppend ==
  ASSUME NEW X, NEW s \in Seq(X), NEW x \in X, NEW type
  PROVE  Side(Append(s, x), type) =
           IF x.type \in {"keep", type} THEN Append(Side(s, type), x) ELSE Side(s, type)
<1>. DEFINE t == Append(s, x)
            k == Len(s)
<1>1. /\ k \in Nat /\ Len(t) = k + 1 /\ Len(t) \in Nat /\ t[k + 1] = x
      /\ \A i \in 1..k : t[i] = s[i]
  OBVIOUS
<1>. HIDE DEF t
<1>2. PICK g : IsSide(g, t, type, 0..Len(t)) /\ Side(t, type) = g[Len(t)]
  BY <1>1, SideFunction
<1>3. PICK h : IsSide(h, s, type, 0..k) /\ Side(s, type) = h[k]
  BY <1>1, SideFunction
<1>. HIDE DEF k
<1>4. g[k] = h[k]
  <2>1. k <= Len(t) /\ k \in 0..k
    BY <1>1
  <2>. QED
    BY <1>1, <1>2, <1>3, <2>1, SideUnique
<1>5. g[k + 1] = IF t[k + 1].type \in {"keep", type} THEN Append(g[k], t[k + 1]) ELSE g[k]
  <2>1. k + 1 \in 0..Len(t) /\ k + 1 # 0 /\ (k + 1) - 1 = k
    BY <1>1
  <2>2. g[k + 1] = IF k + 1 = 0 THEN <<>>
                   ELSE IF t[k + 1].type \in {"keep", type} THEN Append(g[(k + 1) - 1], t[k + 1])
                   ELSE g[(k + 1) - 1]
    BY <1>2, <2>1, Zenon DEF IsSide
  <2>. QED
    BY <2>1, <2>2
<1>. QED
  BY <1>1, <1>2, <1>3, <1>4, <1>5 DEF t

\* A sequence that is not empty is a shorter one with an element more.
LEMMA LastApart ==
  ASSUME NEW X, NEW s \in Seq(X), NEW n \in Nat, Len(s) = n + 1
  PROVE  /\ SubSeq(s, 1, n) \in Seq(X) /\ Len(SubSeq(s, 1, n)) = n /\ s[n + 1] \in X
         /\ s = Append(SubSeq(s, 1, n), s[n + 1])
<1>. DEFINE u == SubSeq(s, 1, n)
<1>1. u \in Seq(X) /\ Len(u) = n /\ s[n + 1] \in X /\ \A i \in 1..n : u[i] = s[i]
  OBVIOUS
<1>2. s = Append(u, s[n + 1])
  <2>. HIDE DEF u
  <2>1. Append(u, s[n + 1]) \in Seq(X) /\ Len(Append(u, s[n + 1])) = n + 1
    BY <1>1
  <2>2. ASSUME NEW i \in 1..(n + 1) PROVE Append(u, s[n + 1])[i] = s[i]
    <3>1. CASE i = n + 1
      BY <1>1, <3>1
    <3>2. CASE i # n + 1
      <4>1. i \in 1..n
        BY <3>2
      <4>. QED
        BY <1>1, <4>1
    <3>. QED
      BY <3>1, <3>2
  <2>. QED
    BY <2>1, <2>2, SeqEqual
<1>. QED
  BY <1>1, <1>2

\* An element more at the end of the second is one more of both.
LEMMA AppendToConcat ==
  ASSUME NEW X, NEW s \in Seq(X), NEW t \in Seq(X), NEW x \in X
  PROVE  /\ s \o t \in Seq(X)
         /\ s \o Append(t, x) = Append(s \o t, x)
<1>1. Append(t, x) \in Seq(X) /\ Len(s) \in Nat /\ Len(t) \in Nat /\ Len(Append(t, x)) = Len(t) + 1
  OBVIOUS
<1>2. /\ s \o t \in Seq(X) /\ Len(s \o t) = Len(s) + Len(t)
      /\ s \o Append(t, x) \in Seq(X) /\ Len(s \o Append(t, x)) = Len(s) + Len(t) + 1
  BY <1>1, PutTogether
<1>3. /\ Append(s \o t, x) \in Seq(X) /\ Len(Append(s \o t, x)) = Len(s) + Len(t) + 1
  BY <1>1, <1>2
<1>4. ASSUME NEW i \in 1..(Len(s) + Len(t) + 1) PROVE (s \o Append(t, x))[i] = Append(s \o t, x)[i]
  BY <1>1, <1>2
<1>. QED
  BY <1>2, <1>3, <1>4, SeqEqual

\* A side is a sequence of operations.
LEMMA SideType ==
  ASSUME NEW X, NEW s \in Seq(X), NEW type
  PROVE  Side(s, type) \in Seq(X)
<1>. DEFINE U == {n \in Nat : \A u \in Seq(X) : Len(u) = n => Side(u, type) \in Seq(X)}
<1>1. 0 \in U
  <2>1. \A u \in Seq(X) : Len(u) = 0 => u = <<>>
    OBVIOUS
  <2>. QED
    BY <2>1, SideOfNothing
<1>2. ASSUME NEW n \in Nat, n \in U PROVE n + 1 \in U
  <2>. SUFFICES ASSUME NEW u \in Seq(X), Len(u) = n + 1 PROVE Side(u, type) \in Seq(X)
    OBVIOUS
  <2>. HIDE DEF U
  <2>. DEFINE v == SubSeq(u, 1, n)
              x == u[n + 1]
  <2>1. v \in Seq(X) /\ Len(v) = n /\ x \in X /\ u = Append(v, x)
    BY LastApart
  <2>. HIDE DEF v, x
  <2>2. Side(v, type) \in Seq(X)
    BY <1>2, <2>1 DEF U
  <2>3. Side(Append(v, x), type) =
          IF x.type \in {"keep", type} THEN Append(Side(v, type), x) ELSE Side(v, type)
    BY <2>1, SideAppend
  <2>. QED
    BY <2>1, <2>2, <2>3
<1>3. Nat \subseteq U
  <2>. HIDE DEF U
  <2>. QED
    BY <1>1, <1>2, NatInductionBySet
<1>4. Len(s) \in U
  BY <1>3
<1>. QED
  BY <1>4

\* A side of the whole is made of those of the parts.
LEMMA SideConcat ==
  ASSUME NEW X, NEW s \in Seq(X), NEW t \in Seq(X), NEW type
  PROVE  Side(s \o t, type) = Side(s, type) \o Side(t, type)
<1>. DEFINE T == {n \in Nat : \A u \in Seq(X) : Len(u) = n =>
                    Side(s \o u, type) = Side(s, type) \o Side(u, type)}
<1>1. \A u \in Seq(X) : Side(u, type) \in Seq(X)
  BY SideType
<1>2. 0 \in T
  <2>1. \A u \in Seq(X) : Len(u) = 0 => u = <<>>
    OBVIOUS
  <2>2. s \o <<>> = s
    OBVIOUS
  <2>3. Side(s, type) \o <<>> = Side(s, type)
    BY <1>1
  <2>. QED
    BY <1>1, <2>1, <2>2, <2>3, SideOfNothing
<1>3. ASSUME NEW n \in Nat, n \in T PROVE n + 1 \in T
  <2>. SUFFICES ASSUME NEW u \in Seq(X), Len(u) = n + 1
                PROVE  Side(s \o u, type) = Side(s, type) \o Side(u, type)
    OBVIOUS
  <2>. HIDE DEF T
  <2>. DEFINE v == SubSeq(u, 1, n)
              x == u[n + 1]
  <2>1. v \in Seq(X) /\ Len(v) = n /\ x \in X /\ u = Append(v, x)
    BY LastApart
  <2>. HIDE DEF v, x
  <2>2. Side(s \o v, type) = Side(s, type) \o Side(v, type)
    BY <1>3, <2>1 DEF T
  <2>3. s \o v \in Seq(X) /\ s \o u = Append(s \o v, x)
    BY <2>1, AppendToConcat
  <2>. DEFINE w == s \o v
  <2>. HIDE DEF w
  <2>4. Side(s \o u, type) = IF x.type \in {"keep", type} THEN Append(Side(w, type), x) ELSE Side(w, type)
    <3>1. w \in Seq(X) /\ s \o u = Append(w, x)
      BY <2>3 DEF w
    <3>. QED
      BY <2>1, <3>1, SideAppend
  <2>5. Side(Append(v, x), type) =
          IF x.type \in {"keep", type} THEN Append(Side(v, type), x) ELSE Side(v, type)
    BY <2>1, SideAppend
  <2>6. Side(s, type) \o Append(Side(v, type), x) = Append(Side(s, type) \o Side(v, type), x)
    BY <1>1, <2>1, AppendToConcat
  <2>. QED
    BY <2>1, <2>2, <2>4, <2>5, <2>6 DEF w
<1>4. Len(t) \in T
  <2>. HIDE DEF T
  <2>. QED
    BY <1>2, <1>3, NatInductionBySet
<1>. QED
  BY <1>4

-----------------------------------------------------------------------------
(* The lines of some operations.                                           *)

\* Where all operations are of a side, the side has them all.
LEMMA SideAll ==
  ASSUME NEW X, NEW s \in Seq(X), NEW type, \A i \in 1..Len(s) : s[i].type \in {"keep", type}
  PROVE  Side(s, type) = s
<1>. DEFINE T == {n \in Nat : n <= Len(s) => Side(SubSeq(s, 1, n), type) = SubSeq(s, 1, n)}
<1>1. 0 \in T
  <2>1. SubSeq(s, 1, 0) = <<>>
    OBVIOUS
  <2>. QED
    BY <2>1, SideOfNothing
<1>2. ASSUME NEW n \in Nat, n \in T PROVE n + 1 \in T
  <2>. SUFFICES ASSUME n + 1 <= Len(s) PROVE Side(SubSeq(s, 1, n + 1), type) = SubSeq(s, 1, n + 1)
    OBVIOUS
  <2>. DEFINE v == SubSeq(s, 1, n)
              x == s[n + 1]
  <2>1. /\ SubSeq(s, 1, n + 1) = Append(v, x) /\ v \in Seq(X) /\ x \in X
        /\ x.type \in {"keep", type}
    OBVIOUS
  <2>2. Side(v, type) = v
    BY <1>2
  <2>. HIDE DEF v, x
  <2>3. Side(Append(v, x), type) = Append(Side(v, type), x)
    BY <2>1, SideAppend
  <2>. QED
    BY <2>1, <2>2, <2>3
<1>3. Len(s) \in T /\ Len(s) \in Nat
  <2>1. Len(s) \in Nat
    OBVIOUS
  <2>. HIDE DEF T
  <2>. QED
    BY <1>1, <1>2, <2>1, NatInductionBySet
<1>4. SubSeq(s, 1, Len(s)) = s
  OBVIOUS
<1>5. Side(SubSeq(s, 1, Len(s)), type) = SubSeq(s, 1, Len(s))
  <2>. DEFINE m == Len(s)
  <2>. HIDE DEF m
  <2>1. m \in {n \in Nat : n <= m => Side(SubSeq(s, 1, n), type) = SubSeq(s, 1, n)}
    BY <1>3 DEF m
  <2>2. Side(SubSeq(s, 1, m), type) = SubSeq(s, 1, m)
    BY <2>1
  <2>. QED
    BY <2>2 DEF m
<1>. QED
  BY <1>4, <1>5, Zenon

\* One operation is of a side or is not.
LEMMA SideOfOne ==
  ASSUME NEW X, NEW x \in X, NEW type
  PROVE  Side(<<x>>, type) = IF x.type \in {"keep", type} THEN <<x>> ELSE <<>>
<1>1. <<>> \in Seq(X) /\ <<x>> = Append(<<>>, x)
  OBVIOUS
<1>2. Side(Append(<<>>, x), type) =
        IF x.type \in {"keep", type} THEN Append(Side(<<>>, type), x) ELSE Side(<<>>, type)
  BY <1>1, SideAppend, ZenonT(30)
<1>. QED
  BY <1>1, <1>2, SideOfNothing

\* There is a line for each operation.
LEMMA LinesOfOperations ==
  ASSUME NEW L, NEW s \in Seq(Operation(L))
  PROVE  /\ Lines(s) \in Seq(L) /\ Len(Lines(s)) = Len(s)
         /\ \A i \in 1..Len(s) : Lines(s)[i] = s[i].line
<1>1. DOMAIN s = 1..Len(s) /\ Len(s) \in Nat
  OBVIOUS
<1>2. \A i \in 1..Len(s) : s[i].line \in L
  <2>1. \A i \in 1..Len(s) : s[i] \in Operation(L)
    OBVIOUS
  <2>2. \A o \in Operation(L) : o.line \in L
    BY DEF Operation
  <2>. QED
    BY <2>1, <2>2
<1>. QED
  BY <1>1, <1>2 DEF Lines

\* The lines of the whole are those of the parts.
LEMMA LinesConcat ==
  ASSUME NEW L, NEW s \in Seq(Operation(L)), NEW t \in Seq(Operation(L))
  PROVE  Lines(s \o t) = Lines(s) \o Lines(t)
<1>1. /\ s \o t \in Seq(Operation(L)) /\ Len(s \o t) = Len(s) + Len(t)
      /\ \A i \in 1..Len(s) : (s \o t)[i] = s[i]
      /\ \A i \in 1..Len(t) : (s \o t)[Len(s) + i] = t[i]
  BY PutTogether
<1>2. /\ Lines(s) \in Seq(L) /\ Len(Lines(s)) = Len(s)
      /\ \A i \in 1..Len(s) : Lines(s)[i] = s[i].line
      /\ Lines(t) \in Seq(L) /\ Len(Lines(t)) = Len(t)
      /\ \A i \in 1..Len(t) : Lines(t)[i] = t[i].line
  BY LinesOfOperations
<1>. DEFINE u == s \o t
            v == Lines(s) \o Lines(t)
<1>3. /\ v \in Seq(L) /\ Len(v) = Len(s) + Len(t)
      /\ \A i \in 1..Len(s) : v[i] = s[i].line
      /\ \A i \in 1..Len(t) : v[Len(s) + i] = t[i].line
  <2>. DEFINE p == Lines(s)
              q == Lines(t)
  <2>1. /\ p \in Seq(L) /\ Len(p) = Len(s) /\ \A i \in 1..Len(s) : p[i] = s[i].line
        /\ q \in Seq(L) /\ Len(q) = Len(t) /\ \A i \in 1..Len(t) : q[i] = t[i].line
    BY <1>2
  <2>. HIDE DEF p, q
  <2>4. p \in Seq(L) /\ q \in Seq(L)
    BY <2>1
  <2>2. /\ p \o q \in Seq(L) /\ Len(p \o q) = Len(p) + Len(q)
        /\ \A i \in 1..Len(p) : (p \o q)[i] = p[i]
        /\ \A i \in 1..Len(q) : (p \o q)[Len(p) + i] = q[i]
    BY <2>4, PutTogether
  <2>3. v = p \o q
    BY DEF p, q
  <2>. QED
    BY <2>1, <2>2, <2>3
<1>. HIDE DEF u, v
<1>4. /\ Lines(u) \in Seq(L) /\ Len(Lines(u)) = Len(u)
      /\ \A i \in 1..Len(u) : Lines(u)[i] = u[i].line
  BY <1>1, LinesOfOperations DEF u
<1>5. ASSUME NEW i \in 1..(Len(s) + Len(t)) PROVE Lines(u)[i] = v[i]
  <2>1. Len(s) \in Nat /\ Len(t) \in Nat
    OBVIOUS
  <2>2. CASE i \in 1..Len(s)
    BY <1>1, <1>3, <1>4, <2>1, <2>2 DEF u
  <2>3. CASE i - Len(s) \in 1..Len(t)
    <3>. DEFINE j == i - Len(s)
    <3>1. j \in 1..Len(t) /\ i = Len(s) + j
      BY <2>1, <2>3
    <3>. HIDE DEF j
    <3>. QED
      BY <1>1, <1>3, <1>4, <2>1, <3>1 DEF u
  <2>. QED
    BY <2>1, <2>2, <2>3
<1>. QED
  BY <1>1, <1>3, <1>4, <1>5, SeqEqual, SMTT(30) DEF u, v

\* The text of a side.
Text(s, type) == Lines(Side(s, type))

\* The text of the whole is made of those of the parts, and has a line for each
\* operation of the side.
LEMMA TextConcat ==
  ASSUME NEW L, NEW s \in Seq(Operation(L)), NEW t \in Seq(Operation(L)), NEW type
  PROVE  /\ Text(s, type) \in Seq(L)
         /\ Text(s \o t, type) = Text(s, type) \o Text(t, type)
         /\ Len(Side(s, type)) \in Nat
         /\ Len(Side(s \o t, type)) = Len(Side(s, type)) + Len(Side(t, type))
         /\ Len(Text(s, type)) = Len(Side(s, type))
<1>. DEFINE p == Side(s, type)
            q == Side(t, type)
            X == Operation(L)
<1>1. p \in Seq(X) /\ q \in Seq(X) /\ Side(s \o t, type) = p \o q
  <2>1. p \in Seq(X)
    BY SideType
  <2>2. q \in Seq(X)
    BY SideType
  <2>3. Side(s \o t, type) = p \o q
    BY SideConcat
  <2>. QED
    BY <2>1, <2>2, <2>3
<1>2. Len(p \o q) = Len(p) + Len(q)
  <2>. HIDE DEF X, p, q
  <2>. QED
    BY <1>1, PutTogether
<1>3. Len(Side(s, type)) \in Nat
  BY <1>1
<1>. QED
  BY <1>1, <1>2, <1>3, LinesConcat, LinesOfOperations DEF Text

\* The first of these facts alone, for the steps that need no more.
LEMMA TextJoined ==
  ASSUME NEW L, NEW s \in Seq(Operation(L)), NEW t \in Seq(Operation(L)), NEW type
  PROVE  Text(s \o t, type) = Text(s, type) \o Text(t, type)
BY TextConcat

\* And that about lengths.
LEMMA SidesAdd ==
  ASSUME NEW L, NEW s \in Seq(Operation(L)), NEW t \in Seq(Operation(L)), NEW type
  PROVE  Len(Side(s \o t, type)) = Len(Side(s, type)) + Len(Side(t, type))
BY TextConcat

\* Lines that are kept are on both sides.
LEMMA TextKept ==
  ASSUME NEW L, NEW x \in Seq(L), NEW type
  PROVE  /\ Kept(x) \in Seq(Operation(L)) /\ Len(Kept(x)) = Len(x)
         /\ Side(Kept(x), type) = Kept(x) /\ Text(Kept(x), type) = x
         /\ Len(Side(Kept(x), type)) = Len(x)
<1>1. Len(x) \in Nat /\ DOMAIN x = 1..Len(x) /\ \A i \in 1..Len(x) : x[i] \in L
  OBVIOUS
<1>2. /\ Kept(x) \in Seq(Operation(L)) /\ Len(Kept(x)) = Len(x)
      /\ \A i \in 1..Len(x) : Kept(x)[i].type = "keep" /\ Kept(x)[i].line = x[i]
  BY <1>1 DEF Kept, Op, Operation, Types
<1>3. Side(Kept(x), type) = Kept(x)
  BY <1>2, SideAll
<1>4. Lines(Kept(x)) \in Seq(L) /\ Len(Lines(Kept(x))) = Len(x)
      /\ \A i \in 1..Len(x) : Lines(Kept(x))[i] = x[i]
  BY <1>2, LinesOfOperations
<1>5. Lines(Kept(x)) = x
  BY <1>1, <1>4, SeqEqual
<1>. QED
  BY <1>2, <1>3, <1>5 DEF Text

\* An edit is on its own side alone.
LEMMA TextOfEdit ==
  ASSUME NEW L, NEW l \in L, NEW type \in {"add", "delete"}
  PROVE  /\ <<Op(type, l)>> \in Seq(Operation(L))
         /\ Text(<<Op(type, l)>>, type) = <<l>>
         /\ \A other \in {"add", "delete"} \ {type} : Text(<<Op(type, l)>>, other) = <<>>
         /\ Len(Side(<<Op(type, l)>>, "keep")) = 0
<1>1. Op(type, l) \in Operation(L) /\ Op(type, l).type = type /\ Op(type, l).line = l
  BY DEF Op, Operation, Types
<1>. DEFINE o == Op(type, l)
<1>. HIDE DEF o
<1>2. o \in Operation(L) /\ o.type = type /\ o.line = l
  BY <1>1 DEF o
<1>3. \A k : Side(<<o>>, k) = IF o.type \in {"keep", k} THEN <<o>> ELSE <<>>
  BY <1>2, SideOfOne
<1>4. Lines(<<o>>) = <<l>> /\ Lines(<<>>) = <<>>
  BY <1>2 DEF Lines
<1>5. <<o>> \in Seq(Operation(L)) /\ Len(<<>>) = 0
  BY <1>2
<1>. QED
  BY <1>2, <1>3, <1>4, <1>5 DEF Text, o

-----------------------------------------------------------------------------
(* The most lines in order that a set of pairs has.                        *)

\* It is a number some set in order has and none exceeds.
LEMMA LongestIs ==
  ASSUME NEW R, IsFiniteSet(R)
  PROVE  /\ Longest(R) \in Nat
         /\ \E M \in SUBSET R : InStep(M) /\ Cardinality(M) = Longest(R)
         /\ \A M \in SUBSET R : InStep(M) => Cardinality(M) <= Longest(R)
<1>. DEFINE S == {Cardinality(M) : M \in {N \in SUBSET R : InStep(N)}}
<1>1. \A M \in SUBSET R : IsFiniteSet(M) /\ Cardinality(M) \in 0..Cardinality(R)
  <2>1. ASSUME NEW M \in SUBSET R PROVE IsFiniteSet(M) /\ Cardinality(M) <= Cardinality(R)
    BY FS_Subset
  <2>. QED
    BY <2>1, FS_CardinalityType
<1>2. S \subseteq 0..Cardinality(R) /\ S \subseteq Nat
  BY <1>1
<1>3. IsFiniteSet(S)
  <2>1. IsFiniteSet(0..Cardinality(R))
    BY FS_Interval, FS_CardinalityType
  <2>. HIDE DEF S
  <2>. QED
    BY <1>2, <2>1, FS_Subset
<1>4. Cardinality({}) \in S
  BY DEF InStep
<1>. HIDE DEF S
<1>5. PICK m \in S : \A n \in S : n <= m
  BY <1>2, <1>3, <1>4, GreatestNatural
<1>6. Max(S) \in S /\ \A n \in S : n <= Max(S)
  <2>1. \A n \in S : m >= n
    BY <1>2, <1>5
  <2>2. Max(S) \in S /\ \A n \in S : Max(S) >= n
    BY <2>1, <1>5 DEF Max
  <2>. QED
    BY <1>2, <2>2
<1>7. Longest(R) = Max(S)
  BY DEF Longest, S
<1>8. Longest(R) \in S /\ \A n \in S : n <= Longest(R)
  BY <1>6, <1>7
<1>9. \E M \in SUBSET R : InStep(M) /\ Cardinality(M) = Longest(R)
  BY <1>8 DEF S
<1>10. \A M \in SUBSET R : InStep(M) => Cardinality(M) <= Longest(R)
  BY <1>8 DEF S
<1>. QED
  BY <1>2, <1>8, <1>9, <1>10

\* No pairs, no lines.
LEMMA LongestEmpty == Longest({}) = 0
<1>1. PICK M \in SUBSET {} : Cardinality(M) = Longest({})
  BY LongestIs, FS_EmptySet
<1>. QED
  BY <1>1, FS_EmptySet

\* What is left of pairs in order is in order.
LEMMA InStepSubset ==
  ASSUME NEW M, InStep(M), NEW N \in SUBSET M
  PROVE  InStep(N)
BY DEF InStep

\* A set whose elements are all the same has one at most.
LEMMA OneAtMost ==
  ASSUME NEW S, IsFiniteSet(S), \A q \in S, r \in S : q = r
  PROVE  Cardinality(S) <= 1
<1>1. CASE S = {}
  BY <1>1, FS_EmptySet
<1>2. CASE S # {}
  <2>1. PICK q \in S : TRUE
    BY <1>2
  <2>2. S = {q}
    BY <2>1
  <2>. QED
    BY <2>2, FS_Singleton
<1>. QED
  BY <1>1, <1>2

\* Fewer pairs have no longer set.
LEMMA LongestMonotone ==
  ASSUME NEW R, IsFiniteSet(R), NEW Q \in SUBSET R
  PROVE  Longest(Q) <= Longest(R)
<1>1. IsFiniteSet(Q)
  BY FS_Subset
<1>2. PICK M \in SUBSET Q : InStep(M) /\ Cardinality(M) = Longest(Q)
  BY <1>1, LongestIs
<1>. QED
  BY <1>2, LongestIs

\* Where two pairs of a set in order are never both left out, leaving some out
\* costs one at most.
LEMMA LongestLess ==
  ASSUME NEW R, IsFiniteSet(R), NEW Q \in SUBSET R,
         \A M \in SUBSET R : InStep(M) => \A q \in M \ Q, r \in M \ Q : q = r
  PROVE  Longest(R) <= Longest(Q) + 1
<1>1. IsFiniteSet(Q)
  BY FS_Subset
<1>2. PICK M \in SUBSET R : InStep(M) /\ Cardinality(M) = Longest(R)
  BY LongestIs
<1>3. IsFiniteSet(M) /\ IsFiniteSet(M \ Q) /\ IsFiniteSet(M \cap Q)
  BY FS_Subset
<1>4. Cardinality(M \ Q) <= 1
  BY <1>2, <1>3, OneAtMost
<1>5. Cardinality(M \cap Q) <= Longest(Q)
  <2>1. InStep(M \cap Q) /\ M \cap Q \in SUBSET Q
    BY <1>2, InStepSubset
  <2>. QED
    BY <1>1, <2>1, LongestIs
<1>6. Cardinality(M) = Cardinality(M \cap Q) + Cardinality(M \ Q)
  <2>1. Cardinality(M \ Q) = Cardinality(M) - Cardinality(M \cap Q)
    BY <1>3, FS_Difference
  <2>. QED
    BY <1>3, <2>1, FS_CardinalityType
<1>. QED
  <2>1. /\ Cardinality(M \cap Q) \in Nat /\ Cardinality(M \ Q) \in Nat /\ Longest(Q) \in Nat
        /\ Cardinality(M) \in Nat
    BY <1>1, <1>3, LongestIs, FS_CardinalityType
  <2>. QED
    BY <1>2, <1>4, <1>5, <1>6, <2>1

\* A set of pairs without line x of the first or second version, and without two.
Without(R, i, x) == {q \in R : q[i] # x}
WithoutBoth(R, p) == {q \in R : q[1] # p[1] /\ q[2] # p[2]}

\* To leave out a line of either version costs one at most.
LEMMA LongestDrop ==
  ASSUME NEW R, IsFiniteSet(R), R \subseteq Int \X Int, NEW x \in Int, NEW i \in {1, 2}
  PROVE  \/ Longest(R) = Longest(Without(R, i, x))
         \/ Longest(R) = Longest(Without(R, i, x)) + 1
<1>. DEFINE Q == {q \in R : q[i] # x}
<1>1. ASSUME NEW M \in SUBSET R, InStep(M), NEW q \in M \ Q, NEW r \in M \ Q PROVE q = r
  <2>1. q[i] = x /\ r[i] = x /\ q \in Int \X Int /\ r \in Int \X Int
    OBVIOUS
  <2>2. /\ q[1] < r[1] <=> q[2] < r[2]
        /\ r[1] < q[1] <=> r[2] < q[2]
    BY <1>1 DEF InStep
  <2>. QED
    BY <2>1, <2>2
<1>. QED
  <2>1. Q \in SUBSET R
    OBVIOUS
  <2>. HIDE DEF Q
  <2>2. Longest(R) <= Longest(Q) + 1
    BY <1>1, <2>1, LongestLess
  <2>3. Longest(Q) <= Longest(R)
    BY <2>1, LongestMonotone
  <2>4. Longest(R) \in Nat
    BY LongestIs
  <2>5. IsFiniteSet(Q)
    BY <2>1, FS_Subset
  <2>6. Longest(Q) \in Nat
    BY <2>5, LongestIs
  <2>7. Q = Without(R, i, x)
    BY DEF Q, Without
  <2>. QED
    BY <2>2, <2>3, <2>4, <2>6, <2>7

\* p is at a corner of a set of pairs.
Corner(R, p) ==
  \/ \A q \in R : q[1] <= p[1] /\ q[2] <= p[2]
  \/ \A q \in R : p[1] <= q[1] /\ p[2] <= q[2]

\* In a set in order, what shares a line with a corner is the corner.
LEMMA CornerAlone ==
  ASSUME NEW R, R \subseteq Int \X Int, NEW p \in Int \X Int, Corner(R, p),
         NEW M \in SUBSET R, InStep(M), NEW q \in M, NEW r \in M,
         q[1] = p[1], r[2] = p[2]
  PROVE  q = p /\ r = p
<1>1. q \in Int \X Int /\ r \in Int \X Int /\ q \in R /\ r \in R
  OBVIOUS
<1>2. /\ q[1] < r[1] <=> q[2] < r[2]
      /\ r[1] < q[1] <=> r[2] < q[2]
  BY DEF InStep
<1>3. \/ q[2] <= p[2] /\ r[1] <= p[1]
      \/ p[2] <= q[2] /\ p[1] <= r[1]
  BY <1>1 DEF Corner
<1>4. q[2] = p[2] /\ r[1] = p[1]
  BY <1>1, <1>2, <1>3
<1>. QED
  BY <1>1, <1>4

\* A pair at a corner adds one to the most there are without its lines.
LEMMA LongestCorner ==
  ASSUME NEW R, IsFiniteSet(R), R \subseteq Int \X Int, NEW p \in R, Corner(R, p)
  PROVE  Longest(R) = Longest(WithoutBoth(R, p)) + 1
<1>. DEFINE Q == {q \in R : q[1] # p[1] /\ q[2] # p[2]}
<1>1. ASSUME NEW M \in SUBSET R, InStep(M), NEW q \in M \ Q, NEW r \in M \ Q PROVE q = r
  <2>1. /\ q \in Int \X Int /\ r \in Int \X Int /\ p \in Int \X Int
        /\ q[1] = p[1] \/ q[2] = p[2]
        /\ r[1] = p[1] \/ r[2] = p[2]
    OBVIOUS
  <2>2. /\ q[1] < r[1] <=> q[2] < r[2]
        /\ r[1] < q[1] <=> r[2] < q[2]
    BY <1>1 DEF InStep
  <2>3. CASE q[1] = r[1] \/ q[2] = r[2]
    BY <2>1, <2>2, <2>3
  <2>4. CASE q[1] = p[1] /\ r[2] = p[2]
    BY <1>1, <2>1, <2>4, CornerAlone
  <2>5. CASE r[1] = p[1] /\ q[2] = p[2]
    BY <1>1, <2>1, <2>5, CornerAlone
  <2>. QED
    BY <2>1, <2>3, <2>4, <2>5
<1>2. Q \in SUBSET R /\ IsFiniteSet(Q)
  BY FS_Subset
<1>3. Longest(R) <= Longest(Q) + 1
  <2>. HIDE DEF Q
  <2>. QED
    BY <1>1, <1>2, LongestLess
<1>4. PICK M \in SUBSET Q : InStep(M) /\ Cardinality(M) = Longest(Q)
  <2>. HIDE DEF Q
  <2>. QED
    BY <1>2, LongestIs
<1>5. InStep(M \cup {p})
  <2>. SUFFICES ASSUME NEW q \in M \cup {p}, NEW r \in M \cup {p}
                PROVE  q[1] < r[1] <=> q[2] < r[2]
    BY DEF InStep
  <2>1. p \in Int \X Int /\ M \subseteq Int \X Int
    OBVIOUS
  <2>2. ASSUME NEW s \in M
        PROVE  /\ s[1] < p[1] <=> s[2] < p[2]
               /\ p[1] < s[1] <=> p[2] < s[2]
    <3>1. s \in Int \X Int /\ s[1] # p[1] /\ s[2] # p[2] /\ s \in R
      OBVIOUS
    <3>2. \/ s[1] <= p[1] /\ s[2] <= p[2]
          \/ p[1] <= s[1] /\ p[2] <= s[2]
      BY <3>1 DEF Corner
    <3>. QED
      BY <2>1, <3>1, <3>2
  <2>3. CASE q \in M /\ r \in M
    BY <1>4, <2>3 DEF InStep
  <2>4. CASE q = p /\ r \in M
    BY <2>2, <2>4
  <2>5. CASE q \in M /\ r = p
    BY <2>2, <2>5
  <2>6. CASE q = p /\ r = p
    BY <2>1, <2>6
  <2>. QED
    BY <2>3, <2>4, <2>5, <2>6
<1>6. Cardinality(M \cup {p}) = Longest(Q) + 1
  <2>1. IsFiniteSet(M) /\ p \notin M
    BY <1>2, FS_Subset
  <2>2. Cardinality(M \cup {p}) = Cardinality(M) + 1
    BY <2>1, FS_AddElement
  <2>. QED
    BY <1>4, <2>2
<1>7. Cardinality(M \cup {p}) <= Longest(R)
  <2>1. M \cup {p} \in SUBSET R
    OBVIOUS
  <2>. QED
    BY <1>5, <2>1, LongestIs
<1>8. Longest(R) = Longest(Q) + 1
  <2>1. Longest(R) \in Nat /\ Longest(Q) \in Nat
    <3>. HIDE DEF Q
    <3>1. Longest(R) \in Nat
      BY LongestIs
    <3>. QED
      BY <1>2, <3>1, LongestIs
  <2>. HIDE DEF Q
  <2>. QED
    BY <1>3, <1>6, <1>7, <2>1
<1>. QED
  BY <1>8 DEF WithoutBoth

\* Where the corner itself is no pair, one of its two lines can be left out at no cost.
LEMMA LongestNoCorner ==
  ASSUME NEW R, IsFiniteSet(R), R \subseteq Int \X Int, NEW p \in Int \X Int, Corner(R, p), p \notin R
  PROVE  \E i \in {1, 2} : Longest(R) = Longest(Without(R, i, p[i]))
<1>1. PICK M \in SUBSET R : InStep(M) /\ Cardinality(M) = Longest(R)
  BY LongestIs
<1>2. PICK i \in {1, 2} : \A q \in M : q[i] # p[i]
  <2>1. ASSUME NEW q \in M, NEW r \in M, q[1] = p[1], r[2] = p[2] PROVE FALSE
    <3>1. q = p
      BY <1>1, <2>1, CornerAlone
    <3>. QED
      BY <3>1
  <2>. QED
    BY <2>1
<1>. DEFINE Q == {q \in R : q[i] # p[i]}
<1>3. Q \in SUBSET R /\ IsFiniteSet(Q) /\ M \in SUBSET Q
  BY <1>2, FS_Subset
<1>. HIDE DEF Q
<1>4. Longest(R) <= Longest(Q)
  BY <1>1, <1>3, LongestIs
<1>5. Longest(Q) <= Longest(R)
  BY <1>3, LongestMonotone
<1>6. Longest(Q) \in Nat
  BY <1>3, LongestIs
<1>7. Longest(R) \in Nat
  BY LongestIs
<1>8. Longest(R) = Longest(Q)
  BY <1>4, <1>5, <1>6, <1>7
<1>9. Q = Without(R, i, p[i])
  BY DEF Q, Without
<1>. QED
  BY <1>8, <1>9

-----------------------------------------------------------------------------
(* What two texts share as far as a point, and the edits up to it.         *)

\* The pairs of equal lines among the first x of a and the first y of b.
Grid(a, b, x, y) == {p \in Matches(a, b) : p[1] <= x /\ p[2] <= y}

\* The most lines these beginnings share in order.
Shared(a, b, x, y) == Longest(Grid(a, b, x, y))

\* The fewest edits from the first x lines of a to the first y of b; past the
\* end of a text each line is an edit.
Edits(a, b, x, y) == x + y - 2 * Shared(a, b, x, y)

\* Whether the lines at a point agree.
Agree(a, b, x, y) == x <= Len(a) /\ y <= Len(b) /\ a[x] = b[y]

\* Two texts have finitely many pairs of equal lines.
LEMMA MatchesFinite ==
  ASSUME NEW L, NEW a \in Seq(L), NEW b \in Seq(L)
  PROVE  IsFiniteSet(Matches(a, b)) /\ Matches(a, b) \subseteq (1..Len(a)) \X (1..Len(b))
<1>1. DOMAIN a = 1..Len(a) /\ DOMAIN b = 1..Len(b) /\ Len(a) \in Nat /\ Len(b) \in Nat
  OBVIOUS
<1>2. Matches(a, b) \subseteq (1..Len(a)) \X (1..Len(b))
  BY <1>1 DEF Matches
<1>3. IsFiniteSet((1..Len(a)) \X (1..Len(b)))
  <2>1. IsFiniteSet(1..Len(a)) /\ IsFiniteSet(1..Len(b))
    BY <1>1, FS_Interval
  <2>. QED
    BY <2>1, FS_Product
<1>. QED
  BY <1>2, <1>3, FS_Subset

\* So have their beginnings, which makes the lines shared and the edits numbers.
LEMMA GridFinite ==
  ASSUME NEW L, NEW a \in Seq(L), NEW b \in Seq(L), NEW x \in Nat, NEW y \in Nat
  PROVE  /\ IsFiniteSet(Grid(a, b, x, y)) /\ Grid(a, b, x, y) \subseteq Int \X Int
         /\ Shared(a, b, x, y) \in Nat /\ Edits(a, b, x, y) \in Int
<1>1. Len(a) \in Nat /\ Len(b) \in Nat
  OBVIOUS
<1>2. IsFiniteSet(Matches(a, b)) /\ Matches(a, b) \subseteq (1..Len(a)) \X (1..Len(b))
  BY MatchesFinite
<1>3. Grid(a, b, x, y) \subseteq Matches(a, b) /\ Grid(a, b, x, y) \subseteq Int \X Int
  BY <1>1, <1>2 DEF Grid
<1>4. IsFiniteSet(Grid(a, b, x, y))
  BY <1>2, <1>3, FS_Subset
<1>5. Shared(a, b, x, y) \in Nat
  BY <1>4, LongestIs DEF Shared
<1>. QED
  BY <1>3, <1>4, <1>5 DEF Edits

\* The grid without its last line of a side, or of both, is the one before.
LEMMA GridBefore ==
  ASSUME NEW L, NEW a \in Seq(L), NEW b \in Seq(L), NEW x \in Nat, NEW y \in Nat
  PROVE  /\ Without(Grid(a, b, x + 1, y), 1, x + 1) = Grid(a, b, x, y)
         /\ Without(Grid(a, b, x, y + 1), 2, y + 1) = Grid(a, b, x, y)
         /\ WithoutBoth(Grid(a, b, x + 1, y + 1), <<x + 1, y + 1>>) = Grid(a, b, x, y)
<1>1. \A q \in Matches(a, b) : q[1] \in Int /\ q[2] \in Int
  BY MatchesFinite
<1>2. \A i \in Int, j \in Nat : i <= j <=> (i <= j + 1 /\ i # j + 1)
  OBVIOUS
<1>3. /\ Without(Grid(a, b, x + 1, y), 1, x + 1) = Grid(a, b, x, y)
      /\ Without(Grid(a, b, x, y + 1), 2, y + 1) = Grid(a, b, x, y)
  BY <1>1, <1>2, Zenon DEF Grid, Without
<1>. DEFINE p == <<x + 1, y + 1>>
<1>4. p[1] = x + 1 /\ p[2] = y + 1
  OBVIOUS
<1>. HIDE DEF p
<1>5. WithoutBoth(Grid(a, b, x + 1, y + 1), p) = Grid(a, b, x, y)
  BY <1>1, <1>2, <1>4, Zenon DEF Grid, WithoutBoth
<1>. QED
  BY <1>3, <1>5 DEF p

\* One line more of a text is shared or is not.
LEMMA SharedStep ==
  ASSUME NEW L, NEW a \in Seq(L), NEW b \in Seq(L), NEW x \in Nat, NEW y \in Nat
  PROVE  /\ \/ Shared(a, b, x + 1, y) = Shared(a, b, x, y)
            \/ Shared(a, b, x + 1, y) = Shared(a, b, x, y) + 1
         /\ \/ Shared(a, b, x, y + 1) = Shared(a, b, x, y)
            \/ Shared(a, b, x, y + 1) = Shared(a, b, x, y) + 1
<1>1. x + 1 \in Nat /\ y + 1 \in Nat
  OBVIOUS
<1>2. \/ Shared(a, b, x + 1, y) = Shared(a, b, x, y)
      \/ Shared(a, b, x + 1, y) = Shared(a, b, x, y) + 1
  <2>. DEFINE R == Grid(a, b, x + 1, y)
              z == x + 1
  <2>1. IsFiniteSet(R) /\ R \subseteq Int \X Int
    BY <1>1, GridFinite
  <2>0. z \in Int
    OBVIOUS
  <2>2. Without(R, 1, z) = Grid(a, b, x, y)
    BY GridBefore
  <2>. HIDE DEF R, z
  <2>3. \/ Longest(R) = Longest(Without(R, 1, z))
        \/ Longest(R) = Longest(Without(R, 1, z)) + 1
    BY <2>0, <2>1, LongestDrop
  <2>. QED
    BY <2>2, <2>3 DEF R, Shared
<1>3. \/ Shared(a, b, x, y + 1) = Shared(a, b, x, y)
      \/ Shared(a, b, x, y + 1) = Shared(a, b, x, y) + 1
  <2>. DEFINE R == Grid(a, b, x, y + 1)
              z == y + 1
  <2>1. IsFiniteSet(R) /\ R \subseteq Int \X Int
    BY <1>1, GridFinite
  <2>0. z \in Int
    OBVIOUS
  <2>2. Without(R, 2, z) = Grid(a, b, x, y)
    BY GridBefore
  <2>. HIDE DEF R, z
  <2>3. \/ Longest(R) = Longest(Without(R, 2, z))
        \/ Longest(R) = Longest(Without(R, 2, z)) + 1
    BY <2>0, <2>1, LongestDrop
  <2>. QED
    BY <2>2, <2>3 DEF R, Shared
<1>. QED
  BY <1>2, <1>3

\* The point past both texts is a corner of the grid.
LEMMA GridCorner ==
  ASSUME NEW L, NEW a \in Seq(L), NEW b \in Seq(L), NEW x \in Nat, NEW y \in Nat
  PROVE  /\ Corner(Grid(a, b, x, y), <<x, y>>)
         /\ x > 0 /\ y > 0 => (<<x, y>> \in Grid(a, b, x, y) <=> Agree(a, b, x, y))
<1>1. Corner(Grid(a, b, x, y), <<x, y>>)
  BY DEF Corner, Grid
<1>2. DOMAIN a = 1..Len(a) /\ DOMAIN b = 1..Len(b) /\ Len(a) \in Nat /\ Len(b) \in Nat
  OBVIOUS
<1>3. ASSUME x > 0, y > 0 PROVE <<x, y>> \in Grid(a, b, x, y) <=> Agree(a, b, x, y)
  <2>1. x \in DOMAIN a <=> x <= Len(a)
    BY <1>2, <1>3
  <2>2. y \in DOMAIN b <=> y <= Len(b)
    BY <1>2, <1>3
  <2>3. x <= x /\ y <= y
    OBVIOUS
  <2>. QED
    BY <2>1, <2>2, <2>3 DEF Grid, Matches, Agree
<1>. QED
  BY <1>1, <1>3

\* A diagonal step over equal lines shares one more; any other shares no more
\* than one of the two points before it.
LEMMA SharedDiagonal ==
  ASSUME NEW L, NEW a \in Seq(L), NEW b \in Seq(L), NEW x \in Nat, NEW y \in Nat
  PROVE  /\ Agree(a, b, x + 1, y + 1) => Shared(a, b, x + 1, y + 1) = Shared(a, b, x, y) + 1
         /\ ~Agree(a, b, x + 1, y + 1) =>
              \/ Shared(a, b, x + 1, y + 1) = Shared(a, b, x, y + 1)
              \/ Shared(a, b, x + 1, y + 1) = Shared(a, b, x + 1, y)
<1>. DEFINE R == Grid(a, b, x + 1, y + 1)
            p == <<x + 1, y + 1>>
<1>1. /\ x + 1 \in Nat /\ y + 1 \in Nat /\ x + 1 > 0 /\ y + 1 > 0
      /\ p \in Int \X Int /\ p[1] = x + 1 /\ p[2] = y + 1
  OBVIOUS
<1>2. IsFiniteSet(R) /\ R \subseteq Int \X Int
  BY <1>1, GridFinite
<1>3. Corner(R, p) /\ (p \in R <=> Agree(a, b, x + 1, y + 1))
  BY <1>1, GridCorner
<1>4. Shared(a, b, x + 1, y + 1) = Longest(R)
  BY DEF Shared
<1>5. /\ WithoutBoth(R, p) = Grid(a, b, x, y)
      /\ Without(R, 1, p[1]) = Grid(a, b, x, y + 1)
      /\ Without(R, 2, p[2]) = Grid(a, b, x + 1, y)
  BY <1>1, GridBefore
<1>. HIDE DEF R, p
<1>6. ASSUME Agree(a, b, x + 1, y + 1) PROVE Longest(R) = Shared(a, b, x, y) + 1
  <2>1. Longest(R) = Longest(WithoutBoth(R, p)) + 1
    BY <1>2, <1>3, <1>6, LongestCorner
  <2>. QED
    BY <1>5, <2>1 DEF Shared
<1>7. ASSUME ~Agree(a, b, x + 1, y + 1)
      PROVE  Longest(R) = Shared(a, b, x, y + 1) \/ Longest(R) = Shared(a, b, x + 1, y)
  <2>1. \E i \in {1, 2} : Longest(R) = Longest(Without(R, i, p[i]))
    BY <1>1, <1>2, <1>3, <1>7, LongestNoCorner
  <2>. QED
    BY <1>5, <2>1 DEF Shared
<1>. QED
  BY <1>4, <1>6, <1>7

\* So it is no edit, or an edit more than one of those two.
LEMMA EditsStep ==
  ASSUME NEW L, NEW a \in Seq(L), NEW b \in Seq(L), NEW x \in Nat, NEW y \in Nat
  PROVE  /\ Agree(a, b, x + 1, y + 1) => Edits(a, b, x + 1, y + 1) = Edits(a, b, x, y)
         /\ ~Agree(a, b, x + 1, y + 1) =>
              \/ Edits(a, b, x + 1, y + 1) = Edits(a, b, x, y + 1) + 1
              \/ Edits(a, b, x + 1, y + 1) = Edits(a, b, x + 1, y) + 1
         /\ Edits(a, b, x + 1, y) <= Edits(a, b, x, y) + 1
         /\ Edits(a, b, x, y + 1) <= Edits(a, b, x, y) + 1
<1>. DEFINE s == Shared(a, b, x, y)
            u == Shared(a, b, x + 1, y)
            v == Shared(a, b, x, y + 1)
            w == Shared(a, b, x + 1, y + 1)
            agree == Agree(a, b, x + 1, y + 1)
<1>1. s \in Nat /\ u \in Nat /\ v \in Nat /\ w \in Nat
  <2>1. x + 1 \in Nat /\ y + 1 \in Nat
    OBVIOUS
  <2>. QED
    BY <2>1, GridFinite
<1>2. (agree => w = s + 1) /\ (~agree => w = v \/ w = u)
  BY SharedDiagonal
<1>3. (u = s \/ u = s + 1) /\ (v = s \/ v = s + 1)
  BY SharedStep
<1>. DEFINE es == Edits(a, b, x, y)
            eu == Edits(a, b, x + 1, y)
            ev == Edits(a, b, x, y + 1)
            ew == Edits(a, b, x + 1, y + 1)
<1>4. /\ es = x + y - 2 * s /\ eu = x + 1 + y - 2 * u
      /\ ev = x + (y + 1) - 2 * v /\ ew = x + 1 + (y + 1) - 2 * w
  BY DEF Edits
<1>. HIDE DEF s, u, v, w, es, eu, ev, ew, agree
<1>5. /\ agree => ew = es
      /\ ~agree => ew = ev + 1 \/ ew = eu + 1
      /\ eu <= es + 1 /\ ev <= es + 1
  BY <1>1, <1>2, <1>3, <1>4
<1>. QED
  BY <1>5 DEF es, eu, ev, ew, agree

\* No more is shared than either text has.
LEMMA SharedBound ==
  ASSUME NEW L, NEW a \in Seq(L), NEW b \in Seq(L), NEW x \in Nat, NEW y \in Nat
  PROVE  Shared(a, b, x, y) <= x /\ Shared(a, b, x, y) <= y
<1>0. \A q \in Matches(a, b) : q[1] \in Int /\ q[2] \in Int /\ q[1] >= 1 /\ q[2] >= 1
  BY MatchesFinite
<1>1. Shared(a, b, x, y) <= x
  <2>. DEFINE T == {n \in Nat : Shared(a, b, n, y) <= n}
  <2>1. 0 \in T
    <3>1. Grid(a, b, 0, y) = {}
      BY <1>0 DEF Grid
    <3>2. Shared(a, b, 0, y) = 0
      BY <3>1, LongestEmpty DEF Shared
    <3>. QED
      BY <3>2
  <2>2. ASSUME NEW n \in Nat, n \in T PROVE n + 1 \in T
    <3>1. /\ Shared(a, b, n + 1, y) <= Shared(a, b, n, y) + 1
          /\ Shared(a, b, n + 1, y) \in Nat /\ Shared(a, b, n, y) \in Nat
      <4>1. Shared(a, b, n + 1, y) \in {Shared(a, b, n, y), Shared(a, b, n, y) + 1}
        BY SharedStep
      <4>2. n + 1 \in Nat
        OBVIOUS
      <4>3. Shared(a, b, n + 1, y) \in Nat
        BY <4>2, GridFinite
      <4>4. Shared(a, b, n, y) \in Nat
        BY GridFinite
      <4>. QED
        BY <4>1, <4>3, <4>4
    <3>2. Shared(a, b, n, y) <= n
      BY <2>2
    <3>3. Shared(a, b, n + 1, y) <= n + 1
      BY <3>1, <3>2
    <3>. QED
      BY <3>3
  <2>3. x \in T
    <3>. HIDE DEF T
    <3>. QED
      BY <2>1, <2>2, NatInductionBySet
  <2>. QED
    BY <2>3
<1>2. Shared(a, b, x, y) <= y
  <2>. DEFINE T == {n \in Nat : Shared(a, b, x, n) <= n}
  <2>1. 0 \in T
    <3>1. Grid(a, b, x, 0) = {}
      BY <1>0 DEF Grid
    <3>2. Shared(a, b, x, 0) = 0
      BY <3>1, LongestEmpty DEF Shared
    <3>. QED
      BY <3>2
  <2>2. ASSUME NEW n \in Nat, n \in T PROVE n + 1 \in T
    <3>1. /\ Shared(a, b, x, n + 1) <= Shared(a, b, x, n) + 1
          /\ Shared(a, b, x, n + 1) \in Nat /\ Shared(a, b, x, n) \in Nat
      <4>1. Shared(a, b, x, n + 1) \in {Shared(a, b, x, n), Shared(a, b, x, n) + 1}
        BY SharedStep
      <4>2. n + 1 \in Nat
        OBVIOUS
      <4>3. Shared(a, b, x, n + 1) \in Nat
        BY <4>2, GridFinite
      <4>4. Shared(a, b, x, n) \in Nat
        BY GridFinite
      <4>. QED
        BY <4>1, <4>3, <4>4
    <3>2. Shared(a, b, x, n) <= n
      BY <2>2
    <3>3. Shared(a, b, x, n + 1) <= n + 1
      BY <3>1, <3>2
    <3>. QED
      BY <3>3
  <2>3. y \in T
    <3>. HIDE DEF T
    <3>. QED
      BY <2>1, <2>2, NatInductionBySet
  <2>. QED
    BY <2>3
<1>. QED
  BY <1>1, <1>2

\* At least as many edits as the diagonal is off, and even or odd with it.
LEMMA EditsBound ==
  ASSUME NEW L, NEW a \in Seq(L), NEW b \in Seq(L), NEW x \in Nat, NEW y \in Nat
  PROVE  /\ Edits(a, b, x, y) \in Nat
         /\ x - y \in (-Edits(a, b, x, y))..Edits(a, b, x, y)
         /\ Edits(a, b, x, y) <= x + y
         /\ (x - y + Edits(a, b, x, y)) % 2 = 0
<1>. DEFINE s == Shared(a, b, x, y)
<1>1. s \in Nat /\ s <= x /\ s <= y /\ Edits(a, b, x, y) = x + y - 2 * s
  <2>1. s \in Nat
    BY GridFinite
  <2>2. s <= x /\ s <= y
    BY SharedBound
  <2>. QED
    BY <2>1, <2>2 DEF Edits
<1>. DEFINE e == Edits(a, b, x, y)
<1>2. e = x + y - 2 * s
  BY <1>1
<1>. HIDE DEF s, e
<1>3. e \in Nat /\ -e <= x - y /\ x - y <= e /\ e <= x + y
  BY <1>1, <1>2
<1>4. x - y + e = 2 * (x - s)
  BY <1>1, <1>2
<1>5. (2 * (x - s)) % 2 = 0
  <2>. DEFINE z == x - s
  <2>1. z \in Int
    BY <1>1
  <2>. HIDE DEF z
  <2>2. (2 * z) % 2 = 0
    BY <2>1
  <2>. QED
    BY <2>2 DEF z
<1>6. e \in Nat /\ x - y \in (-e)..e /\ e <= x + y /\ (x - y + e) % 2 = 0
  BY <1>1, <1>3, <1>4, <1>5
<1>. QED
  BY <1>6 DEF e

\* Past the end of both texts every line is an edit.
LEMMA EditsPast ==
  ASSUME NEW L, NEW a \in Seq(L), NEW b \in Seq(L), NEW x \in Nat, NEW y \in Nat,
         x >= Len(a), y >= Len(b)
  PROVE  /\ Shared(a, b, x, y) = Longest(Matches(a, b))
         /\ Edits(a, b, x, y) = Edits(a, b, Len(a), Len(b)) + (x - Len(a)) + (y - Len(b))
<1>1. Len(a) \in Nat /\ Len(b) \in Nat
  OBVIOUS
<1>2. ASSUME NEW i \in Nat, NEW j \in Nat, i >= Len(a), j >= Len(b)
      PROVE  Grid(a, b, i, j) = Matches(a, b)
  <2>1. \A q \in Matches(a, b) : q[1] \in 1..Len(a) /\ q[2] \in 1..Len(b)
    BY MatchesFinite
  <2>2. \A q \in Matches(a, b) : q[1] <= i /\ q[2] <= j
    BY <1>1, <1>2, <2>1
  <2>. QED
    BY <2>2 DEF Grid
<1>3. Shared(a, b, x, y) = Longest(Matches(a, b))
  BY <1>2 DEF Shared
<1>4. Shared(a, b, Len(a), Len(b)) = Longest(Matches(a, b))
  BY <1>1, <1>2 DEF Shared
<1>5. Longest(Matches(a, b)) \in Nat
  BY MatchesFinite, LongestIs
<1>6. Edits(a, b, x, y) = Edits(a, b, Len(a), Len(b)) + (x - Len(a)) + (y - Len(b))
  BY <1>1, <1>3, <1>4, <1>5 DEF Edits
<1>. QED
  BY <1>3, <1>6

-----------------------------------------------------------------------------
(* What is set aside at both ends is shared.                               *)

Shift(R, c) == {<<p[1] + c, p[2] + c>> : p \in R}

\* Pairs moved together keep their order.
LEMMA ShiftInStep ==
  ASSUME NEW M, M \subseteq Int \X Int, NEW c \in Int, InStep(M)
  PROVE  InStep(Shift(M, c))
<1>. SUFFICES ASSUME NEW p \in M, NEW q \in M
              PROVE  p[1] + c < q[1] + c <=> p[2] + c < q[2] + c
  BY DEF InStep, Shift
<1>1. p \in Int \X Int /\ q \in Int \X Int /\ (p[1] < q[1] <=> p[2] < q[2])
  BY DEF InStep
<1>. QED
  BY <1>1

\* To move pairs along the diagonal changes neither their number nor the way back.
LEMMA ShiftFinite ==
  ASSUME NEW M, IsFiniteSet(M), M \subseteq Int \X Int, NEW c \in Int
  PROVE  /\ IsFiniteSet(Shift(M, c)) /\ Shift(M, c) \subseteq Int \X Int
         /\ Cardinality(Shift(M, c)) = Cardinality(M)
         /\ Shift(Shift(M, c), -c) = M
<1>1. \A p \in M : p \in Int \X Int /\ p[1] \in Int /\ p[2] \in Int
  OBVIOUS
<1>. DEFINE f == [p \in M |-> <<p[1] + c, p[2] + c>>]
            N == Shift(M, c)
<1>2. \A p \in M : f[p] = <<p[1] + c, p[2] + c>>
  OBVIOUS
<1>3. f \in [M -> N] /\ \A q \in N : \E p \in M : f[p] = q
  BY <1>2 DEF Shift
<1>4. ASSUME NEW p \in M, NEW q \in M, f[p] = f[q] PROVE p = q
  <2>1. p[1] + c = q[1] + c /\ p[2] + c = q[2] + c
    BY <1>2, <1>4
  <2>. HIDE DEF f, N
  <2>3. p[1] \in Int /\ p[2] \in Int /\ q[1] \in Int /\ q[2] \in Int
    BY <1>1
  <2>4. \A u \in Int, v \in Int : u + c = v + c => u = v
    OBVIOUS
  <2>2. p[1] = q[1] /\ p[2] = q[2]
    BY <2>1, <2>3, <2>4
  <2>. QED
    BY <1>1, <2>2
<1>5. f \in Bijection(M, N)
  <2>. HIDE DEF f, N
  <2>. QED
    BY <1>3, <1>4 DEF Bijection, Injection, Surjection, IsInjective
<1>6. IsFiniteSet(N) /\ Cardinality(N) = Cardinality(M)
  <2>. HIDE DEF f, N
  <2>. QED
    BY <1>5, FS_Bijection DEF ExistsBijection
<1>7. N \subseteq Int \X Int
  BY <1>1 DEF Shift
<1>8. Shift(N, -c) = M
  <2>1. ASSUME NEW p \in M PROVE <<(p[1] + c) + (-c), (p[2] + c) + (-c)>> = p
    <3>1. (p[1] + c) + (-c) = p[1] /\ (p[2] + c) + (-c) = p[2]
      BY <1>1
    <3>. QED
      BY <1>1, <3>1
  <2>. DEFINE e == -c
              move(p) == <<p[1] + c, p[2] + c>>
  <2>2. ASSUME NEW p \in M PROVE move(p) \in N /\ <<move(p)[1] + e, move(p)[2] + e>> = p
    BY <2>1 DEF Shift
  <2>3. ASSUME NEW z \in Shift(N, e) PROVE z \in M
    <3>1. PICK q \in N : z = <<q[1] + e, q[2] + e>>
      BY DEF Shift
    <3>2. PICK p \in M : q = move(p)
      BY DEF Shift
    <3>3. z = p
      BY <2>2, <3>1, <3>2
    <3>. QED
      BY <3>3
  <2>4. ASSUME NEW p \in M PROVE p \in Shift(N, e)
    <3>. HIDE DEF N, move
    <3>. QED
      BY <2>2 DEF Shift
  <2>. QED
    BY <2>3, <2>4
<1>. QED
  BY <1>6, <1>7, <1>8

\* It does not change how many of them are in order either.
LEMMA LongestShift ==
  ASSUME NEW R, IsFiniteSet(R), R \subseteq Int \X Int, NEW c \in Int
  PROVE  Longest(Shift(R, c)) = Longest(R)
<1>1. ASSUME NEW S, IsFiniteSet(S), S \subseteq Int \X Int, NEW e \in Int
      PROVE  Longest(S) <= Longest(Shift(S, e))
  <2>1. PICK M \in SUBSET S : InStep(M) /\ Cardinality(M) = Longest(S)
    BY <1>1, LongestIs
  <2>2. IsFiniteSet(M) /\ M \subseteq Int \X Int
    BY <1>1, FS_Subset
  <2>3. InStep(Shift(M, e)) /\ Cardinality(Shift(M, e)) = Cardinality(M)
    BY <2>1, <2>2, ShiftInStep, ShiftFinite
  <2>4. Shift(M, e) \subseteq Shift(S, e)
    BY DEF Shift
  <2>5. IsFiniteSet(Shift(S, e))
    BY <1>1, ShiftFinite
  <2>. QED
    BY <2>1, <2>3, <2>4, <2>5, LongestIs
<1>2. IsFiniteSet(Shift(R, c)) /\ Shift(R, c) \subseteq Int \X Int /\ Shift(Shift(R, c), -c) = R
  BY ShiftFinite
<1>3. Longest(R) <= Longest(Shift(R, c))
  BY <1>1
<1>4. Longest(Shift(R, c)) <= Longest(R)
  <2>. DEFINE Q == Shift(R, c)
              e == -c
  <2>1. IsFiniteSet(Q) /\ Q \subseteq Int \X Int /\ Shift(Q, e) = R /\ e \in Int
    BY <1>2
  <2>. HIDE DEF Q, e
  <2>2. Longest(Q) <= Longest(Shift(Q, e))
    BY <1>1, <2>1
  <2>. QED
    BY <2>1, <2>2 DEF Q
<1>5. Longest(R) \in Nat
  BY LongestIs
<1>6. Longest(Shift(R, c)) \in Nat
  BY <1>2, LongestIs
<1>. QED
  BY <1>3, <1>4, <1>5, <1>6

\* What two texts share at the end is shared.
LEMMA SharedTail ==
  ASSUME NEW L, NEW s \in Seq(L), NEW t \in Seq(L), NEW j \in Nat, j <= Len(s), j <= Len(t),
         \A k \in 0..(j - 1) : s[Len(s) - k] = t[Len(t) - k]
  PROVE  Longest(Matches(s, t)) = j + Shared(s, t, Len(s) - j, Len(t) - j)
<1>. DEFINE T == {k \in Nat : k <= j =>
                    Longest(Matches(s, t)) = k + Shared(s, t, Len(s) - k, Len(t) - k)}
            n == Len(s)
            m == Len(t)
<1>0. n \in Nat /\ m \in Nat
  OBVIOUS
<1>1. 0 \in T
  <2>1. Shared(s, t, n, m) = Longest(Matches(s, t))
    BY <1>0, EditsPast
  <2>2. Longest(Matches(s, t)) \in Nat
    BY MatchesFinite, LongestIs
  <2>3. n - 0 = n /\ m - 0 = m
    BY <1>0
  <2>4. 0 + Shared(s, t, n - 0, m - 0) = Longest(Matches(s, t))
    BY <2>1, <2>2, <2>3
  <2>. QED
    BY <2>4
<1>2. ASSUME NEW k \in Nat, k \in T PROVE k + 1 \in T
  <2>. SUFFICES ASSUME k + 1 <= j
                PROVE  Longest(Matches(s, t)) = (k + 1) + Shared(s, t, n - (k + 1), m - (k + 1))
    OBVIOUS
  <2>1. Longest(Matches(s, t)) = k + Shared(s, t, n - k, m - k)
    BY <1>2
  <2>. DEFINE x == n - (k + 1)
              y == m - (k + 1)
  <2>2. x \in Nat /\ y \in Nat /\ x + 1 = n - k /\ y + 1 = m - k /\ k \in 0..(j - 1)
    BY <1>0
  <2>3. Agree(s, t, x + 1, y + 1)
    BY <1>0, <2>2 DEF Agree
  <2>. HIDE DEF x, y
  <2>4. Shared(s, t, x + 1, y + 1) = Shared(s, t, x, y) + 1
    BY <2>2, <2>3, SharedDiagonal
  <2>5. Shared(s, t, x, y) \in Nat
    BY <2>2, GridFinite
  <2>6. Longest(Matches(s, t)) = k + (Shared(s, t, x, y) + 1)
    BY <2>1, <2>2, <2>4
  <2>7. Longest(Matches(s, t)) = (k + 1) + Shared(s, t, x, y)
    BY <2>5, <2>6
  <2>. QED
    BY <2>7 DEF x, y
<1>3. j \in T
  <2>. HIDE DEF T
  <2>. QED
    BY <1>1, <1>2, NatInductionBySet
<1>. QED
  BY <1>3

\* The pairs past the first i lines of both.
Past(R, i) == {p \in R : p[1] > i /\ p[2] > i}

\* What two texts share at the start is shared.
LEMMA SharedStart ==
  ASSUME NEW L, NEW s \in Seq(L), NEW t \in Seq(L), NEW x \in Nat, NEW y \in Nat,
         NEW i \in Nat, i <= x, i <= y, i <= Len(s), i <= Len(t), \A k \in 1..i : s[k] = t[k]
  PROVE  Shared(s, t, x, y) = i + Longest(Past(Grid(s, t, x, y), i))
<1>. DEFINE R == Grid(s, t, x, y)
            T == {k \in Nat : k <= i => Longest(R) = k + Longest(Past(R, k))}
<1>0. /\ IsFiniteSet(R) /\ R \subseteq Int \X Int
      /\ \A p \in R : p[1] \in Int /\ p[2] \in Int /\ p[1] >= 1 /\ p[2] >= 1
  <2>1. IsFiniteSet(R) /\ R \subseteq Int \X Int
    BY GridFinite
  <2>2. \A p \in Matches(s, t) : p[1] \in 1..Len(s) /\ p[2] \in 1..Len(t)
    BY MatchesFinite
  <2>3. Len(s) \in Nat /\ Len(t) \in Nat
    OBVIOUS
  <2>. QED
    BY <2>1, <2>2, <2>3 DEF Grid
<1>1. 0 \in T
  <2>. HIDE DEF R
  <2>1. Past(R, 0) = R
    BY <1>0 DEF Past
  <2>2. Longest(R) \in Nat
    BY <1>0, LongestIs
  <2>. QED
    BY <2>1, <2>2
<1>2. ASSUME NEW k \in Nat, k \in T PROVE k + 1 \in T
  <2>. SUFFICES ASSUME k + 1 <= i PROVE Longest(R) = (k + 1) + Longest(Past(R, k + 1))
    OBVIOUS
  <2>1. Longest(R) = k + Longest(Past(R, k))
    BY <1>2
  <2>. DEFINE p == <<k + 1, k + 1>>
              Q == Past(R, k)
  <2>2. p \in Q
    <3>1. /\ DOMAIN s = 1..Len(s) /\ DOMAIN t = 1..Len(t) /\ Len(s) \in Nat /\ Len(t) \in Nat
          /\ k + 1 \in 1..i
      OBVIOUS
    <3>2. k + 1 \in DOMAIN s /\ k + 1 \in DOMAIN t
      BY <3>1
    <3>3. s[k + 1] = t[k + 1]
      BY <3>1
    <3>4. p \in Matches(s, t)
      BY <3>2, <3>3 DEF Matches
    <3>. QED
      BY <3>4 DEF Past, Grid
  <2>3. IsFiniteSet(Q) /\ Q \subseteq Int \X Int
    <3>. HIDE DEF R
    <3>1. Q \subseteq R
      BY DEF Past
    <3>. QED
      BY <1>0, <3>1, FS_Subset
  <2>. HIDE DEF R
  <2>4. Corner(Q, p)
    BY <1>0 DEF Past, Corner
  <2>5. WithoutBoth(Q, p) = Past(R, k + 1)
    <3>1. \A e \in Int : (e > k /\ e # k + 1) <=> e > k + 1
      OBVIOUS
    <3>2. p[1] = k + 1 /\ p[2] = k + 1
      OBVIOUS
    <3>. HIDE DEF p
    <3>. QED
      BY <1>0, <3>1, <3>2, Zenon DEF Past, WithoutBoth
  <2>. HIDE DEF Q, p
  <2>6. Longest(Q) = Longest(WithoutBoth(Q, p)) + 1
    BY <2>2, <2>3, <2>4, LongestCorner
  <2>7. IsFiniteSet(WithoutBoth(Q, p))
    <3>1. WithoutBoth(Q, p) \subseteq Q
      BY DEF WithoutBoth
    <3>. QED
      BY <2>3, <3>1, FS_Subset
  <2>8. Longest(WithoutBoth(Q, p)) \in Nat
    BY <2>7, LongestIs
  <2>. QED
    BY <2>1, <2>5, <2>6, <2>8 DEF Q
<1>3. i \in T
  <2>. HIDE DEF T
  <2>. QED
    BY <1>1, <1>2, NatInductionBySet
<1>. QED
  BY <1>3 DEF Shared

\* The middle of a text.
Middle(s, i, j) == SubSeq(s, i + 1, Len(s) - j)

\* The lines of the middle of a text.
LEMMA MiddleIs ==
  ASSUME NEW L, NEW s \in Seq(L), NEW i \in Nat, NEW j \in Nat, i + j <= Len(s)
  PROVE  /\ Middle(s, i, j) \in Seq(L) /\ Len(Middle(s, i, j)) = Len(s) - (i + j)
         /\ \A k \in 1..(Len(s) - (i + j)) : Middle(s, i, j)[k] = s[i + k]
<1>1. Len(s) \in Nat /\ i + 1 \in Int /\ Len(s) - j \in Int /\ i + 1 <= Len(s) - j + 1
  OBVIOUS
<1>2. \A k \in (i + 1)..(Len(s) - j) : s[k] \in L
  BY <1>1
<1>3. SubSeq(s, i + 1, Len(s) - j) \in Seq(L)
  BY <1>1, <1>2
<1>4. Len(SubSeq(s, i + 1, Len(s) - j)) = Len(s) - (i + j)
  BY <1>1
<1>5. \A k \in 1..(Len(s) - (i + j)) : SubSeq(s, i + 1, Len(s) - j)[k] = s[i + k]
  BY <1>1
<1>. QED
  BY <1>3, <1>4, <1>5 DEF Middle

\* What is set aside at both ends counts in full: the most lines two texts share are
\* those, and the most that what is left shares.
LEMMA LongestTrimmed ==
  ASSUME NEW L, NEW s \in Seq(L), NEW t \in Seq(L), NEW i \in Nat, NEW j \in Nat,
         i + j <= Len(s), i + j <= Len(t), \A k \in 1..i : s[k] = t[k],
         \A k \in 0..(j - 1) : s[Len(s) - k] = t[Len(t) - k]
  PROVE  Longest(Matches(s, t)) = i + j + Longest(Matches(Middle(s, i, j), Middle(t, i, j)))
<1>. DEFINE x == Len(s) - j
            y == Len(t) - j
            a == Middle(s, i, j)
            b == Middle(t, i, j)
            R == Past(Grid(s, t, x, y), i)
<1>0. Len(s) \in Nat /\ Len(t) \in Nat /\ x \in Nat /\ y \in Nat /\ i <= x /\ i <= y
  OBVIOUS
<1>1. Longest(Matches(s, t)) = j + Shared(s, t, x, y)
  BY <1>0, SharedTail
<1>2. Shared(s, t, x, y) = i + Longest(R)
  BY <1>0, SharedStart
<1>3. /\ a \in Seq(L) /\ Len(a) = x - i /\ \A k \in 1..(x - i) : a[k] = s[i + k]
      /\ b \in Seq(L) /\ Len(b) = y - i /\ \A k \in 1..(y - i) : b[k] = t[i + k]
  <2>1. Len(s) - (i + j) = x - i /\ Len(t) - (i + j) = y - i
    BY <1>0
  <2>2. /\ a \in Seq(L) /\ Len(a) = Len(s) - (i + j)
        /\ \A k \in 1..(Len(s) - (i + j)) : a[k] = s[i + k]
    BY MiddleIs
  <2>3. /\ b \in Seq(L) /\ Len(b) = Len(t) - (i + j)
        /\ \A k \in 1..(Len(t) - (i + j)) : b[k] = t[i + k]
    BY MiddleIs
  <2>. HIDE DEF x, y, a, b
  <2>. QED
    BY <2>1, <2>2, <2>3
<1>4. R = Shift(Matches(a, b), i)
  <2>. HIDE DEF x, y, a, b
  <2>0. /\ DOMAIN s = 1..Len(s) /\ DOMAIN t = 1..Len(t)
        /\ DOMAIN a = 1..(x - i) /\ DOMAIN b = 1..(y - i)
        /\ x <= Len(s) /\ y <= Len(t)
    BY <1>0, <1>3 DEF x, y
  <2>1. ASSUME NEW p \in R PROVE p \in Shift(Matches(a, b), i)
    <3>. DEFINE q == <<p[1] - i, p[2] - i>>
    <3>1. /\ p \in (DOMAIN s) \X (DOMAIN t) /\ s[p[1]] = t[p[2]]
          /\ p[1] <= x /\ p[2] <= y /\ p[1] > i /\ p[2] > i
      BY DEF Past, Grid, Matches
    <3>2. p[1] - i \in 1..(x - i) /\ p[2] - i \in 1..(y - i)
      BY <1>0, <2>0, <3>1
    <3>3. i + (p[1] - i) = p[1] /\ i + (p[2] - i) = p[2]
          /\ (p[1] - i) + i = p[1] /\ (p[2] - i) + i = p[2]
      BY <2>0, <3>1
    <3>4. a[p[1] - i] = b[p[2] - i]
      BY <1>3, <3>1, <3>2, <3>3
    <3>5. q \in Matches(a, b) /\ q[1] = p[1] - i /\ q[2] = p[2] - i
      BY <2>0, <3>2, <3>4 DEF Matches
    <3>6. p = <<q[1] + i, q[2] + i>>
      BY <3>1, <3>3, <3>5
    <3>. HIDE DEF q
    <3>. QED
      BY <3>5, <3>6 DEF Shift
  <2>2. ASSUME NEW p \in Shift(Matches(a, b), i) PROVE p \in R
    <3>1. PICK q \in Matches(a, b) : p = <<q[1] + i, q[2] + i>>
      BY DEF Shift
    <3>2. q[1] \in 1..(x - i) /\ q[2] \in 1..(y - i) /\ a[q[1]] = b[q[2]]
      BY <2>0 DEF Matches
    <3>0. ASSUME NEW u \in Nat, NEW z \in Nat, z <= u, i <= z, NEW e \in 1..(z - i)
          PROVE  /\ e + i \in 1..u /\ e + i <= z /\ e + i > i /\ i + e = e + i
      BY <3>0
    <3>3. /\ q[1] + i \in 1..Len(s) /\ q[2] + i \in 1..Len(t)
          /\ q[1] + i <= x /\ q[2] + i <= y /\ q[1] + i > i /\ q[2] + i > i
          /\ i + q[1] = q[1] + i /\ i + q[2] = q[2] + i
      BY <1>0, <2>0, <3>0, <3>2
    <3>4. s[q[1] + i] = t[q[2] + i]
      BY <1>3, <3>2, <3>3
    <3>5. p \in (DOMAIN s) \X (DOMAIN t) /\ p[1] = q[1] + i /\ p[2] = q[2] + i
      BY <2>0, <3>1, <3>3
    <3>6. p \in Grid(s, t, x, y)
      BY <3>3, <3>4, <3>5 DEF Grid, Matches
    <3>. QED
      BY <3>3, <3>5, <3>6 DEF Past
  <2>. QED
    BY <2>1, <2>2
<1>5. Longest(R) = Longest(Matches(a, b)) /\ Longest(Matches(a, b)) \in Nat
  <2>. DEFINE N == Matches(a, b)
  <2>1. IsFiniteSet(N) /\ N \subseteq (1..Len(a)) \X (1..Len(b))
    <3>. HIDE DEF a, b
    <3>. QED
      BY <1>3, MatchesFinite
  <2>2. N \subseteq Int \X Int
    <3>. HIDE DEF a, b
    <3>. QED
      BY <1>0, <1>3, <2>1
  <2>. HIDE DEF N
  <2>3. Longest(Shift(N, i)) = Longest(N)
    BY <2>1, <2>2, LongestShift
  <2>4. Longest(N) \in Nat
    BY <2>1, LongestIs
  <2>. QED
    BY <1>4, <2>3, <2>4 DEF N
<1>. HIDE DEF x, y, a, b, R
<1>6. Longest(Matches(s, t)) = j + (i + Longest(Matches(a, b)))
  BY <1>1, <1>2, <1>5
<1>7. Longest(Matches(s, t)) = i + j + Longest(Matches(a, b))
  BY <1>5, <1>6
<1>. QED
  BY <1>7 DEF a, b

-----------------------------------------------------------------------------
(* The ends set aside, and how far a diagonal goes.                        *)

\* The greatest of some numbers up to a bound.
LEMMA MaxIs ==
  ASSUME NEW m \in Nat, NEW S, S \subseteq 0..m, 0 \in S
  PROVE  Max(S) \in S /\ Max(S) \in Nat /\ Max(S) <= m /\ \A n \in S : n <= Max(S)
<1>1. IsFiniteSet(0..m)
  BY FS_Interval
<1>0. S \subseteq Nat /\ S # {}
  OBVIOUS
<1>2. IsFiniteSet(S)
  BY <1>1, FS_Subset
<1>3. PICK g \in S : \A n \in S : n <= g
  BY <1>0, <1>2, GreatestNatural
<1>4. \A n \in S : g >= n
  BY <1>0, <1>3
<1>5. Max(S) \in S /\ \A n \in S : Max(S) >= n
  BY <1>3, <1>4 DEF Max
<1>6. \A n \in S : n \in 0..m /\ n \in Nat /\ n <= m
  OBVIOUS
<1>7. \A n \in S : n <= Max(S)
  BY <1>5, <1>6
<1>. QED
  BY <1>5, <1>6, <1>7

\* The smaller of two numbers.
LEMMA MinIs ==
  ASSUME NEW x \in Int, NEW y \in Int
  PROVE  Min({x, y}) = IF x <= y THEN x ELSE y
<1>. DEFINE m == IF x <= y THEN x ELSE y
<1>1. m \in {x, y} /\ \A n \in {x, y} : m <= n
  OBVIOUS
<1>2. Min({x, y}) \in {x, y} /\ \A n \in {x, y} : Min({x, y}) <= n
  BY <1>1 DEF Min
<1>. QED
  BY <1>1, <1>2

\* What the two texts are without the lines they share at their ends.
LEMMA EndsSetAside ==
  ASSUME NEW L, old \in Seq(L), new \in Seq(L)
  PROVE  /\ Start \in Nat /\ Tail_ \in Nat
         /\ Start + Tail_ <= Len(old) /\ Start + Tail_ <= Len(new)
         /\ \A k \in 1..Start : old[k] = new[k]
         /\ \A k \in 0..(Tail_ - 1) : old[Len(old) - k] = new[Len(new) - k]
         /\ A = Middle(old, Start, Tail_) /\ B = Middle(new, Start, Tail_)
         /\ A \in Seq(L) /\ B \in Seq(L) /\ Len(A) \in Nat /\ Len(B) \in Nat
         /\ Bound = Len(A) + Len(B) /\ Bound \in Nat
<1>. DEFINE w == Min({Len(old), Len(new)})
            S == {n \in 0..w : \A j \in 1..n : old[j] = new[j]}
<1>1. w \in Nat /\ w <= Len(old) /\ w <= Len(new) /\ Len(old) \in Nat /\ Len(new) \in Nat
  <2>1. Len(old) \in Nat /\ Len(new) \in Nat
    OBVIOUS
  <2>2. w = IF Len(old) <= Len(new) THEN Len(old) ELSE Len(new)
    BY <2>1, MinIs
  <2>. HIDE DEF w
  <2>. QED
    BY <2>1, <2>2
<1>. HIDE DEF w
<1>2. Start \in S /\ Start \in 0..w
  <2>1. S \subseteq 0..w /\ 0 \in S
    BY <1>1
  <2>. HIDE DEF S
  <2>2. Max(S) \in S /\ Max(S) <= w
    BY <1>1, <2>1, MaxIs
  <2>3. Start = Max(S)
    BY DEF Start, S, w
  <2>. QED
    BY <2>1, <2>2, <2>3
<1>. DEFINE v == w - Start
            U == {n \in 0..v : \A j \in 0..(n - 1) : old[Len(old) - j] = new[Len(new) - j]}
<1>3. v \in Nat
  BY <1>1, <1>2
<1>. HIDE DEF v
<1>4. Tail_ \in U /\ Tail_ \in 0..v
  <2>1. U \subseteq 0..v /\ 0 \in U
    BY <1>3
  <2>. HIDE DEF U
  <2>2. Max(U) \in U /\ Max(U) <= v
    BY <1>3, <2>1, MaxIs
  <2>3. Tail_ = Max(U)
    BY DEF Tail_, U, v, w
  <2>. QED
    BY <2>1, <2>2, <2>3
<1>5. /\ Start \in Nat /\ Tail_ \in Nat
      /\ Start + Tail_ <= Len(old) /\ Start + Tail_ <= Len(new)
  BY <1>1, <1>2, <1>4 DEF v
<1>6. \A k \in 1..Start : old[k] = new[k]
  BY <1>2
<1>7. \A k \in 0..(Tail_ - 1) : old[Len(old) - k] = new[Len(new) - k]
  BY <1>4
<1>8. A = Middle(old, Start, Tail_) /\ B = Middle(new, Start, Tail_)
  BY DEF A, B, Middle
<1>9. A \in Seq(L)
  BY <1>5, <1>8, MiddleIs
<1>10. B \in Seq(L)
  BY <1>5, <1>8, MiddleIs
<1>11. Len(A) \in Nat /\ Len(B) \in Nat
  BY <1>9, <1>10
<1>12. Bound = Len(A) + Len(B) /\ Bound \in Nat
  BY <1>11 DEF Bound
<1>. QED
  BY <1>5, <1>6, <1>7, <1>8, <1>9, <1>10, <1>11, <1>12

\* The next n lines of a diagonal agree, and no more.
Runs(a, b, x, y, n) == \A j \in 1..n : Agree(a, b, x + j, y + j)
RunEnds(a, b, x, y, n) == Runs(a, b, x, y, n) /\ ~Agree(a, b, x + n + 1, y + n + 1)

\* A diagonal is followed while the lines agree and no further.
LEMMA SnakeIs ==
  ASSUME NEW L, A \in Seq(L), B \in Seq(L), NEW x \in Nat, NEW y \in Nat
  PROVE  \E n \in Nat : Snake(x, y) = x + n /\ RunEnds(A, B, x, y, n)
<1>. DEFINE w == Min({Len(A) - x, Len(B) - y})
            S == {0} \cup {n \in 0..w : \A j \in 1..n : A[x + j] = B[y + j]}
            m == IF w < 0 THEN 0 ELSE w
            n == Max(S)
<1>1. /\ Len(A) \in Nat /\ Len(B) \in Nat /\ w \in Int
      /\ \A i \in Int : i <= w <=> x + i <= Len(A) /\ y + i <= Len(B)
  <2>1. Len(A) \in Nat /\ Len(B) \in Nat
    OBVIOUS
  <2>. DEFINE p == Len(A) - x
              q == Len(B) - y
  <2>2. p \in Int /\ q \in Int
    BY <2>1
  <2>3. w = IF p <= q THEN p ELSE q
    <3>. HIDE DEF p, q
    <3>1. Min({p, q}) = IF p <= q THEN p ELSE q
      BY <2>2, MinIs
    <3>. QED
      BY <3>1 DEF p, q
  <2>4. \A i \in Int : (i <= p <=> x + i <= Len(A)) /\ (i <= q <=> y + i <= Len(B))
    BY <2>1
  <2>5. w \in Int /\ \A i \in Int : i <= w <=> i <= p /\ i <= q
    <3>. HIDE DEF w, p, q
    <3>. QED
      BY <2>2, <2>3
  <2>. HIDE DEF w, p, q
  <2>. QED
    BY <2>1, <2>4, <2>5
<1>2. Snake(x, y) = x + n
  BY DEF Snake
<1>. HIDE DEF w
<1>3. m \in Nat /\ S \subseteq 0..m /\ 0 \in S
  BY <1>1
<1>4. n \in S /\ n \in Nat /\ \A i \in S : i <= n
  <2>. HIDE DEF S, m
  <2>. QED
    BY <1>3, MaxIs
<1>. HIDE DEF n
<1>5. ASSUME NEW j \in 1..n PROVE Agree(A, B, x + j, y + j)
  <2>1. n \in 0..w /\ j <= w /\ A[x + j] = B[y + j]
    BY <1>1, <1>4
  <2>. QED
    BY <1>1, <2>1 DEF Agree
<1>6. ASSUME Agree(A, B, x + n + 1, y + n + 1) PROVE FALSE
  <2>1. x + n + 1 = x + (n + 1) /\ y + n + 1 = y + (n + 1) /\ n + 1 \in Nat
    BY <1>4
  <2>2. Agree(A, B, x + (n + 1), y + (n + 1))
    BY <1>6, <2>1
  <2>3. n + 1 <= w
    <3>1. n + 1 <= w <=> x + (n + 1) <= Len(A) /\ y + (n + 1) <= Len(B)
      <4>. DEFINE i == n + 1
      <4>1. i \in Int
        BY <2>1
      <4>. HIDE DEF i
      <4>2. i <= w <=> x + i <= Len(A) /\ y + i <= Len(B)
        BY <1>1, <4>1
      <4>. QED
        BY <4>2 DEF i
    <3>. QED
      BY <2>2, <3>1 DEF Agree
  <2>4. ASSUME NEW j \in 1..(n + 1) PROVE A[x + j] = B[y + j]
    <3>1. CASE j = n + 1
      BY <2>2, <3>1 DEF Agree
    <3>2. CASE j # n + 1
      <4>1. j \in 1..n
        BY <1>4, <3>2
      <4>. QED
        BY <1>5, <4>1 DEF Agree
    <3>. QED
      BY <3>1, <3>2
  <2>5. n + 1 \in S
    BY <1>1, <2>1, <2>3, <2>4
  <2>. HIDE DEF S
  <2>. QED
    BY <1>4, <2>5
<1>7. RunEnds(A, B, x, y, n)
  BY <1>5, <1>6 DEF RunEnds, Runs
<1>. QED
  BY <1>2, <1>4, <1>7

-----------------------------------------------------------------------------
(* The rows of the search.                                                 *)

\* r is the furthest point of diagonal k that d edits reach.
Reached(a, b, r, k, d) ==
  /\ r \in Nat /\ r - k \in Nat /\ Edits(a, b, r, r - k) <= d
  /\ \A x \in Nat : x - k \in Nat /\ Edits(a, b, x, x - k) <= d => x <= r

\* A row has the furthest point of each diagonal that d edits can end on.
Furthest(a, b, row, d) ==
  \A k \in (-d)..d : (k + d) % 2 = 0 => Reached(a, b, row[k], k, d)

\* To follow a diagonal costs no edit.
LEMMA SnakeFree ==
  ASSUME NEW L, NEW a \in Seq(L), NEW b \in Seq(L), NEW x \in Nat, NEW y \in Nat, NEW n \in Nat,
         Runs(a, b, x, y, n)
  PROVE  Edits(a, b, x + n, y + n) = Edits(a, b, x, y)
<1>. DEFINE T == {i \in Nat : i <= n => Edits(a, b, x + i, y + i) = Edits(a, b, x, y)}
<1>1. 0 \in T
  <2>1. x + 0 = x /\ y + 0 = y
    OBVIOUS
  <2>. QED
    BY <2>1
<1>2. ASSUME NEW i \in Nat, i \in T PROVE i + 1 \in T
  <2>. SUFFICES ASSUME i + 1 <= n PROVE Edits(a, b, x + (i + 1), y + (i + 1)) = Edits(a, b, x, y)
    OBVIOUS
  <2>. DEFINE u == x + i
              v == y + i
  <2>1. u \in Nat /\ v \in Nat /\ x + (i + 1) = u + 1 /\ y + (i + 1) = v + 1 /\ i + 1 \in 1..n
    OBVIOUS
  <2>2. Agree(a, b, u + 1, v + 1)
    BY <2>1 DEF Runs
  <2>3. Edits(a, b, u, v) = Edits(a, b, x, y)
    BY <1>2
  <2>. HIDE DEF u, v
  <2>4. Edits(a, b, u + 1, v + 1) = Edits(a, b, u, v)
    BY <2>1, <2>2, EditsStep
  <2>. QED
    BY <2>1, <2>3, <2>4
<1>3. n \in T
  <2>. HIDE DEF T
  <2>. QED
    BY <1>1, <1>2, NatInductionBySet
<1>. QED
  BY <1>3

\* No point of diagonal k that d edits reach by an edit is past z.
NoneEntersPast(a, b, z, k, d) ==
  \A x \in Nat, y \in Nat :
    x - y = k /\ ~Agree(a, b, x + 1, y + 1) /\ Edits(a, b, x + 1, y + 1) <= d => x + 1 <= z

\* From a point no point reached by an edit is past, the diagonal leads to the furthest.
LEMMA SnakeReaches ==
  ASSUME NEW L, A \in Seq(L), B \in Seq(L), NEW k \in Int, NEW d \in Nat,
         NEW z \in Nat, z - k \in Nat, Edits(A, B, z, z - k) <= d,
         NoneEntersPast(A, B, z, k, d)
  PROVE  Reached(A, B, Snake(z, z - k), k, d)
<1>. DEFINE y == z - k
            r == Snake(z, y)
<1>1. PICK n \in Nat : r = z + n /\ RunEnds(A, B, z, y, n)
  <2>. HIDE DEF y
  <2>1. y \in Nat
    BY DEF y
  <2>. QED
    BY <2>1, SnakeIs
<1>2. r \in Nat /\ r - k = y + n /\ r - k \in Nat /\ y \in Nat /\ r >= z
  <2>. HIDE DEF r
  <2>. QED
    BY <1>1
<1>3. Edits(A, B, r, r - k) <= d
  <2>1. Edits(A, B, z + n, y + n) = Edits(A, B, z, y)
    <3>. HIDE DEF y, r
    <3>. QED
      BY <1>1, <1>2, SnakeFree DEF RunEnds
  <2>. QED
    BY <1>1, <1>2, <2>1
<1>. HIDE DEF r
<1>. DEFINE T == {x \in Nat : x - k \in Nat /\ Edits(A, B, x, x - k) <= d => x <= r}
<1>4. 0 \in T
  BY <1>2
<1>5. ASSUME NEW x \in Nat, x \in T PROVE x + 1 \in T
  <2>. SUFFICES ASSUME x + 1 - k \in Nat, Edits(A, B, x + 1, x + 1 - k) <= d PROVE x + 1 <= r
    OBVIOUS
  <2>. DEFINE v == x - k
  <2>1. CASE x + 1 - k = 0
    BY <1>2, <2>1
  <2>2. CASE x + 1 - k # 0
    <3>1. v \in Nat /\ x + 1 - k = v + 1 /\ x - v = k
      BY <2>2
    <3>2. Edits(A, B, x + 1, v + 1) <= d
      BY <3>1
    <3>3. CASE ~Agree(A, B, x + 1, v + 1)
      <4>. HIDE DEF v
      <4>1. x + 1 <= z
        BY <3>1, <3>2, <3>3 DEF NoneEntersPast
      <4>. QED
        BY <1>2, <4>1
    <3>4. CASE Agree(A, B, x + 1, v + 1)
      <4>1. Edits(A, B, x + 1, v + 1) = Edits(A, B, x, v)
        <5>. HIDE DEF v
        <5>. QED
          BY <3>1, <3>4, EditsStep
      <4>2. x <= r
        BY <1>5, <3>1, <3>2, <4>1
      <4>3. CASE x = r
        <5>1. x + 1 = z + n + 1 /\ v + 1 = y + n + 1
          <6>. HIDE DEF v, y
          <6>. QED
            BY <1>1, <1>2, <3>1, <4>3
        <5>. QED
          BY <1>1, <3>4, <5>1 DEF RunEnds
      <4>. QED
        BY <1>2, <4>2, <4>3
    <3>. QED
      BY <3>3, <3>4
  <2>. QED
    BY <2>1, <2>2
<1>6. Nat \subseteq T
  <2>. HIDE DEF T
  <2>. QED
    BY <1>4, <1>5, NatInductionBySet
<1>7. \A x \in Nat : x - k \in Nat /\ Edits(A, B, x, x - k) <= d => x <= r
  BY <1>6
<1>8. Reached(A, B, r, k, d)
  BY <1>2, <1>3, <1>7 DEF Reached
<1>. QED
  BY <1>8 DEF r

\* The diagonals beside one that d edits can end on.
LEMMA Neighbours ==
  ASSUME NEW d \in Nat, d >= 1, NEW k \in (-d)..d, (k + d) % 2 = 0
  PROVE  /\ ((k + 1) + (d - 1)) % 2 = 0 /\ ((k - 1) + (d - 1)) % 2 = 0
         /\ k # d => k + 1 \in (-(d - 1))..(d - 1)
         /\ k # -d => k - 1 \in (-(d - 1))..(d - 1)
         /\ d - 1 \in Nat
<1>1. (k + 1) + (d - 1) = k + d /\ (k - 1) + (d - 1) = (k + d) - 2
  OBVIOUS
<1>2. ((k + d) - 2) % 2 = 0
  OBVIOUS
<1>3. ASSUME k # d PROVE k # d - 1
  <2>1. ASSUME k = d - 1 PROVE FALSE
    <3>1. k + d = 2 * d - 1 /\ (2 * d - 1) % 2 = 1
      BY <2>1
    <3>. QED
      BY <3>1
  <2>. QED
    BY <2>1
<1>4. ASSUME k # -d PROVE k # -d + 1
  <2>1. ASSUME k = -d + 1 PROVE FALSE
    <3>1. k + d = 1
      BY <2>1
    <3>. QED
      BY <3>1
  <2>. QED
    BY <2>1
<1>. QED
  BY <1>1, <1>2, <1>3, <1>4

\* What a row says of one of its diagonals.
LEMMA FurthestAt ==
  ASSUME NEW a, NEW b, NEW row, NEW d, Furthest(a, b, row, d),
         NEW k \in (-d)..d, (k + d) % 2 = 0
  PROVE  Reached(a, b, row[k], k, d)
BY DEF Furthest

\* No point that few edits reach is past the row's, if its diagonal is one of the row's.
LEMMA NonePast ==
  ASSUME NEW L, NEW a \in Seq(L), NEW b \in Seq(L), NEW row, NEW d \in Nat, Furthest(a, b, row, d),
         NEW x \in Nat, NEW y \in Nat, Edits(a, b, x, y) <= d, ((x - y) + d) % 2 = 0
  PROVE  x - y \in (-d)..d /\ x <= row[x - y]
<1>. DEFINE e == Edits(a, b, x, y)
            k == x - y
<1>1. e \in Nat /\ k \in (-e)..e
  BY EditsBound
<1>2. e <= d
  OBVIOUS
<1>. HIDE DEF e
<1>3. k \in (-d)..d /\ (k + d) % 2 = 0 /\ x - k = y
  BY <1>1, <1>2
<1>. HIDE DEF k
<1>4. Reached(a, b, row[k], k, d)
  BY <1>3, FurthestAt
<1>5. x <= row[k]
  BY <1>3, <1>4 DEF Reached
<1>. QED
  BY <1>3, <1>5 DEF k

\* Where diagonal k is entered at depth d.
Entry(row, d, k) == IF FromAbove(row, d, k) THEN row[k + 1] ELSE row[k - 1] + 1

\* One edit from the furthest points of the row before, no point can be entered further.
LEMMA EntryIs ==
  ASSUME NEW L, NEW a \in Seq(L), NEW b \in Seq(L), NEW row, NEW d \in Nat, d >= 1,
         Furthest(a, b, row, d - 1), NEW k \in (-d)..d, (k + d) % 2 = 0
  PROVE  /\ Entry(row, d, k) \in Nat /\ Entry(row, d, k) - k \in Nat
         /\ Edits(a, b, Entry(row, d, k), Entry(row, d, k) - k) <= d
         /\ NoneEntersPast(a, b, Entry(row, d, k), k, d)
<1>. DEFINE z == Entry(row, d, k)
            c == d - 1
<1>0. /\ ((k + 1) + c) % 2 = 0 /\ ((k - 1) + c) % 2 = 0
      /\ k # d => k + 1 \in (-c)..c
      /\ k # -d => k - 1 \in (-c)..c
      /\ c \in Nat
  BY Neighbours
<1>1. Furthest(a, b, row, c)
  OBVIOUS
<1>. HIDE DEF c
<1>2. CASE FromAbove(row, d, k)
  <2>1. z = row[k + 1] /\ k # d /\ (k # -d => row[k - 1] < z)
    BY <1>2, d >= 1 DEF FromAbove, Entry
  <2>2. Reached(a, b, row[k + 1], k + 1, c)
    BY <1>0, <1>1, <2>1, FurthestAt
  <2>. HIDE DEF z
  <2>3. z \in Nat /\ z - (k + 1) \in Nat /\ Edits(a, b, z, z - (k + 1)) <= c
    BY <2>1, <2>2 DEF Reached
  <2>. DEFINE y == z - (k + 1)
  <2>4. y \in Nat /\ y + 1 = z - k /\ z - k \in Nat
    BY <2>3
  <2>5. Edits(a, b, z, y) <= c
    BY <2>3
  <2>. HIDE DEF y
  <2>6. Edits(a, b, z, y + 1) <= Edits(a, b, z, y) + 1
    BY <2>3, <2>4, EditsStep
  <2>7. Edits(a, b, z, y) \in Int /\ Edits(a, b, z, y + 1) \in Int
    <3>1. Edits(a, b, z, y) \in Int
      BY <2>3, <2>4, GridFinite
    <3>2. y + 1 \in Nat
      BY <2>4
    <3>. QED
      BY <2>3, <3>1, <3>2, GridFinite
  <2>8. Edits(a, b, z, z - k) <= d
    <3>1. Edits(a, b, z, y + 1) <= d
      BY <1>0, <2>5, <2>6, <2>7 DEF c
    <3>. QED
      BY <2>4, <3>1
  <2>9. NoneEntersPast(a, b, z, k, d)
    <3>. SUFFICES ASSUME NEW u \in Nat, NEW v \in Nat, u - v = k, ~Agree(a, b, u + 1, v + 1),
                         Edits(a, b, u + 1, v + 1) <= d
                  PROVE  u + 1 <= z
      BY DEF NoneEntersPast
    <3>0. u + 1 \in Nat /\ v + 1 \in Nat
      OBVIOUS
    <3>1. /\ Edits(a, b, u + 1, v + 1) \in Nat /\ Edits(a, b, u, v + 1) \in Nat
          /\ Edits(a, b, u + 1, v) \in Nat
      BY <3>0, EditsBound
    <3>2. \/ Edits(a, b, u + 1, v + 1) = Edits(a, b, u, v + 1) + 1
          \/ Edits(a, b, u + 1, v + 1) = Edits(a, b, u + 1, v) + 1
      BY EditsStep
    <3>3. CASE Edits(a, b, u, v + 1) <= c
      <4>. DEFINE w == v + 1
      <4>1. u - w = k - 1 /\ w \in Nat
        OBVIOUS
      <4>2. Edits(a, b, u, w) <= c
        BY <3>3
      <4>. HIDE DEF w
      <4>3. u - w \in (-c)..c /\ u <= row[u - w]
        BY <1>0, <1>1, <4>1, <4>2, NonePast
      <4>4. k # -d
        BY <1>0, <4>1, <4>3 DEF c
      <4>5. Reached(a, b, row[k - 1], k - 1, c)
        BY <1>0, <1>1, <4>4, FurthestAt
      <4>6. row[k - 1] \in Nat
        BY <4>5 DEF Reached
      <4>. QED
        BY <2>1, <2>3, <4>1, <4>3, <4>4, <4>6, SMTT(30)
    <3>4. CASE Edits(a, b, u + 1, v) <= c
      <4>. DEFINE w == u + 1
      <4>1. w - v = k + 1 /\ w \in Nat
        OBVIOUS
      <4>2. Edits(a, b, w, v) <= c
        BY <3>4
      <4>. HIDE DEF w
      <4>3. w <= row[w - v]
        BY <1>0, <1>1, <4>1, <4>2, NonePast
      <4>. QED
        BY <2>1, <4>1, <4>3 DEF w
    <3>5. Edits(a, b, u, v + 1) <= c \/ Edits(a, b, u + 1, v) <= c
      BY <1>0, <3>1, <3>2 DEF c
    <3>. QED
      BY <3>3, <3>4, <3>5
  <2>. QED
    BY <2>3, <2>4, <2>8, <2>9 DEF z
<1>3. CASE ~FromAbove(row, d, k)
  <2>1. z = row[k - 1] + 1 /\ k # -d /\ (k # d => ~(row[k - 1] < row[k + 1]))
    BY <1>3 DEF FromAbove, Entry
  <2>2. Reached(a, b, row[k - 1], k - 1, c)
    BY <1>0, <1>1, <2>1, FurthestAt
  <2>. HIDE DEF z
  <2>. DEFINE x == row[k - 1]
  <2>3. x \in Nat /\ x - (k - 1) \in Nat /\ Edits(a, b, x, x - (k - 1)) <= c
    BY <2>2 DEF Reached
  <2>. DEFINE y == x - (k - 1)
  <2>4. y \in Nat /\ y = z - k /\ z \in Nat /\ z - k \in Nat /\ z = x + 1
    BY <2>1, <2>3
  <2>5. Edits(a, b, x, y) <= c
    BY <2>3
  <2>. HIDE DEF y, x
  <2>6. Edits(a, b, x + 1, y) <= Edits(a, b, x, y) + 1
    BY <2>3, <2>4, EditsStep
  <2>7. Edits(a, b, x, y) \in Int /\ Edits(a, b, x + 1, y) \in Int
    <3>1. Edits(a, b, x, y) \in Int
      BY <2>3, <2>4, GridFinite
    <3>2. x + 1 \in Nat
      BY <2>3
    <3>. QED
      BY <2>4, <3>1, <3>2, GridFinite
  <2>8. Edits(a, b, z, z - k) <= d
    <3>1. Edits(a, b, x + 1, y) <= d
      BY <1>0, <2>5, <2>6, <2>7 DEF c
    <3>. QED
      BY <2>4, <3>1
  <2>9. NoneEntersPast(a, b, z, k, d)
    <3>. SUFFICES ASSUME NEW u \in Nat, NEW v \in Nat, u - v = k, ~Agree(a, b, u + 1, v + 1),
                         Edits(a, b, u + 1, v + 1) <= d
                  PROVE  u + 1 <= z
      BY DEF NoneEntersPast
    <3>0. u + 1 \in Nat /\ v + 1 \in Nat
      OBVIOUS
    <3>1. /\ Edits(a, b, u + 1, v + 1) \in Nat /\ Edits(a, b, u, v + 1) \in Nat
          /\ Edits(a, b, u + 1, v) \in Nat
      BY <3>0, EditsBound
    <3>2. \/ Edits(a, b, u + 1, v + 1) = Edits(a, b, u, v + 1) + 1
          \/ Edits(a, b, u + 1, v + 1) = Edits(a, b, u + 1, v) + 1
      BY EditsStep
    <3>3. CASE Edits(a, b, u, v + 1) <= c
      <4>. DEFINE w == v + 1
      <4>1. u - w = k - 1 /\ w \in Nat
        OBVIOUS
      <4>2. Edits(a, b, u, w) <= c
        BY <3>3
      <4>. HIDE DEF w
      <4>3. u <= row[u - w]
        BY <1>0, <1>1, <4>1, <4>2, NonePast
      <4>4. u <= x
        BY <4>1, <4>3 DEF x
      <4>. QED
        BY <2>3, <2>4, <4>4
    <3>4. CASE Edits(a, b, u + 1, v) <= c
      <4>. DEFINE w == u + 1
      <4>1. w - v = k + 1 /\ w \in Nat
        OBVIOUS
      <4>2. Edits(a, b, w, v) <= c
        BY <3>4
      <4>. HIDE DEF w
      <4>3. w - v \in (-c)..c /\ w <= row[w - v]
        BY <1>0, <1>1, <4>1, <4>2, NonePast
      <4>4. k # d
        BY <1>0, <4>1, <4>3 DEF c
      <4>5. Reached(a, b, row[k + 1], k + 1, c)
        BY <1>0, <1>1, <4>4, FurthestAt
      <4>6. row[k + 1] \in Nat
        BY <4>5 DEF Reached
      <4>7. row[k + 1] <= x
        BY <2>1, <2>3, <4>4, <4>6 DEF x
      <4>. QED
        BY <2>3, <2>4, <4>1, <4>3, <4>6, <4>7 DEF w
    <3>5. Edits(a, b, u, v + 1) <= c \/ Edits(a, b, u + 1, v) <= c
      BY <1>0, <3>1, <3>2 DEF c
    <3>. QED
      BY <3>3, <3>4, <3>5
  <2>. QED
    BY <2>4, <2>8, <2>9 DEF z
<1>. QED
  BY <1>2, <1>3

\* The rows of the search, as functions on its diagonals.
Rows == [(-Bound)..Bound -> Nat]

\* In a row each diagonal runs from where it was entered.
Follows(a, b, next, row, d) ==
  \A k \in (-d)..d : (k + d) % 2 = 0 =>
    \E n \in Nat : /\ next[k] = Entry(row, d, k) + n
                  /\ Runs(a, b, Entry(row, d, k), Entry(row, d, k) - k, n)

\* A row has the furthest points if the one before has.
LEMMA RowFurthest ==
  ASSUME NEW L, old \in Seq(L), new \in Seq(L), NEW d \in Nat, d >= 1, d <= Bound,
         NEW row \in Rows, Furthest(A, B, row, d - 1)
  PROVE  /\ Row(row, d) \in Rows /\ Furthest(A, B, Row(row, d), d)
         /\ Follows(A, B, Row(row, d), row, d)
<1>0. A \in Seq(L) /\ B \in Seq(L) /\ Bound \in Nat
  BY EndsSetAside
<1>1. ASSUME NEW k \in (-d)..d, (k + d) % 2 = 0
      PROVE  /\ Reached(A, B, Row(row, d)[k], k, d)
             /\ \E n \in Nat : /\ Row(row, d)[k] = Entry(row, d, k) + n
                              /\ Runs(A, B, Entry(row, d, k), Entry(row, d, k) - k, n)
  <2>1. k \in (-Bound)..Bound /\ ~((k + d) % 2 = 1)
    BY <1>0, <1>1
  <2>2. Row(row, d)[k] = Snake(Entry(row, d, k), Entry(row, d, k) - k)
    BY <2>1 DEF Row, Entry
  <2>. DEFINE z == Entry(row, d, k)
  <2>3. z \in Nat /\ z - k \in Nat /\ Edits(A, B, z, z - k) <= d /\ NoneEntersPast(A, B, z, k, d)
    BY <1>0, <1>1, EntryIs
  <2>. HIDE DEF z
  <2>4. Reached(A, B, Snake(z, z - k), k, d)
    BY <1>0, <2>3, SnakeReaches
  <2>. DEFINE y == z - k
  <2>5. y \in Nat
    BY <2>3
  <2>. HIDE DEF y
  <2>6. PICK n \in Nat : Snake(z, y) = z + n /\ RunEnds(A, B, z, y, n)
    BY <1>0, <2>3, <2>5, SnakeIs
  <2>7. Snake(z, z - k) = z + n /\ Runs(A, B, z, z - k, n)
    BY <2>6 DEF RunEnds, y
  <2>. QED
    BY <2>2, <2>4, <2>7 DEF z
<1>2. Furthest(A, B, Row(row, d), d) /\ Follows(A, B, Row(row, d), row, d)
  BY <1>1 DEF Furthest, Follows
<1>3. ASSUME NEW k \in (-Bound)..Bound PROVE Row(row, d)[k] \in Nat
  <2>1. CASE k \notin (-d)..d \/ (k + d) % 2 = 1
    BY <2>1 DEF Row, Rows
  <2>2. CASE k \in (-d)..d /\ (k + d) % 2 # 1
    <3>1. (k + d) % 2 = 0
      BY <2>2
    <3>. QED
      BY <1>1, <2>2, <3>1 DEF Reached
  <2>. QED
    BY <2>1, <2>2
<1>4. Row(row, d) = [k \in (-Bound)..Bound |-> Row(row, d)[k]]
  BY DEF Row
<1>5. Row(row, d) \in Rows
  BY <1>3, <1>4 DEF Rows
<1>. QED
  BY <1>2, <1>5

\* Row 0 has what no edit reaches.
LEMMA ZeroRowFurthest ==
  ASSUME NEW L, old \in Seq(L), new \in Seq(L)
  PROVE  /\ ZeroRow \in Rows /\ Furthest(A, B, ZeroRow, 0)
         /\ \E n \in Nat : ZeroRow[0] = n /\ Runs(A, B, 0, 0, n)
<1>0. A \in Seq(L) /\ B \in Seq(L) /\ Bound \in Nat
  BY EndsSetAside
<1>1. Edits(A, B, 0, 0) <= 0
  BY <1>0, EditsBound
<1>2. NoneEntersPast(A, B, 0, 0, 0)
  <2>. SUFFICES ASSUME NEW u \in Nat, NEW v \in Nat, ~Agree(A, B, u + 1, v + 1),
                       Edits(A, B, u + 1, v + 1) <= 0
                PROVE  FALSE
    BY DEF NoneEntersPast
  <2>0. u + 1 \in Nat /\ v + 1 \in Nat
    OBVIOUS
  <2>1. /\ Edits(A, B, u + 1, v + 1) \in Nat /\ Edits(A, B, u, v + 1) \in Nat
        /\ Edits(A, B, u + 1, v) \in Nat
    BY <1>0, <2>0, EditsBound
  <2>2. \/ Edits(A, B, u + 1, v + 1) = Edits(A, B, u, v + 1) + 1
        \/ Edits(A, B, u + 1, v + 1) = Edits(A, B, u + 1, v) + 1
    BY <1>0, EditsStep
  <2>. QED
    BY <2>1, <2>2
<1>3. Reached(A, B, Snake(0, 0), 0, 0)
  <2>. DEFINE z == 0
              k == 0
              d == 0
  <2>1. /\ z \in Nat /\ k \in Int /\ d \in Nat /\ z - k \in Nat /\ z - k = 0
        /\ Edits(A, B, z, z - k) <= d /\ NoneEntersPast(A, B, z, k, d)
    BY <1>1, <1>2
  <2>. HIDE DEF z, k, d
  <2>2. Reached(A, B, Snake(z, z - k), k, d)
    BY <1>0, <2>1, SnakeReaches
  <2>3. z = 0 /\ k = 0 /\ d = 0
    BY DEF z, k, d
  <2>. QED
    BY <2>1, <2>2, <2>3
<1>4. /\ ZeroRow[0] = Snake(0, 0)
      /\ \A k \in (-Bound)..Bound : ZeroRow[k] = IF k = 0 THEN Snake(0, 0) ELSE 0
  BY <1>0 DEF ZeroRow
<1>5. Furthest(A, B, ZeroRow, 0)
  <2>. SUFFICES ASSUME NEW k \in (-0)..0 PROVE Reached(A, B, ZeroRow[k], k, 0)
    BY DEF Furthest
  <2>1. k = 0
    OBVIOUS
  <2>. QED
    BY <1>3, <1>4, <2>1
<1>6. ZeroRow \in Rows
  <2>1. ZeroRow = [k \in (-Bound)..Bound |-> ZeroRow[k]]
    BY DEF ZeroRow
  <2>2. Snake(0, 0) \in Nat
    BY <1>3 DEF Reached
  <2>. QED
    BY <1>4, <2>1, <2>2 DEF Rows
<1>7. \E n \in Nat : ZeroRow[0] = n /\ Runs(A, B, 0, 0, n)
  <2>1. PICK n \in Nat : Snake(0, 0) = 0 + n /\ RunEnds(A, B, 0, 0, n)
    BY <1>0, SnakeIs
  <2>. QED
    BY <1>4, <2>1 DEF RunEnds
<1>. QED
  BY <1>5, <1>6, <1>7

-----------------------------------------------------------------------------
(* Parts of a text.                                                        *)

\* What comes after the first i of a text, up to the first j.
Part(s, i, j) == SubSeq(s, i + 1, j)

\* The lines of a part.
LEMMA PartIs ==
  ASSUME NEW L, NEW s \in Seq(L), NEW i \in Nat, NEW j \in Nat, i <= j, j <= Len(s)
  PROVE  /\ Part(s, i, j) \in Seq(L) /\ Len(Part(s, i, j)) = j - i
         /\ \A k \in 1..(j - i) : Part(s, i, j)[k] = s[i + k]
<1>1. Len(s) \in Nat /\ i + 1 \in Int /\ i + 1 <= j + 1
  OBVIOUS
<1>2. \A k \in (i + 1)..j : s[k] \in L
  BY <1>1
<1>3. SubSeq(s, i + 1, j) \in Seq(L)
  BY <1>1, <1>2
<1>4. Len(SubSeq(s, i + 1, j)) = j - i
  BY <1>1
<1>5. \A k \in 1..(j - i) : SubSeq(s, i + 1, j)[k] = s[i + k]
  BY <1>1
<1>. QED
  BY <1>3, <1>4, <1>5 DEF Part

\* Two parts that follow one another are one.
LEMMA PartsJoin ==
  ASSUME NEW L, NEW s \in Seq(L), NEW i \in Nat, NEW j \in Nat, NEW k \in Nat,
         i <= j, j <= k, k <= Len(s)
  PROVE  Part(s, i, j) \o Part(s, j, k) = Part(s, i, k)
<1>. DEFINE p == Part(s, i, j)
            q == Part(s, j, k)
            r == Part(s, i, k)
<1>0. Len(s) \in Nat /\ i <= k /\ j <= Len(s)
  OBVIOUS
<1>1. p \in Seq(L) /\ Len(p) = j - i /\ \A n \in 1..(j - i) : p[n] = s[i + n]
  BY <1>0, PartIs
<1>2. q \in Seq(L) /\ Len(q) = k - j /\ \A n \in 1..(k - j) : q[n] = s[j + n]
  BY <1>0, PartIs
<1>3. r \in Seq(L) /\ Len(r) = k - i /\ \A n \in 1..(k - i) : r[n] = s[i + n]
  BY <1>0, PartIs
<1>. HIDE DEF p, q, r
<1>4. /\ p \o q \in Seq(L) /\ Len(p \o q) = Len(p) + Len(q)
      /\ \A n \in 1..Len(p) : (p \o q)[n] = p[n]
      /\ \A n \in 1..Len(q) : (p \o q)[Len(p) + n] = q[n]
  <2>1. p \in Seq(L) /\ q \in Seq(L)
    BY <1>1, <1>2
  <2>. QED
    BY <2>1, PutTogether
<1>. DEFINE u == p \o q
<1>5. u \in Seq(L) /\ Len(u) = k - i
  BY <1>0, <1>1, <1>2, <1>4
<1>. HIDE DEF u
<1>6. ASSUME NEW n \in 1..(k - i) PROVE u[n] = r[n]
  <2>1. CASE n <= j - i
    <3>1. n \in 1..(j - i)
      BY <2>1
    <3>. QED
      BY <1>1, <1>3, <1>4, <3>1 DEF u
  <2>2. CASE n > j - i
    <3>. DEFINE m == n - (j - i)
    <3>1. m \in 1..(k - j) /\ n = (j - i) + m /\ j + m = i + n
      BY <2>2
    <3>. HIDE DEF m
    <3>2. u[(j - i) + m] = q[m]
      BY <1>1, <1>2, <1>4, <3>1 DEF u
    <3>. QED
      BY <1>2, <1>3, <3>1, <3>2
  <2>3. n <= j - i \/ n > j - i
    OBVIOUS
  <2>. QED
    BY <2>1, <2>2, <2>3
<1>7. u = r
  BY <1>3, <1>5, <1>6, SeqEqual
<1>. QED
  BY <1>7 DEF u, p, q, r

\* The whole, nothing, and a single line as parts.
LEMMA PartWhole ==
  ASSUME NEW L, NEW s \in Seq(L)
  PROVE  /\ Part(s, 0, Len(s)) = s
         /\ \A i \in 0..Len(s) : Part(s, i, i) = <<>>
         /\ \A i \in 0..(Len(s) - 1) : Part(s, i, i + 1) = <<s[i + 1]>>
<1>1. Part(s, 0, Len(s)) = s
  BY DEF Part
<1>2. ASSUME NEW i \in 0..Len(s) PROVE Part(s, i, i) = <<>>
  BY DEF Part
<1>3. ASSUME NEW i \in 0..(Len(s) - 1) PROVE Part(s, i, i + 1) = <<s[i + 1]>>
  <2>. DEFINE j == i + 1
              p == Part(s, i, j)
  <2>1. i \in Nat /\ j \in Nat /\ i <= j /\ j <= Len(s) /\ j - i = 1
    OBVIOUS
  <2>2. /\ p \in Seq(L) /\ Len(p) = j - i
        /\ \A k \in 1..(j - i) : p[k] = s[i + k]
    <3>. HIDE DEF j
    <3>. QED
      BY <2>1, PartIs
  <2>. HIDE DEF p
  <2>3. Len(p) = 1 /\ p[1] = s[i + 1]
    BY <2>1, <2>2
  <2>4. p = <<s[i + 1]>>
    <3>. DEFINE z == s[i + 1]
                q == <<z>>
    <3>1. z \in L
      BY <2>1
    <3>. HIDE DEF j, z
    <3>2. q \in Seq(L) /\ Len(q) = 1 /\ \A k \in 1..1 : q[k] = z
      BY <3>1
    <3>5. p \in Seq(L) /\ Len(p) = 1 /\ p[1] = z
      BY <2>2, <2>3 DEF z
    <3>3. \A k \in 1..1 : p[k] = z
      BY <3>5
    <3>. HIDE DEF q
    <3>4. p = q
      BY <3>2, <3>3, <3>5, SeqEqual
    <3>. QED
      BY <3>4 DEF q, z
  <2>. QED
    BY <2>4 DEF p
<1>. QED
  BY <1>1, <1>2, <1>3

\* Where two texts agree their parts are the same.
LEMMA PartsAgree ==
  ASSUME NEW L, NEW a \in Seq(L), NEW b \in Seq(L), NEW x \in Nat, NEW y \in Nat, NEW n \in Nat,
         Runs(a, b, x, y, n), x + n <= Len(a), y + n <= Len(b)
  PROVE  Part(a, x, x + n) = Part(b, y, y + n)
<1>. DEFINE p == Part(a, x, x + n)
            q == Part(b, y, y + n)
<1>1. x + n \in Nat /\ x <= x + n /\ (x + n) - x = n /\ y + n \in Nat /\ y <= y + n /\ (y + n) - y = n
  OBVIOUS
<1>2. p \in Seq(L) /\ Len(p) = n /\ \A k \in 1..n : p[k] = a[x + k]
  <2>. DEFINE j == x + n
  <2>1. j \in Nat /\ x <= j /\ j <= Len(a) /\ j - x = n
    BY <1>1
  <2>. HIDE DEF j
  <2>2. /\ Part(a, x, j) \in Seq(L) /\ Len(Part(a, x, j)) = j - x
        /\ \A k \in 1..(j - x) : Part(a, x, j)[k] = a[x + k]
    BY <2>1, PartIs
  <2>. QED
    BY <2>1, <2>2 DEF j
<1>3. q \in Seq(L) /\ Len(q) = n /\ \A k \in 1..n : q[k] = b[y + k]
  <2>. DEFINE j == y + n
  <2>1. j \in Nat /\ y <= j /\ j <= Len(b) /\ j - y = n
    BY <1>1
  <2>. HIDE DEF j
  <2>2. /\ Part(b, y, j) \in Seq(L) /\ Len(Part(b, y, j)) = j - y
        /\ \A k \in 1..(j - y) : Part(b, y, j)[k] = b[y + k]
    BY <2>1, PartIs
  <2>. QED
    BY <2>1, <2>2 DEF j
<1>4. \A k \in 1..n : a[x + k] = b[y + k]
  BY DEF Runs, Agree
<1>. HIDE DEF p, q
<1>5. p = q
  BY <1>2, <1>3, <1>4, SeqEqual
<1>. QED
  BY <1>5 DEF p, q

-----------------------------------------------------------------------------
(* A step back puts an edit and the lines kept after it before the script. *)

StepBack(type, l, p, s) == <<Op(type, l)>> \o Kept(p) \o s

\* The texts of three scripts put together.
Joins(L, o, k, s, type) ==
  /\ o \o k \o s \in Seq(Operation(L))
  /\ Text(o \o k \o s, type) = (Text(o, type) \o Text(k, type)) \o Text(s, type)
  /\ Len(Side(o \o k \o s, type)) =
       (Len(Side(o, type)) + Len(Side(k, type))) + Len(Side(s, type))

\* The text of three pieces of a script is made of theirs.
LEMMA ThreeTexts ==
  ASSUME NEW L, NEW o \in Seq(Operation(L)), NEW k \in Seq(Operation(L)), NEW s \in Seq(Operation(L)),
         NEW type
  PROVE  Joins(L, o, k, s, type)
<1>. DEFINE X == Operation(L)
            u == o \o k
<1>1. o \in Seq(X) /\ k \in Seq(X) /\ s \in Seq(X)
  OBVIOUS
<1>. HIDE DEF X
<1>2. u \in Seq(X)
  BY <1>1, PutTogether
<1>3. Text(u, type) = Text(o, type) \o Text(k, type)
  <2>1. o \in Seq(Operation(L)) /\ k \in Seq(Operation(L))
    OBVIOUS
  <2>. QED
    BY <2>1, TextJoined
<1>4. Len(Side(u, type)) = Len(Side(o, type)) + Len(Side(k, type))
  <2>1. o \in Seq(Operation(L)) /\ k \in Seq(Operation(L))
    OBVIOUS
  <2>. QED
    BY <2>1, SidesAdd
<1>. HIDE DEF u
<1>5. u \o s \in Seq(X)
  BY <1>1, <1>2, PutTogether
<1>6. Text(u \o s, type) = Text(u, type) \o Text(s, type)
  BY <1>1, <1>2, TextJoined, SMTT(30) DEF X
<1>7. Len(Side(u \o s, type)) = Len(Side(u, type)) + Len(Side(s, type))
  BY <1>1, <1>2, SidesAdd DEF X
<1>8. /\ u \o s \in Seq(Operation(L))
      /\ Text(u \o s, type) = (Text(o, type) \o Text(k, type)) \o Text(s, type)
      /\ Len(Side(u \o s, type)) = (Len(Side(o, type)) + Len(Side(k, type))) + Len(Side(s, type))
  BY <1>3, <1>4, <1>5, <1>6, <1>7 DEF X
<1>. QED
  BY <1>8 DEF u, Joins

\* The text of the side of the edit has its line, the other has not.
Steps(L, type, other, l, p, s) ==
  /\ StepBack(type, l, p, s) \in Seq(Operation(L))
  /\ Text(StepBack(type, l, p, s), type) = (<<l>> \o p) \o Text(s, type)
  /\ Text(StepBack(type, l, p, s), other) = p \o Text(s, other)
  /\ Len(Side(StepBack(type, l, p, s), "keep")) = Len(p) + Len(Side(s, "keep"))

\* A step back puts its line and the lines kept after it before one side, and the lines
\* kept before the other.
LEMMA StepBackText ==
  ASSUME NEW L, NEW l \in L, NEW type \in {"add", "delete"}, NEW p \in Seq(L),
         NEW s \in Seq(Operation(L)), NEW other \in {"add", "delete"} \ {type}
  PROVE  Steps(L, type, other, l, p, s)
<1>. DEFINE o == <<Op(type, l)>>
            k == Kept(p)
<1>1. o \in Seq(Operation(L)) /\ Text(o, type) = <<l>> /\ Len(Side(o, "keep")) = 0
      /\ Text(o, other) = <<>>
  BY TextOfEdit
<1>2. k \in Seq(Operation(L)) /\ Len(Side(k, "keep")) = Len(p)
      /\ Text(k, type) = p /\ Text(k, other) = p
  BY TextKept
<1>3. StepBack(type, l, p, s) = o \o k \o s
  BY DEF StepBack
<1>. HIDE DEF o, k
<1>. DEFINE r == o \o k \o s
<1>4. ASSUME NEW t PROVE Joins(L, o, k, s, t)
  BY <1>1, <1>2, ThreeTexts
<1>5. ASSUME NEW t
      PROVE  /\ r \in Seq(Operation(L))
             /\ Text(r, t) = (Text(o, t) \o Text(k, t)) \o Text(s, t)
             /\ Len(Side(r, t)) = (Len(Side(o, t)) + Len(Side(k, t))) + Len(Side(s, t))
  BY <1>4 DEF Joins
<1>. HIDE DEF r
<1>6. r \in Seq(Operation(L)) /\ Text(r, type) = (<<l>> \o p) \o Text(s, type)
  BY <1>1, <1>2, <1>5
<1>7. Text(r, other) = (<<>> \o p) \o Text(s, other)
  BY <1>1, <1>2, <1>5
<1>8. Len(Side(r, "keep")) = (0 + Len(p)) + Len(Side(s, "keep"))
  BY <1>1, <1>2, <1>5
<1>9. <<>> \o p = p /\ 0 + Len(p) = Len(p)
  OBVIOUS
<1>10. Text(r, other) = p \o Text(s, other) /\ Len(Side(r, "keep")) = Len(p) + Len(Side(s, "keep"))
  BY <1>7, <1>8, <1>9
<1>. QED
  BY <1>3, <1>6, <1>10 DEF r, Steps

\* The same, an insertion.
LEMMA StepBackAdd ==
  ASSUME NEW L, NEW l \in L, NEW p \in Seq(L), NEW s \in Seq(Operation(L))
  PROVE  Steps(L, "add", "delete", l, p, s)
<1>. DEFINE y == "add"
            z == "delete"
<1>1. y \in {"add", "delete"} /\ z \in {"add", "delete"} \ {y}
  OBVIOUS
<1>. HIDE DEF y, z
<1>2. Steps(L, y, z, l, p, s)
  BY <1>1, StepBackText
<1>. QED
  BY <1>2 DEF y, z

\* The same, a deletion.
LEMMA StepBackDelete ==
  ASSUME NEW L, NEW l \in L, NEW p \in Seq(L), NEW s \in Seq(Operation(L))
  PROVE  Steps(L, "delete", "add", l, p, s)
<1>. DEFINE y == "delete"
            z == "add"
<1>1. y \in {"add", "delete"} /\ z \in {"add", "delete"} \ {y}
  OBVIOUS
<1>. HIDE DEF y, z
<1>2. Steps(L, y, z, l, p, s)
  BY <1>1, StepBackText
<1>. QED
  BY <1>2 DEF y, z

\* The script leads from the point (x, y) to the end of both texts, and keeps as much
\* as d edits up to that point leave room for.
Walked(L, a, b, x, y, d, s) ==
  /\ x \in Nat /\ y \in Nat /\ x <= Len(a) /\ y <= Len(b)
  /\ x - y \in (-d)..d /\ ((x - y) + d) % 2 = 0
  /\ s \in Seq(Operation(L))
  /\ Text(s, "delete") = Part(a, x, Len(a)) /\ Text(s, "add") = Part(b, y, Len(b))
  /\ 2 * Len(Side(s, "keep")) = (Len(a) - x) + (Len(b) - y) - (Edits(a, b, Len(a), Len(b)) - d)

\* The point (x, y) is an insertion, or a deletion, and n equal lines after (u, v), a
\* point that one edit less can reach.
After(u, v, d) == u - v \in (-(d - 1))..(d - 1) /\ ((u - v) + (d - 1)) % 2 = 0
Inserted(x, y, u, v, n, d) == x = u + n /\ y = (v + 1) + n /\ After(u, v, d)
Deleted(x, y, u, v, n, d) == x = (u + 1) + n /\ y = v + n /\ After(u, v, d)

\* An insertion, and the diagonal after it.
LEMMA WalkAdd ==
  ASSUME NEW L, NEW a \in Seq(L), NEW b \in Seq(L), NEW x, NEW y, NEW d \in Nat, d >= 1, NEW s,
         Walked(L, a, b, x, y, d, s), NEW n \in Nat, NEW u \in Nat, NEW v \in Nat,
         Inserted(x, y, u, v, n, d), Runs(a, b, u, v + 1, n)
  PROVE  Walked(L, a, b, u, v, d - 1, StepBack("add", b[v + 1], Part(a, u, x), s))
<1>. DEFINE p == Part(a, u, x)
            w == v + 1
            t == StepBack("add", b[w], p, s)
            N == Len(a)
            M == Len(b)
            E == Edits(a, b, N, M)
<1>0. N \in Nat /\ M \in Nat /\ E \in Int
  <2>1. N \in Nat /\ M \in Nat
    OBVIOUS
  <2>. HIDE DEF N, M
  <2>. QED
    BY <2>1, GridFinite
<1>1. /\ x \in Nat /\ y \in Nat /\ x <= N /\ y <= M /\ s \in Seq(Operation(L))
      /\ Text(s, "delete") = Part(a, x, N) /\ Text(s, "add") = Part(b, y, M)
      /\ 2 * Len(Side(s, "keep")) = (N - x) + (M - y) - (E - d)
  BY DEF Walked
<1>2. /\ w \in Nat /\ w <= y /\ w <= M /\ u <= x /\ u <= N /\ v <= M /\ v <= w /\ x - u = n
      /\ v \in 0..(M - 1) /\ v <= y /\ x = u + n /\ y = w + n
  BY <1>0, <1>1, SMTT(30) DEF Inserted
<1>3. p \in Seq(L) /\ Len(p) = n
  <2>. HIDE DEF w
  <2>1. u \in Nat /\ x \in Nat /\ u <= x /\ x <= Len(a)
    BY <1>1, <1>2
  <2>2. Part(a, u, x) \in Seq(L) /\ Len(Part(a, u, x)) = x - u
    BY <2>1, PartIs
  <2>. QED
    BY <1>2, <2>2
<1>4. p = Part(b, w, y)
  <2>1. /\ Part(a, u, u + n) = Part(b, w, w + n)
    <3>1. u + n <= Len(a) /\ w + n <= Len(b) /\ Runs(a, b, u, w, n)
      BY <1>1, <1>2
    <3>2. w \in Nat
      BY <1>2
    <3>. HIDE DEF w
    <3>. QED
      BY <3>1, <3>2, PartsAgree
  <2>. QED
    BY <1>2, <2>1
<1>5. b[w] \in L
  BY <1>0, <1>2
<1>. DEFINE l == b[w]
<1>6. l \in L /\ <<l>> = Part(b, v, w)
  <2>1. \A i \in 0..(Len(b) - 1) : Part(b, i, i + 1) = <<b[i + 1]>>
    BY PartWhole
  <2>. QED
    BY <1>2, <1>5, <2>1
<1>. HIDE DEF p, w, l, N, M, E
<1>7. /\ StepBack("add", l, p, s) \in Seq(Operation(L))
      /\ Text(StepBack("add", l, p, s), "add") = (<<l>> \o p) \o Text(s, "add")
      /\ Text(StepBack("add", l, p, s), "delete") = p \o Text(s, "delete")
      /\ Len(Side(StepBack("add", l, p, s), "keep")) = Len(p) + Len(Side(s, "keep"))
  <2>1. l \in L /\ p \in Seq(L) /\ s \in Seq(Operation(L))
    BY <1>1, <1>3, <1>6
  <2>2. Steps(L, "add", "delete", l, p, s)
    BY <2>1, StepBackAdd
  <2>. QED
    BY <2>2 DEF Steps
<1>8. t = StepBack("add", l, p, s)
  BY DEF l
<1>. HIDE DEF t
<1>9. Text(t, "delete") = Part(a, u, N)
  <2>1. Part(a, u, x) \o Part(a, x, N) = Part(a, u, N)
    <3>1. /\ u \in Nat /\ x \in Nat /\ N \in Nat
          /\ u <= x /\ x <= N /\ N <= Len(a)
      BY <1>0, <1>1, <1>2 DEF N
    <3>. QED
      BY <3>1, PartsJoin
  <2>. QED
    BY <1>1, <1>7, <1>8, <2>1 DEF p
<1>10. Text(t, "add") = Part(b, v, M)
  <2>1. Part(b, v, w) \o Part(b, w, y) = Part(b, v, y)
    <3>1. /\ v \in Nat /\ w \in Nat /\ y \in Nat
          /\ v <= w /\ w <= y /\ y <= Len(b)
      BY <1>0, <1>1, <1>2 DEF M
    <3>. QED
      BY <3>1, PartsJoin, SMTT(30)
  <2>3. Part(b, v, y) \o Part(b, y, M) = Part(b, v, M)
    <3>1. /\ v \in Nat /\ y \in Nat /\ M \in Nat
          /\ v <= y /\ y <= M /\ M <= Len(b)
      BY <1>0, <1>1, <1>2 DEF M
    <3>. QED
      BY <3>1, PartsJoin, SMTT(30)
  <2>. QED
    BY <1>1, <1>4, <1>6, <1>7, <1>8, <2>1, <2>3
<1>11. 2 * Len(Side(t, "keep")) = (N - u) + (M - v) - (E - (d - 1))
  <2>. DEFINE q == Len(Side(s, "keep"))
              r == Len(Side(t, "keep"))
  <2>1. q \in Nat
    BY <1>1, TextConcat
  <2>2. r = n + q
    BY <1>3, <1>7, <1>8
  <2>3. 2 * q = (N - x) + (M - y) - (E - d)
    BY <1>1
  <2>. HIDE DEF q, r
  <2>4. 2 * r = (N - u) + (M - v) - (E - (d - 1))
    BY <1>0, <1>1, <1>2, <2>1, <2>2, <2>3 DEF w
  <2>. QED
    BY <2>4 DEF r
<1>12. Walked(L, a, b, u, v, d - 1, t)
  BY <1>2, <1>7, <1>8, <1>9, <1>10, <1>11 DEF Walked, Inserted, After, N, M, E
<1>. QED
  BY <1>12 DEF t, p, w

\* A deletion, and the diagonal after it.
LEMMA WalkDelete ==
  ASSUME NEW L, NEW a \in Seq(L), NEW b \in Seq(L), NEW x, NEW y, NEW d \in Nat, d >= 1, NEW s,
         Walked(L, a, b, x, y, d, s), NEW n \in Nat, NEW u \in Nat, NEW v \in Nat,
         Deleted(x, y, u, v, n, d), Runs(a, b, u + 1, v, n)
  PROVE  Walked(L, a, b, u, v, d - 1, StepBack("delete", a[u + 1], Part(a, u + 1, x), s))
<1>. DEFINE w == u + 1
            p == Part(a, w, x)
            t == StepBack("delete", a[w], p, s)
            N == Len(a)
            M == Len(b)
            E == Edits(a, b, N, M)
<1>0. N \in Nat /\ M \in Nat /\ E \in Int
  <2>1. N \in Nat /\ M \in Nat
    OBVIOUS
  <2>. HIDE DEF N, M
  <2>. QED
    BY <2>1, GridFinite
<1>1. /\ x \in Nat /\ y \in Nat /\ x <= N /\ y <= M /\ s \in Seq(Operation(L))
      /\ Text(s, "delete") = Part(a, x, N) /\ Text(s, "add") = Part(b, y, M)
      /\ 2 * Len(Side(s, "keep")) = (N - x) + (M - y) - (E - d)
  BY DEF Walked
<1>2. /\ w \in Nat /\ w <= x /\ w <= N /\ u <= x /\ u <= N /\ v <= M /\ v <= y /\ u <= w
      /\ x - w = n /\ u \in 0..(N - 1) /\ x = w + n /\ y = v + n
  BY <1>0, <1>1, SMTT(30) DEF Deleted
<1>3. p \in Seq(L) /\ Len(p) = n
  <2>. HIDE DEF w
  <2>1. w \in Nat /\ x \in Nat /\ w <= x /\ x <= Len(a)
    BY <1>1, <1>2
  <2>2. Part(a, w, x) \in Seq(L) /\ Len(Part(a, w, x)) = x - w
    BY <2>1, PartIs
  <2>. QED
    BY <1>2, <2>2
<1>4. p = Part(b, v, y)
  <2>1. /\ Part(a, w, w + n) = Part(b, v, v + n)
    <3>1. w + n <= Len(a) /\ v + n <= Len(b) /\ Runs(a, b, w, v, n)
      BY <1>1, <1>2
    <3>2. w \in Nat
      BY <1>2
    <3>. HIDE DEF w
    <3>. QED
      BY <3>1, <3>2, PartsAgree
  <2>. QED
    BY <1>2, <2>1
<1>5. a[w] \in L
  BY <1>0, <1>2
<1>. DEFINE l == a[w]
<1>6. l \in L /\ <<l>> = Part(a, u, w)
  <2>1. \A i \in 0..(Len(a) - 1) : Part(a, i, i + 1) = <<a[i + 1]>>
    BY PartWhole
  <2>. QED
    BY <1>2, <1>5, <2>1
<1>. HIDE DEF p, w, l, N, M, E
<1>7. /\ StepBack("delete", l, p, s) \in Seq(Operation(L))
      /\ Text(StepBack("delete", l, p, s), "delete") = (<<l>> \o p) \o Text(s, "delete")
      /\ Text(StepBack("delete", l, p, s), "add") = p \o Text(s, "add")
      /\ Len(Side(StepBack("delete", l, p, s), "keep")) = Len(p) + Len(Side(s, "keep"))
  <2>1. l \in L /\ p \in Seq(L) /\ s \in Seq(Operation(L))
    BY <1>1, <1>3, <1>6
  <2>2. Steps(L, "delete", "add", l, p, s)
    BY <2>1, StepBackDelete
  <2>. QED
    BY <2>2 DEF Steps
<1>8. t = StepBack("delete", l, p, s)
  BY DEF l
<1>. HIDE DEF t
<1>9. Text(t, "add") = Part(b, v, M)
  <2>1. Part(b, v, y) \o Part(b, y, M) = Part(b, v, M)
    <3>1. /\ v \in Nat /\ y \in Nat /\ M \in Nat
          /\ v <= y /\ y <= M /\ M <= Len(b)
      BY <1>0, <1>1, <1>2 DEF M
    <3>. QED
      BY <3>1, PartsJoin, SMTT(30)
  <2>. QED
    BY <1>1, <1>4, <1>7, <1>8, <2>1
<1>10. Text(t, "delete") = Part(a, u, N)
  <2>1. Part(a, u, w) \o Part(a, w, x) = Part(a, u, x)
    <3>1. /\ u \in Nat /\ w \in Nat /\ x \in Nat
          /\ u <= w /\ w <= x /\ x <= Len(a)
      BY <1>0, <1>1, <1>2 DEF N
    <3>. QED
      BY <3>1, PartsJoin, SMTT(30)
  <2>2. Part(a, u, x) \o Part(a, x, N) = Part(a, u, N)
    <3>1. /\ u \in Nat /\ x \in Nat /\ N \in Nat
          /\ u <= x /\ x <= N /\ N <= Len(a)
      BY <1>0, <1>1, <1>2 DEF N
    <3>. QED
      BY <3>1, PartsJoin, SMTT(30)
  <2>. QED
    BY <1>1, <1>6, <1>7, <1>8, <2>1, <2>2 DEF p
<1>11. 2 * Len(Side(t, "keep")) = (N - u) + (M - v) - (E - (d - 1))
  <2>. DEFINE q == Len(Side(s, "keep"))
              r == Len(Side(t, "keep"))
  <2>1. q \in Nat
    BY <1>1, TextConcat
  <2>2. r = n + q
    BY <1>3, <1>7, <1>8
  <2>3. 2 * q = (N - x) + (M - y) - (E - d)
    BY <1>1
  <2>. HIDE DEF q, r
  <2>4. 2 * r = (N - u) + (M - v) - (E - (d - 1))
    BY <1>0, <1>1, <1>2, <2>1, <2>2, <2>3 DEF w
  <2>. QED
    BY <2>4 DEF r
<1>12. Walked(L, a, b, u, v, d - 1, t)
  BY <1>2, <1>7, <1>8, <1>9, <1>10, <1>11 DEF Walked, Deleted, After, N, M, E
<1>. QED
  BY <1>12 DEF t, p, w

-----------------------------------------------------------------------------
(* The rows of a search.                                                   *)

\* The rows two texts have, and the first of them: a run down the diagonal of 0.
RowSet(a, b) == [(-(Len(a) + Len(b)))..(Len(a) + Len(b)) -> Nat]

Begun(a, b, row) == \E n \in Nat : row[0] = n /\ Runs(a, b, 0, 0, n)

\* Row d of the search: it has the furthest points, and each diagonal runs from where
\* the row before lets it be entered.
RowIs(a, b, rows, d) ==
  /\ rows[d + 1] \in RowSet(a, b)
  /\ Furthest(a, b, rows[d + 1], d)
  /\ IF d = 0 THEN Begun(a, b, rows[1]) ELSE Follows(a, b, rows[d + 1], rows[d], d)

Searched(a, b, rows) ==
  rows \in Seq(RowSet(a, b)) /\ \A d \in 0..(Len(rows) - 1) : RowIs(a, b, rows, d)

\* Where a search may go on, and what it may put next.
NextRow(a, b, rows, row) ==
  /\ row \in RowSet(a, b) /\ Furthest(a, b, row, Len(rows))
  /\ IF Len(rows) = 0 THEN Begun(a, b, row) ELSE Follows(a, b, row, rows[Len(rows)], Len(rows))

\* One more row continues a search.
LEMMA SearchedMore ==
  ASSUME NEW a, NEW b, NEW rows, Searched(a, b, rows), NEW row, NextRow(a, b, rows, row)
  PROVE  Searched(a, b, Append(rows, row))
<1>. DEFINE t == Append(rows, row)
            c == Len(rows)
            X == RowSet(a, b)
<1>1. rows \in Seq(X) /\ row \in X /\ \A d \in 0..(c - 1) : RowIs(a, b, rows, d)
  BY DEF Searched, NextRow
<1>. HIDE DEF X
<1>2. /\ t \in Seq(X) /\ Len(t) = c + 1 /\ c \in Nat /\ t[c + 1] = row
      /\ \A i \in 1..c : t[i] = rows[i]
  BY <1>1
<1>. HIDE DEF t, c
<1>3. ASSUME NEW d \in 0..c PROVE RowIs(a, b, t, d)
  <2>1. CASE d = c
    <3>1. IF c = 0 THEN t[1] = row ELSE t[c] = rows[c]
      BY <1>2
    <3>2. Furthest(a, b, row, c) /\ IF c = 0 THEN Begun(a, b, row) ELSE Follows(a, b, row, rows[c], c)
      BY DEF NextRow, c
    <3>. QED
      BY <1>1, <1>2, <2>1, <3>1, <3>2 DEF RowIs, X
  <2>2. CASE d # c
    <3>1. RowIs(a, b, rows, d)
      BY <1>1, <1>2, <2>2
    <3>2. t[d + 1] = rows[d + 1] /\ t[1] = rows[1] /\ (d # 0 => t[d] = rows[d])
      BY <1>2, <2>2
    <3>. QED
      BY <3>1, <3>2 DEF RowIs
  <2>. QED
    BY <2>1, <2>2
<1>4. \A d \in 0..(Len(t) - 1) : RowIs(a, b, t, d)
  BY <1>2, <1>3
<1>. QED
  BY <1>2, <1>4 DEF Searched, X, t

\* A search without its last rows is a search.
LEMMA SearchedLess ==
  ASSUME NEW a, NEW b, NEW rows, Searched(a, b, rows), NEW n \in Nat, n <= Len(rows)
  PROVE  /\ Searched(a, b, SubSeq(rows, 1, n)) /\ Len(SubSeq(rows, 1, n)) = n
         /\ \A i \in 1..n : SubSeq(rows, 1, n)[i] = rows[i]
<1>. DEFINE t == SubSeq(rows, 1, n)
            X == RowSet(a, b)
<1>1. rows \in Seq(X) /\ \A d \in 0..(Len(rows) - 1) : RowIs(a, b, rows, d)
  BY DEF Searched
<1>. HIDE DEF X
<1>2. t \in Seq(X) /\ Len(t) = n /\ \A i \in 1..n : t[i] = rows[i]
  BY <1>1
<1>. HIDE DEF t
<1>3. ASSUME NEW d \in 0..(n - 1) PROVE RowIs(a, b, t, d)
  <2>1. RowIs(a, b, rows, d)
    BY <1>1
  <2>2. t[d + 1] = rows[d + 1] /\ t[1] = rows[1] /\ (d # 0 => t[d] = rows[d])
    BY <1>2
  <2>. QED
    BY <2>1, <2>2 DEF RowIs
<1>4. Searched(a, b, t)
  BY <1>2, <1>3 DEF Searched, X
<1>. QED
  BY <1>2, <1>4 DEF t

\* A search reaches the end with as many edits as it takes, and not before.
LEMMA EndReached ==
  ASSUME NEW L, A \in Seq(L), B \in Seq(L), NEW row, NEW d \in Nat, Furthest(A, B, row, d),
         d <= Edits(A, B, Len(A), Len(B)), Reaches(row, d)
  PROVE  Edits(A, B, Len(A), Len(B)) = d /\ row[Len(A) - Len(B)] = Len(A)
<1>. DEFINE N == Len(A)
            M == Len(B)
            E == Edits(A, B, N, M)
<1>1. N \in Nat /\ M \in Nat
  OBVIOUS
<1>2. PICK k \in (-d)..d : (k + d) % 2 = 0 /\ row[k] >= N /\ row[k] - k >= M
  BY DEF Reaches
<1>3. Reached(A, B, row[k], k, d)
  BY <1>2, FurthestAt
<1>. DEFINE x == row[k]
            y == x - k
<1>4. x \in Nat /\ y \in Nat /\ Edits(A, B, x, y) <= d
  BY <1>3 DEF Reached
<1>5. x >= N /\ y >= M /\ k = x - y
  BY <1>1, <1>2, <1>4
<1>6. d <= E
  OBVIOUS
<1>. HIDE DEF x, y
<1>7. Edits(A, B, x, y) = E + (x - N) + (y - M)
  BY <1>4, <1>5, EditsPast
<1>8. E \in Nat
  <2>. HIDE DEF N, M
  <2>. QED
    BY <1>1, EditsBound
<1>. HIDE DEF N, M, E
<1>9. x = N /\ y = M /\ E = d
  BY <1>1, <1>4, <1>5, <1>6, <1>7, <1>8
<1>. QED
  BY <1>5, <1>9 DEF N, M, E, x

\* A row that does not reach the end of both texts leaves an edit to make.
LEMMA EndAhead ==
  ASSUME NEW L, A \in Seq(L), B \in Seq(L), NEW row, NEW d \in Nat, Furthest(A, B, row, d),
         d <= Edits(A, B, Len(A), Len(B)), ~Reaches(row, d)
  PROVE  d + 1 <= Edits(A, B, Len(A), Len(B))
<1>. DEFINE N == Len(A)
            M == Len(B)
            E == Edits(A, B, N, M)
<1>1. N \in Nat /\ M \in Nat
  OBVIOUS
<1>2. d <= E
  OBVIOUS
<1>. HIDE DEF N, M
<1>3. E \in Nat /\ N - M \in (-E)..E /\ (N - M + E) % 2 = 0
  BY <1>1, EditsBound
<1>. HIDE DEF E
<1>4. E # d
  <2>. SUFFICES ASSUME E = d PROVE FALSE
    OBVIOUS
  <2>. DEFINE k == N - M
  <2>1. k \in (-d)..d /\ (k + d) % 2 = 0 /\ N - k = M
    BY <1>1, <1>3
  <2>. HIDE DEF k
  <2>2. Reached(A, B, row[k], k, d)
    BY <2>1, FurthestAt
  <2>3. Edits(A, B, N, N - k) <= d
    BY <1>3, <2>1 DEF E
  <2>4. N <= row[k] /\ row[k] \in Nat
    BY <1>1, <2>1, <2>2, <2>3 DEF Reached
  <2>5. row[k] >= Len(A) /\ row[k] - k >= Len(B)
    BY <1>1, <2>1, <2>4 DEF N, M
  <2>. QED
    BY <2>1, <2>5 DEF Reaches
<1>5. d + 1 <= E
  BY <1>2, <1>3, <1>4
<1>. QED
  BY <1>5 DEF E, N, M

-----------------------------------------------------------------------------
(* The walk back.                                                          *)

\* The walk is at the end of a diagonal of the last row, with a script from there on.
Walking(L, a, b, rows, x, y, s) ==
  /\ Searched(a, b, rows) /\ Len(rows) > 0
  /\ x = rows[Len(rows)][x - y]
  /\ Walked(L, a, b, x, y, Len(rows) - 1, s)

\* What that says of the diagonal.
Entered(a, b, rows, x, y, d) ==
  /\ x \in Nat /\ y \in Nat
  /\ x - y \in (-d)..d /\ ((x - y) + d) % 2 = 0
  /\ Furthest(a, b, rows[d], d - 1)
  /\ \E n \in Nat : /\ x = Entry(rows[d], d, x - y) + n
                   /\ Runs(a, b, Entry(rows[d], d, x - y), Entry(rows[d], d, x - y) - (x - y), n)

\* The diagonal the walk has come to was entered where the row before says.
LEMMA EntryOf ==
  ASSUME NEW L, NEW a, NEW b, NEW rows, NEW x, NEW y, NEW s, Walking(L, a, b, rows, x, y, s),
         NEW d \in Nat, d >= 1, Len(rows) = d + 1
  PROVE  Entered(a, b, rows, x, y, d)
<1>1. Walked(L, a, b, x, y, d, s) /\ x = rows[d + 1][x - y]
  BY DEF Walking
<1>. DEFINE k == x - y
<1>2. x \in Nat /\ y \in Nat /\ k \in (-d)..d /\ (k + d) % 2 = 0
  BY <1>1 DEF Walked
<1>3. RowIs(a, b, rows, d) /\ RowIs(a, b, rows, d - 1)
  <2>1. d \in 0..(Len(rows) - 1) /\ d - 1 \in 0..(Len(rows) - 1)
    OBVIOUS
  <2>. QED
    BY <2>1 DEF Walking, Searched
<1>4. Follows(a, b, rows[d + 1], rows[d], d)
  BY <1>3 DEF RowIs
<1>5. Furthest(a, b, rows[d], d - 1)
  <2>. DEFINE c == d - 1
  <2>1. c + 1 = d
    OBVIOUS
  <2>2. Furthest(a, b, rows[c + 1], c)
    BY <1>3 DEF RowIs
  <2>. HIDE DEF c
  <2>3. Furthest(a, b, rows[d], c)
    BY <2>1, <2>2
  <2>. QED
    BY <2>3 DEF c
<1>. HIDE DEF k
<1>6. \E n \in Nat : /\ rows[d + 1][k] = Entry(rows[d], d, k) + n
                    /\ Runs(a, b, Entry(rows[d], d, k), Entry(rows[d], d, k) - k, n)
  BY <1>2, <1>4 DEF Follows
<1>. QED
  BY <1>1, <1>2, <1>5, <1>6 DEF k, Entered

\* The walk goes on from (u, v), the end of a diagonal of the row before.
Back(L, a, b, rows, d, u, v, s) ==
  /\ u \in Nat /\ v \in Nat /\ u = rows[d][u - v] /\ Walked(L, a, b, u, v, d - 1, s)

\* The point before the edit the diagonal of (x, y) was entered by.
Above(rows, d, x, y, u, v) ==
  FromAbove(rows[d], d, x - y) /\ u = rows[d][(x - y) + 1] /\ v = u - ((x - y) + 1)
Below(rows, d, x, y, u, v) ==
  ~FromAbove(rows[d], d, x - y) /\ u = rows[d][(x - y) - 1] /\ v = u - ((x - y) - 1)

\* Back over a diagonal that was entered by an insertion.
LEMMA BackOverAdd ==
  ASSUME NEW L, NEW a \in Seq(L), NEW b \in Seq(L), NEW rows, NEW x, NEW y, NEW s,
         Walking(L, a, b, rows, x, y, s),
         NEW d \in Nat, d >= 1, Len(rows) = d + 1, NEW u, NEW v, Above(rows, d, x, y, u, v)
  PROVE  /\ Back(L, a, b, rows, d, u, v, StepBack("add", b[v + 1], Part(a, u, x), s))
         /\ x - u \in Nat /\ y - v = (x - u) + 1
<1>. DEFINE k == x - y
            r == k + 1
<1>. HIDE DEF k
<1>in. Entered(a, b, rows, x, y, d)
  BY EntryOf
<1>0. /\ x \in Nat /\ y \in Nat /\ k \in (-d)..d /\ (k + d) % 2 = 0
      /\ Furthest(a, b, rows[d], d - 1) /\ k = x - y
  BY <1>in DEF Entered, k
<1>1. PICK n \in Nat : /\ x = Entry(rows[d], d, k) + n
                      /\ Runs(a, b, Entry(rows[d], d, k), Entry(rows[d], d, k) - k, n)
  BY <1>in DEF Entered, k
<1>2. Entry(rows[d], d, k) = u /\ u = rows[d][r] /\ v = u - r
  BY DEF Entry, Above, k
<1>3. k # d
  <2>1. FromAbove(rows[d], d, k)
    BY DEF Above, k
  <2>2. k = -d \/ k # d
    BY <2>1 DEF FromAbove
  <2>. HIDE DEF k
  <2>. QED
    BY <1>0, <2>2
<1>4. Walked(L, a, b, x, y, d, s)
  BY DEF Walking
<1>5. r \in (-(d - 1))..(d - 1) /\ (r + (d - 1)) % 2 = 0 /\ d - 1 \in Nat
  <2>. HIDE DEF k
  <2>. QED
    BY <1>0, <1>3, Neighbours
<1>6. Reached(a, b, rows[d][r], r, d - 1)
  <2>. DEFINE c == d - 1
  <2>1. r \in (-c)..c /\ (r + c) % 2 = 0 /\ Furthest(a, b, rows[d], c)
    BY <1>0, <1>5
  <2>. HIDE DEF c, r
  <2>2. Reached(a, b, rows[d][r], r, c)
    BY <2>1, FurthestAt
  <2>. QED
    BY <2>2 DEF c
<1>7. u \in Nat /\ v \in Nat /\ u - v = r
  <2>1. u \in Nat /\ u - r \in Nat
    BY <1>2, <1>6 DEF Reached
  <2>2. r \in Int
    BY <1>0
  <2>. HIDE DEF r
  <2>. QED
    BY <1>2, <2>1, <2>2
<1>8. x = u + n /\ y = (v + 1) + n /\ u - k = v + 1
  <2>1. x = u + n
    BY <1>1, <1>2
  <2>. QED
    BY <1>0, <1>7, <2>1
<1>9. Inserted(x, y, u, v, n, d)
  BY <1>5, <1>7, <1>8 DEF Inserted, After
<1>10. Runs(a, b, u, v + 1, n)
  BY <1>1, <1>2, <1>8
<1>11. Walked(L, a, b, u, v, d - 1, StepBack("add", b[v + 1], Part(a, u, x), s))
  BY <1>4, <1>7, <1>9, <1>10, WalkAdd
<1>12. u = rows[d][u - v]
  BY <1>2, <1>7
<1>13. x - u \in Nat /\ y - v = (x - u) + 1
  BY <1>0, <1>7, <1>8
<1>. QED
  BY <1>7, <1>11, <1>12, <1>13 DEF Back

\* Back over a diagonal that was entered by a deletion.
LEMMA BackOverDelete ==
  ASSUME NEW L, NEW a \in Seq(L), NEW b \in Seq(L), NEW rows, NEW x, NEW y, NEW s,
         Walking(L, a, b, rows, x, y, s),
         NEW d \in Nat, d >= 1, Len(rows) = d + 1, NEW u, NEW v, Below(rows, d, x, y, u, v)
  PROVE  /\ Back(L, a, b, rows, d, u, v, StepBack("delete", a[u + 1], Part(a, u + 1, x), s))
         /\ y - v \in Nat /\ x - u = (y - v) + 1
<1>. DEFINE k == x - y
            r == k - 1
<1>. HIDE DEF k
<1>in. Entered(a, b, rows, x, y, d)
  BY EntryOf
<1>0. /\ x \in Nat /\ y \in Nat /\ k \in (-d)..d /\ (k + d) % 2 = 0
      /\ Furthest(a, b, rows[d], d - 1) /\ k = x - y
  BY <1>in DEF Entered, k
<1>1. PICK n \in Nat : /\ x = Entry(rows[d], d, k) + n
                      /\ Runs(a, b, Entry(rows[d], d, k), Entry(rows[d], d, k) - k, n)
  BY <1>in DEF Entered, k
<1>2. Entry(rows[d], d, k) = u + 1 /\ u = rows[d][r] /\ v = u - r
  BY DEF Entry, Below, k
<1>3. k # -d
  <2>1. ~FromAbove(rows[d], d, k)
    BY DEF Below, k
  <2>. QED
    BY <2>1 DEF FromAbove
<1>4. Walked(L, a, b, x, y, d, s)
  BY DEF Walking
<1>5. r \in (-(d - 1))..(d - 1) /\ (r + (d - 1)) % 2 = 0 /\ d - 1 \in Nat
  <2>. HIDE DEF k
  <2>. QED
    BY <1>0, <1>3, Neighbours
<1>6. Reached(a, b, rows[d][r], r, d - 1)
  <2>. DEFINE c == d - 1
  <2>1. r \in (-c)..c /\ (r + c) % 2 = 0 /\ Furthest(a, b, rows[d], c)
    BY <1>0, <1>5
  <2>. HIDE DEF c, r
  <2>2. Reached(a, b, rows[d][r], r, c)
    BY <2>1, FurthestAt
  <2>. QED
    BY <2>2 DEF c
<1>7. u \in Nat /\ v \in Nat /\ u - v = r
  <2>1. u \in Nat /\ u - r \in Nat
    BY <1>2, <1>6 DEF Reached
  <2>2. r \in Int
    BY <1>0
  <2>. HIDE DEF r
  <2>. QED
    BY <1>2, <2>1, <2>2
<1>8. x = (u + 1) + n /\ y = v + n /\ (u + 1) - k = v
  <2>1. x = (u + 1) + n
    BY <1>1, <1>2
  <2>. QED
    BY <1>0, <1>7, <2>1
<1>9. Deleted(x, y, u, v, n, d)
  BY <1>5, <1>7, <1>8 DEF Deleted, After
<1>10. Runs(a, b, u + 1, v, n)
  BY <1>1, <1>2, <1>8
<1>11. Walked(L, a, b, u, v, d - 1, StepBack("delete", a[u + 1], Part(a, u + 1, x), s))
  BY <1>4, <1>7, <1>9, <1>10, WalkDelete
<1>12. u = rows[d][u - v]
  BY <1>2, <1>7
<1>13. y - v \in Nat /\ x - u = (y - v) + 1
  BY <1>0, <1>7, <1>8
<1>. QED
  BY <1>7, <1>11, <1>12, <1>13 DEF Back

\* The rows that are left after the step go with the script.
LEMMA BackIsWalking ==
  ASSUME NEW L, NEW a, NEW b, NEW rows, Searched(a, b, rows), NEW d \in Nat, d >= 1,
         Len(rows) = d + 1, NEW u, NEW v, NEW s, Back(L, a, b, rows, d, u, v, s)
  PROVE  Walking(L, a, b, SubSeq(rows, 1, d), u, v, s)
<1>. DEFINE t == SubSeq(rows, 1, d)
<1>1. Searched(a, b, t) /\ Len(t) = d /\ \A i \in 1..d : t[i] = rows[i]
  BY SearchedLess
<1>. HIDE DEF t
<1>2. t[d] = rows[d]
  BY <1>1
<1>3. Walking(L, a, b, t, u, v, s)
  BY <1>1, <1>2 DEF Walking, Back
<1>. QED
  BY <1>3 DEF t

\* How far the diagonal goes back.
LEMMA SameIs ==
  ASSUME NEW n \in Nat, NEW i \in Int, NEW j \in Int,
         (i = n /\ j = n + 1) \/ (i = n + 1 /\ j = n)
  PROVE  Max({0, Min({i, j})}) = n
<1>1. Min({i, j}) = n
  BY MinIs
<1>. DEFINE S == {0, n}
<1>2. S \subseteq 0..n /\ 0 \in S
  OBVIOUS
<1>. HIDE DEF S
<1>3. Max(S) \in S /\ \A m \in S : m <= Max(S)
  BY <1>2, MaxIs
<1>4. Max(S) = n
  BY <1>3 DEF S
<1>. QED
  BY <1>1, <1>4 DEF S

-----------------------------------------------------------------------------
(* The end of the walk.                                                    *)

\* A script between lines that are kept.
Frame(p, q, s, e) == Kept(p) \o Kept(q) \o s \o Kept(e)

\* What that comes to.
Framed(L, p, q, s, e, type) ==
  /\ Frame(p, q, s, e) \in Seq(Operation(L))
  /\ Text(Frame(p, q, s, e), type) = ((p \o q) \o Text(s, type)) \o e
  /\ Len(Side(Frame(p, q, s, e), type)) = ((Len(p) + Len(q)) + Len(Side(s, type))) + Len(e)

\* What the frame adds to each side, and to the lines kept.
LEMMA FrameIs ==
  ASSUME NEW L, NEW p \in Seq(L), NEW q \in Seq(L), NEW s \in Seq(Operation(L)), NEW e \in Seq(L),
         NEW type
  PROVE  Framed(L, p, q, s, e, type)
<1>. DEFINE i == Kept(p)
            j == Kept(q)
            k == Kept(e)
            r == i \o j \o s
<1>1. /\ i \in Seq(Operation(L)) /\ Text(i, type) = p /\ Len(Side(i, type)) = Len(p)
      /\ j \in Seq(Operation(L)) /\ Text(j, type) = q /\ Len(Side(j, type)) = Len(q)
      /\ k \in Seq(Operation(L)) /\ Text(k, type) = e /\ Len(Side(k, type)) = Len(e)
  BY TextKept
<1>2. Frame(p, q, s, e) = r \o k
  BY DEF Frame
<1>. HIDE DEF i, j, k
<1>3. Joins(L, i, j, s, type)
  BY <1>1, ThreeTexts
<1>4. /\ r \in Seq(Operation(L)) /\ Text(r, type) = (p \o q) \o Text(s, type)
      /\ Len(Side(r, type)) = (Len(p) + Len(q)) + Len(Side(s, type))
  BY <1>1, <1>3 DEF Joins
<1>. HIDE DEF r
<1>5. r \in Seq(Operation(L)) /\ k \in Seq(Operation(L))
  BY <1>1, <1>4
<1>6. Text(r \o k, type) = Text(r, type) \o Text(k, type)
  BY <1>5, TextJoined
<1>8. Len(Side(r \o k, type)) = Len(Side(r, type)) + Len(Side(k, type))
  BY <1>5, SidesAdd
<1>7. r \o k \in Seq(Operation(L))
  <2>. DEFINE X == Operation(L)
  <2>1. r \in Seq(X) /\ k \in Seq(X)
    BY <1>1, <1>4
  <2>. HIDE DEF X
  <2>2. r \o k \in Seq(X)
    BY <2>1, PutTogether
  <2>. QED
    BY <2>2 DEF X
<1>. QED
  BY <1>1, <1>2, <1>4, <1>6, <1>7, <1>8 DEF Framed

\* Three texts are put together from either side.
InThree(p, q, r) == (p \o q) \o r = p \o (q \o r)

\* Putting together does not depend on which two come first.
LEMMA Together ==
  ASSUME NEW L, NEW p \in Seq(L), NEW q \in Seq(L), NEW r \in Seq(L)
  PROVE  InThree(p, q, r)
BY ConcatAssociative, SMTT(30) DEF InThree

\* A text is what it is without its ends, in two, between them.
Whole(s, i, j, x) ==
  ((Part(s, 0, i) \o Part(Middle(s, i, j), 0, x))
     \o Part(Middle(s, i, j), x, Len(Middle(s, i, j)))) \o Part(s, Len(s) - j, Len(s)) = s

\* Every text is, wherever its middle is cut.
LEMMA WholeText ==
  ASSUME NEW L, NEW s \in Seq(L), NEW i \in Nat, NEW j \in Nat, i + j <= Len(s), NEW x \in Nat,
         x <= Len(Middle(s, i, j))
  PROVE  Whole(s, i, j, x)
<1>. DEFINE m == Middle(s, i, j)
            n == Len(s)
            e == n - j
            p == Part(s, 0, i)
            q == Part(m, 0, x)
            r == Part(m, x, Len(m))
<1>1. n \in Nat /\ i + j <= n /\ e \in Nat /\ i <= e /\ e <= n /\ i <= n
  OBVIOUS
<1>2. m = Part(s, i, e)
  BY DEF Middle, Part
<1>3. m \in Seq(L) /\ Len(m) = n - (i + j) /\ Len(m) \in Nat /\ x <= Len(m)
  <2>1. m \in Seq(L) /\ Len(m) = n - (i + j)
    BY MiddleIs
  <2>. QED
    BY <1>1, <2>1
<1>. HIDE DEF m
<1>4. p \in Seq(L)
  <2>1. 0 \in Nat /\ 0 <= i /\ i <= Len(s)
    BY <1>1
  <2>. QED
    BY <2>1, PartIs
<1>5. q \in Seq(L)
  <2>1. 0 \in Nat /\ 0 <= x /\ x <= Len(m)
    BY <1>3
  <2>. QED
    BY <1>3, <2>1, PartIs
<1>6. r \in Seq(L)
  <2>. DEFINE c == Len(m)
  <2>1. c \in Nat /\ x <= c /\ c <= Len(m)
    BY <1>3
  <2>. HIDE DEF c
  <2>2. Part(m, x, c) \in Seq(L)
    BY <1>3, <2>1, PartIs
  <2>. QED
    BY <2>2 DEF c
<1>7. q \o r = m
  <2>. DEFINE c == Len(m)
              z == 0
  <2>1. c \in Nat /\ x <= c /\ c <= Len(m) /\ z \in Nat /\ z <= x
    BY <1>3
  <2>2. Part(m, z, c) = m
    BY <1>3, PartWhole
  <2>. HIDE DEF c, z
  <2>3. Part(m, z, x) \o Part(m, x, c) = Part(m, z, c)
    BY <1>3, <2>1, PartsJoin, SMTT(30)
  <2>. QED
    BY <2>2, <2>3 DEF c, z
<1>8. (p \o q) \o r = p \o (q \o r)
  <2>1. InThree(p, q, r)
    <3>. HIDE DEF p, q, r
    <3>. QED
      BY <1>4, <1>5, <1>6, Together
  <2>. QED
    BY <2>1 DEF InThree
<1>9. p \o m = Part(s, 0, e)
  <2>. DEFINE z == 0
  <2>1. z \in Nat /\ z <= i /\ i \in Nat /\ i <= e /\ e <= Len(s) /\ e \in Nat
    BY <1>1
  <2>. HIDE DEF z, e
  <2>2. Part(s, z, i) \o Part(s, i, e) = Part(s, z, e)
    BY <2>1, PartsJoin
  <2>. QED
    BY <1>2, <2>2 DEF z
<1>10. Part(s, 0, e) \o Part(s, e, n) = s
  <2>. DEFINE z == 0
  <2>1. z \in Nat /\ z <= e /\ e \in Nat /\ e <= n /\ n <= Len(s) /\ n \in Nat
    BY <1>1
  <2>2. Part(s, z, n) = s
    BY PartWhole
  <2>. HIDE DEF z, e, n
  <2>3. Part(s, z, e) \o Part(s, e, n) = Part(s, z, n)
    BY <2>1, PartsJoin, SMTT(30)
  <2>. QED
    BY <2>2, <2>3 DEF z
<1>11. ((p \o q) \o r) \o Part(s, e, n) = s
  BY <1>7, <1>8, <1>9, <1>10
<1>. QED
  BY <1>11 DEF m, Whole

\* What a script from one version to another is to be.
Finished(L, f, t, s) ==
  /\ s \in Seq(Operation(L))
  /\ Text(s, "delete") = f /\ Text(s, "add") = t
  /\ Len(Side(s, "keep")) = Longest(Matches(f, t))

\* The lines set aside at the end are the same in both versions.
LEMMA SameEnds ==
  ASSUME NEW L, old \in Seq(L), new \in Seq(L)
  PROVE  /\ Part(old, 0, Start) = Part(new, 0, Start)
         /\ Part(old, Len(old) - Tail_, Len(old)) = Part(new, Len(new) - Tail_, Len(new))
         /\ Part(old, 0, Start) \in Seq(L) /\ Len(Part(old, 0, Start)) = Start
         /\ Part(old, Len(old) - Tail_, Len(old)) \in Seq(L)
         /\ Len(Part(old, Len(old) - Tail_, Len(old))) = Tail_
<1>. DEFINE S == Start
            T == Tail_
            n == Len(old)
            m == Len(new)
            i == n - T
            j == m - T
<1>1. /\ S \in Nat /\ T \in Nat /\ S + T <= n /\ S + T <= m
      /\ \A k \in 1..S : old[k] = new[k]
      /\ \A k \in 0..(T - 1) : old[n - k] = new[m - k]
  BY EndsSetAside
<1>2. n \in Nat /\ m \in Nat
  OBVIOUS
<1>. HIDE DEF S, T
<1>3. i \in Nat /\ j \in Nat /\ i + T = n /\ j + T = m /\ S <= n /\ S <= m /\ i <= n
  BY <1>1, <1>2
<1>4. Runs(old, new, 0, 0, S)
  BY <1>1, <1>3 DEF Runs, Agree
<1>5. Runs(old, new, i, j, T)
  <2>. SUFFICES ASSUME NEW k \in 1..T PROVE Agree(old, new, i + k, j + k)
    BY DEF Runs
  <2>. DEFINE c == T - k
  <2>1. c \in 0..(T - 1) /\ n - c = i + k /\ m - c = j + k /\ i + k <= n /\ j + k <= m
    BY <1>1, <1>2, <1>3
  <2>. HIDE DEF c
  <2>2. old[n - c] = new[m - c]
    BY <1>1, <2>1
  <2>. QED
    BY <2>1, <2>2 DEF Agree
<1>. HIDE DEF n, m, i, j
<1>6. Part(old, 0, S) = Part(new, 0, S)
  <2>. DEFINE z == 0
  <2>1. z \in Nat /\ z + S = S /\ Runs(old, new, z, z, S) /\ z + S <= Len(old) /\ z + S <= Len(new)
        /\ S \in Nat
    BY <1>1, <1>3, <1>4 DEF n, m
  <2>. HIDE DEF z
  <2>2. Part(old, z, z + S) = Part(new, z, z + S)
    BY <2>1, PartsAgree
  <2>. QED
    BY <2>1, <2>2 DEF z
<1>7. Part(old, i, n) = Part(new, j, m)
  <2>1. i + T <= Len(old) /\ j + T <= Len(new) /\ i \in Nat /\ j \in Nat /\ T \in Nat
    BY <1>1, <1>2, <1>3 DEF n, m
  <2>2. Part(old, i, i + T) = Part(new, j, j + T)
    BY <1>5, <2>1, PartsAgree
  <2>. QED
    BY <1>3, <2>2
<1>8. Part(old, 0, S) \in Seq(L) /\ Len(Part(old, 0, S)) = S
  <2>. DEFINE z == 0
  <2>1. z \in Nat /\ z <= S /\ S <= Len(old) /\ S \in Nat /\ S - z = S
    BY <1>1, <1>3 DEF n
  <2>. HIDE DEF z
  <2>2. Part(old, z, S) \in Seq(L) /\ Len(Part(old, z, S)) = S - z
    BY <2>1, PartIs
  <2>. QED
    BY <2>1, <2>2 DEF z
<1>9. Part(old, i, n) \in Seq(L) /\ Len(Part(old, i, n)) = T
  <2>1. i \in Nat /\ i <= n /\ n <= Len(old) /\ n \in Nat /\ n - i = T
    BY <1>1, <1>2, <1>3 DEF n
  <2>2. Part(old, i, n) \in Seq(L) /\ Len(Part(old, i, n)) = n - i
    BY <2>1, PartIs
  <2>. QED
    BY <2>1, <2>2
<1>. QED
  BY <1>6, <1>7, <1>8, <1>9 DEF S, T, n, m, i, j

\* The first diagonal is what the two have in common there.
LEMMA FirstDiagonal ==
  ASSUME NEW L, NEW a \in Seq(L), NEW b \in Seq(L), NEW rows, NEW x, NEW y, NEW s,
         Walking(L, a, b, rows, x, y, s), Len(rows) = 1
  PROVE  /\ x \in Nat /\ y = x /\ x <= Len(a) /\ x <= Len(b)
         /\ Part(a, 0, x) = Part(b, 0, x) /\ Part(a, 0, x) \in Seq(L) /\ Len(Part(a, 0, x)) = x
<1>1. Walked(L, a, b, x, y, 0, s) /\ x = rows[1][x - y] /\ RowIs(a, b, rows, 0)
  BY DEF Walking, Searched
<1>2. x \in Nat /\ y \in Nat /\ x - y \in (-0)..0 /\ x <= Len(a) /\ y <= Len(b)
  BY <1>1 DEF Walked
<1>3. y = x /\ x - y = 0
  BY <1>2
<1>4. Begun(a, b, rows[1])
  BY <1>1 DEF RowIs
<1>5. Runs(a, b, 0, 0, x)
  BY <1>1, <1>3, <1>4 DEF Begun
<1>. DEFINE z == 0
<1>6. z \in Nat /\ z + x = x /\ z <= x /\ x - z = x /\ Runs(a, b, z, z, x) /\ x <= Len(a) /\ x <= Len(b)
      /\ x \in Nat
  BY <1>2, <1>3, <1>5
<1>. HIDE DEF z
<1>7. Part(a, z, x) = Part(b, z, x)
  <2>1. z + x <= Len(a) /\ z + x <= Len(b) /\ z \in Nat /\ x \in Nat
    BY <1>6
  <2>2. Part(a, z, z + x) = Part(b, z, z + x)
    BY <1>6, <2>1, PartsAgree
  <2>. QED
    BY <1>6, <2>2
<1>8. Part(a, z, x) \in Seq(L) /\ Len(Part(a, z, x)) = x - z
  <2>1. z \in Nat /\ x \in Nat /\ z <= x /\ x <= Len(a)
    BY <1>6
  <2>. QED
    BY <2>1, PartIs
<1>. QED
  BY <1>2, <1>3, <1>6, <1>7, <1>8 DEF z

\* Where the walk ends it has kept as much as can be.
LEMMA KeptEnough ==
  ASSUME NEW L, NEW a \in Seq(L), NEW b \in Seq(L), NEW x \in Nat, NEW s,
         Walked(L, a, b, x, x, 0, s)
  PROVE  Len(Side(s, "keep")) \in Nat /\ x + Len(Side(s, "keep")) = Longest(Matches(a, b))
<1>. DEFINE N == Len(a)
            M == Len(b)
            K == Len(Side(s, "keep"))
            H == Longest(Matches(a, b))
            G == Shared(a, b, N, M)
            E == Edits(a, b, N, M)
<1>1. N \in Nat /\ M \in Nat
  OBVIOUS
<1>2. s \in Seq(Operation(L)) /\ 2 * K = (N - x) + (M - x) - (E - 0)
  BY DEF Walked
<1>3. K \in Nat
  BY <1>2, TextConcat
<1>4. E = N + M - 2 * G
  BY DEF Edits
<1>5. G \in Nat /\ G = H
  <2>1. N \in Nat /\ M \in Nat /\ N >= Len(a) /\ M >= Len(b)
    BY <1>1
  <2>. HIDE DEF N, M
  <2>2. G = H
    BY <2>1, EditsPast
  <2>3. G \in Nat
    BY <2>1, GridFinite
  <2>. QED
    BY <2>2, <2>3
<1>. HIDE DEF N, M, K, H, G, E
<1>6. K \in Nat /\ x + K = H
  BY <1>1, <1>2, <1>3, <1>4, <1>5
<1>. QED
  BY <1>6 DEF K, H

\* The script, with what was set aside, leads from the old version to the new one and
\* keeps as much as can be.
LEMMA WalkFinishes ==
  ASSUME NEW L, old \in Seq(L), new \in Seq(L), NEW rows, NEW x, NEW y, NEW s,
         Walking(L, A, B, rows, x, y, s), Len(rows) = 1
  PROVE  Finished(L, old, new, Frame(Part(old, 0, Start), Part(A, 0, x), s,
                                     Part(old, Len(old) - Tail_, Len(old))))
<1>. DEFINE p == Part(old, 0, Start)
            q == Part(A, 0, x)
            e == Part(old, Len(old) - Tail_, Len(old))
            r == Frame(p, q, s, e)
<1>1. /\ Start \in Nat /\ Tail_ \in Nat
      /\ Start + Tail_ <= Len(old) /\ Start + Tail_ <= Len(new)
      /\ \A k \in 1..Start : old[k] = new[k]
      /\ \A k \in 0..(Tail_ - 1) : old[Len(old) - k] = new[Len(new) - k]
      /\ A = Middle(old, Start, Tail_) /\ B = Middle(new, Start, Tail_)
      /\ A \in Seq(L) /\ B \in Seq(L)
  BY EndsSetAside
<1>2. /\ x \in Nat /\ y = x /\ x <= Len(A) /\ x <= Len(B)
      /\ q = Part(B, 0, x) /\ q \in Seq(L) /\ Len(q) = x
  <2>1. A \in Seq(L) /\ B \in Seq(L)
    BY <1>1
  <2>. QED
    BY <2>1, FirstDiagonal
<1>3. Walked(L, A, B, x, x, 0, s)
  BY <1>2 DEF Walking
<1>4. s \in Seq(Operation(L)) /\ Text(s, "delete") = Part(A, x, Len(A)) /\ Text(s, "add") = Part(B, x, Len(B))
  BY <1>3 DEF Walked
<1>5. /\ p = Part(new, 0, Start) /\ e = Part(new, Len(new) - Tail_, Len(new))
      /\ p \in Seq(L) /\ Len(p) = Start /\ e \in Seq(L) /\ Len(e) = Tail_
  BY SameEnds
<1>6. ((p \o q) \o Part(A, x, Len(A))) \o e = old
  <2>. DEFINE S == Start
              T == Tail_
  <2>1. x <= Len(Middle(old, S, T)) /\ S \in Nat /\ T \in Nat /\ S + T <= Len(old) /\ x \in Nat
    BY <1>1, <1>2
  <2>. HIDE DEF S, T
  <2>2. Whole(old, S, T, x)
    BY <2>1, WholeText
  <2>3. A = Middle(old, S, T)
    BY <1>1 DEF S, T
  <2>. QED
    BY <2>2, <2>3 DEF Whole, S, T
<1>7. ((p \o q) \o Part(B, x, Len(B))) \o e = new
  <2>. DEFINE S == Start
              T == Tail_
              m == Middle(new, S, T)
  <2>1. x <= Len(m) /\ B = m /\ S \in Nat /\ T \in Nat /\ S + T <= Len(new) /\ x \in Nat
    BY <1>1, <1>2
  <2>2. ((Part(new, 0, S) \o Part(m, 0, x)) \o Part(m, x, Len(m))) \o Part(new, Len(new) - T, Len(new)) = new
    <3>1. x <= Len(Middle(new, S, T)) /\ S \in Nat /\ T \in Nat /\ S + T <= Len(new) /\ x \in Nat
      BY <2>1
    <3>. HIDE DEF S, T
    <3>2. Whole(new, S, T, x)
      BY <3>1, WholeText
    <3>. QED
      BY <3>2 DEF Whole
  <2>3. p = Part(new, 0, S) /\ e = Part(new, Len(new) - T, Len(new)) /\ q = Part(B, 0, x)
    BY <1>2, <1>5
  <2>. HIDE DEF m, S, T, p, q, e
  <2>. QED
    BY <2>1, <2>2, <2>3
<1>8. Len(Side(s, "keep")) \in Nat /\ x + Len(Side(s, "keep")) = Longest(Matches(A, B))
  BY <1>1, <1>2, <1>3, KeptEnough
<1>9. Longest(Matches(old, new)) = Start + Tail_ + Longest(Matches(A, B))
  <2>. DEFINE S == Start
              T == Tail_
  <2>1. /\ S \in Nat /\ T \in Nat /\ S + T <= Len(old) /\ S + T <= Len(new)
        /\ \A k \in 1..S : old[k] = new[k]
        /\ \A k \in 0..(T - 1) : old[Len(old) - k] = new[Len(new) - k]
        /\ A = Middle(old, S, T) /\ B = Middle(new, S, T)
    BY <1>1
  <2>. HIDE DEF S, T
  <2>2. Longest(Matches(old, new)) = S + T + Longest(Matches(Middle(old, S, T), Middle(new, S, T)))
    BY <2>1, LongestTrimmed
  <2>3. Longest(Matches(old, new)) = S + T + Longest(Matches(A, B))
    BY <2>1, <2>2
  <2>. QED
    BY <2>3 DEF S, T
<1>. HIDE DEF p, q, e
<1>10. ASSUME NEW type PROVE Framed(L, p, q, s, e, type)
  BY <1>2, <1>4, <1>5, FrameIs
<1>11. r \in Seq(Operation(L)) /\ Text(r, "delete") = old /\ Text(r, "add") = new
  BY <1>4, <1>6, <1>7, <1>10 DEF Framed
<1>12. Len(Side(r, "keep")) = Longest(Matches(old, new))
  <2>. DEFINE k == Len(Side(s, "keep"))
              c == Len(Side(r, "keep"))
              S == Start
              T == Tail_
  <2>1. c = ((S + x) + k) + T
    BY <1>2, <1>5, <1>10 DEF Framed
  <2>2. S \in Nat /\ T \in Nat /\ k \in Nat /\ x \in Nat
    BY <1>1, <1>2, <1>8
  <2>3. Longest(Matches(old, new)) = S + T + (x + k)
    BY <1>8, <1>9
  <2>. HIDE DEF k, c, S, T
  <2>4. c = S + T + (x + k)
    BY <2>1, <2>2
  <2>. QED
    BY <2>3, <2>4 DEF c
<1>. QED
  BY <1>11, <1>12 DEF Finished, p, q, e

-----------------------------------------------------------------------------
(* The invariant of a diff.                                                *)

\* The search so far has every furthest point, and has not passed the end.
Searching(a, b, rows, s) ==
  Searched(a, b, rows) /\ Len(rows) <= Edits(a, b, Len(a), Len(b)) /\ s = <<>>

\* Lines are of L: see Atoms.
DiffOK(L) ==
  /\ old \in Seq(L) /\ new \in Seq(L)
  /\ search \in {"idle", "forward", "backward", "done"}
  /\ search = "forward" => Searching(A, B, trace, script)
  /\ search = "backward" => at = <<at[1], at[2]>> /\ Walking(L, A, B, trace, at[1], at[2], script)
  /\ search = "done" => Finished(L, old, new, script)

\* What is left of two versions depends on them alone.
LEMMA SameVersions ==
  ASSUME UNCHANGED <<old, new>>
  PROVE  A' = A /\ B' = B
BY DEF A, B, Start, Tail_

\* A diff starts with no row.
LEMMA DiffStarts ==
  ASSUME NEW L, NEW from \in Seq(L), NEW to \in Seq(L), StartDiff(from, to)
  PROVE  DiffOK(L)'
<1>1. /\ old' \in Seq(L) /\ new' \in Seq(L) /\ search' = "forward"
      /\ trace' = <<>> /\ script' = <<>>
  BY DEF StartDiff
<1>2. A' \in Seq(L) /\ B' \in Seq(L)
  <2>1. old' \in Seq(L) /\ new' \in Seq(L)
    BY <1>1
  <2>2. (old \in Seq(L) /\ new \in Seq(L) => A \in Seq(L) /\ B \in Seq(L))'
    BY EndsSetAside, PTL
  <2>. QED
    BY <2>1, <2>2
<1>3. Searching(A', B', <<>>, <<>>)
  <2>. DEFINE N == Len(A')
              M == Len(B')
  <2>1. N \in Nat /\ M \in Nat
    BY <1>2
  <2>. HIDE DEF N, M
  <2>2. Edits(A', B', N, M) \in Nat
    BY <1>2, <2>1, EditsBound
  <2>3. Searched(A', B', <<>>) /\ Len(<<>>) = 0
    BY DEF Searched
  <2>. QED
    BY <2>2, <2>3 DEF Searching, N, M
<1>. QED
  BY <1>1, <1>3 DEF DiffOK

\* The row a search puts next.
LEMMA NextRowIs ==
  ASSUME NEW L, old \in Seq(L), new \in Seq(L), Searching(A, B, trace, script)
  PROVE  NextRow(A, B, trace, IF Len(trace) = 0 THEN ZeroRow ELSE Row(trace[Len(trace)], Len(trace)))
<1>. DEFINE d == Len(trace)
            N == Len(A)
            M == Len(B)
<1>1. /\ A \in Seq(L) /\ B \in Seq(L) /\ N \in Nat /\ M \in Nat /\ Bound = N + M
  BY EndsSetAside
<1>2. Rows = RowSet(A, B)
  BY <1>1 DEF Rows, RowSet
<1>3. trace \in Seq(Rows) /\ \A c \in 0..(d - 1) : RowIs(A, B, trace, c)
  BY <1>2 DEF Searching, Searched
<1>4. d \in Nat /\ d <= Bound
  <2>1. d <= Edits(A, B, N, M)
    BY DEF Searching
  <2>2. d \in Nat
    BY <1>3
  <2>. HIDE DEF d, N, M
  <2>3. Edits(A, B, N, M) \in Nat /\ Edits(A, B, N, M) <= N + M
    BY <1>1, EditsBound
  <2>. QED
    BY <1>1, <2>1, <2>2, <2>3
<1>5. CASE d = 0
  <2>1. ZeroRow \in Rows /\ Furthest(A, B, ZeroRow, 0) /\ Begun(A, B, ZeroRow)
    BY ZeroRowFurthest DEF Begun
  <2>. QED
    BY <1>2, <1>5, <2>1 DEF NextRow
<1>6. CASE d # 0
  <2>. DEFINE row == trace[d]
              c == d - 1
  <2>0. c \in 0..(d - 1) /\ c + 1 = d /\ d >= 1
    BY <1>4, <1>6
  <2>. HIDE DEF c
  <2>1. row \in Rows /\ Furthest(A, B, row, c)
    <3>1. RowIs(A, B, trace, c)
      BY <1>3, <2>0
    <3>. QED
      BY <1>2, <2>0, <3>1 DEF RowIs
  <2>2. Row(row, d) \in Rows /\ Furthest(A, B, Row(row, d), d) /\ Follows(A, B, Row(row, d), row, d)
    <3>1. Furthest(A, B, row, d - 1)
      BY <2>1 DEF c
    <3>2. d \in Nat /\ d >= 1 /\ d <= Bound /\ row \in Rows
      BY <1>4, <2>0, <2>1
    <3>. HIDE DEF d, row
    <3>. QED
      BY <3>1, <3>2, RowFurthest
  <2>. QED
    BY <1>2, <1>6, <2>2 DEF NextRow
<1>. QED
  BY <1>5, <1>6

\* The next row has the furthest points; the row that reaches the end of both texts
\* starts the walk back, with no edit left to find but those it counts.
LEMMA ExtendKeepsDiff ==
  ASSUME NEW L, DiffOK(L), Extend
  PROVE  DiffOK(L)'
<1>. DEFINE d == Len(trace)
            row == IF d = 0 THEN ZeroRow ELSE Row(trace[d], d)
            t == Append(trace, row)
<1>1. /\ old \in Seq(L) /\ new \in Seq(L) /\ search = "forward" /\ Searching(A, B, trace, script)
      /\ trace' = t /\ search' = (IF Reaches(row, d) THEN "backward" ELSE "forward")
      /\ at' = <<Len(A), Len(B)>> /\ old' = old /\ new' = new /\ script' = script
  BY DEF DiffOK, Extend
<1>2. A' = A /\ B' = B
  BY <1>1, SameVersions
<1>3. A \in Seq(L) /\ B \in Seq(L) /\ Len(A) \in Nat /\ Len(B) \in Nat
  BY <1>1, EndsSetAside
<1>4. NextRow(A, B, trace, row)
  BY <1>1, NextRowIs
<1>5. Searched(A, B, trace) /\ d <= Edits(A, B, Len(A), Len(B)) /\ script = <<>>
  BY <1>1 DEF Searching
<1>6. d \in Nat /\ row \in RowSet(A, B) /\ trace \in Seq(RowSet(A, B))
  <2>1. trace \in Seq(RowSet(A, B)) /\ row \in RowSet(A, B)
    BY <1>4, <1>5 DEF Searched, NextRow
  <2>. QED
    BY <2>1
<1>. HIDE DEF row
<1>7. Searched(A, B, t)
  BY <1>4, <1>5, SearchedMore
<1>8. Len(t) = d + 1 /\ t[d + 1] = row
  <2>. DEFINE X == RowSet(A, B)
  <2>1. trace \in Seq(X) /\ row \in X
    BY <1>6
  <2>. HIDE DEF X
  <2>. QED
    BY <2>1
<1>. HIDE DEF t
<1>9. Furthest(A, B, row, d)
  BY <1>4 DEF NextRow
<1>. HIDE DEF d
<1>10. CASE ~Reaches(row, d)
  <2>1. d + 1 <= Edits(A, B, Len(A), Len(B))
    BY <1>3, <1>5, <1>6, <1>9, <1>10, EndAhead
  <2>2. Searching(A, B, t, script)
    BY <1>5, <1>7, <1>8, <2>1 DEF Searching
  <2>3. search' = "forward"
    BY <1>1, <1>10
  <2>4. Searching(A', B', trace', script')
    BY <1>1, <1>2, <2>2
  <2>. QED
    BY <1>1, <2>3, <2>4 DEF DiffOK
<1>11. CASE Reaches(row, d)
  <2>. DEFINE N == Len(A)
              M == Len(B)
  <2>1. Edits(A, B, N, M) = d /\ row[N - M] = N
    BY <1>3, <1>5, <1>6, <1>9, <1>11, EndReached
  <2>2. Walked(L, A, B, N, M, d, script)
    <3>1. /\ <<>> \in Seq(Operation(L)) /\ Side(<<>>, "keep") = <<>>
          /\ Text(<<>>, "delete") = <<>> /\ Text(<<>>, "add") = <<>>
      BY SideOfNothing DEF Text, Lines
    <3>2. Part(A, N, N) = <<>> /\ Part(B, M, M) = <<>>
      BY <1>3, PartWhole
    <3>3. N - M \in (-d)..d /\ ((N - M) + d) % 2 = 0
      <4>1. N \in Nat /\ M \in Nat
        BY <1>3
      <4>. HIDE DEF N, M
      <4>2. /\ N - M \in (-Edits(A, B, N, M))..Edits(A, B, N, M)
            /\ (N - M + Edits(A, B, N, M)) % 2 = 0
        BY <1>3, <4>1, EditsBound
      <4>. QED
        BY <2>1, <4>2
    <3>4. 2 * Len(<<>>) = (N - N) + (M - M) - (Edits(A, B, N, M) - d)
      BY <1>3, <1>6, <2>1
    <3>5. N <= Len(A) /\ M <= Len(B) /\ N \in Nat /\ M \in Nat
      BY <1>3
    <3>. HIDE DEF N, M
    <3>6. 2 * Len(Side(<<>>, "keep")) = (N - N) + (M - M) - (Edits(A, B, N, M) - d)
      BY <3>1, <3>4
    <3>7. Walked(L, A, B, N, M, d, <<>>)
      BY <3>1, <3>2, <3>3, <3>5, <3>6 DEF Walked, N, M
    <3>. QED
      BY <1>5, <3>7
  <2>3. Walking(L, A, B, t, N, M, script)
    <3>1. Len(t) > 0 /\ t[Len(t)] = row /\ Len(t) - 1 = d
      BY <1>6, <1>8
    <3>2. N = t[Len(t)][N - M]
      BY <2>1, <3>1
    <3>. HIDE DEF N, M
    <3>. QED
      BY <1>7, <2>2, <3>1, <3>2 DEF Walking
  <2>4. search' = "backward" /\ at' = <<N, M>> /\ at'[1] = N /\ at'[2] = M
    BY <1>1, <1>11
  <2>5. Walking(L, A', B', trace', at'[1], at'[2], script')
    <3>. HIDE DEF N, M
    <3>. QED
      BY <1>1, <1>2, <2>3, <2>4
  <2>6. at' = <<at'[1], at'[2]>>
    BY <2>4
  <2>. QED
    BY <1>1, <2>4, <2>5, <2>6 DEF DiffOK
<1>. QED
  BY <1>10, <1>11

\* A step of the walk back ends where the row before says, with an edit less to find.
LEMMA WalkBackKeepsDiff ==
  ASSUME NEW L, DiffOK(L), WalkBack
  PROVE  DiffOK(L)'
<1>. DEFINE d == Len(trace) - 1
            X == at[1]
            Y == at[2]
            k == X - Y
            above == FromAbove(trace[d], d, k)
            r == IF above THEN k + 1 ELSE k - 1
            u == trace[d][r]
            v == u - r
            same == Max({0, Min({X - u, Y - v})})
            i == X - same
            j == Y - same
            kept == Kept(SubSeq(A, i + 1, X))
<1>1. /\ old \in Seq(L) /\ new \in Seq(L) /\ search = "backward"
      /\ Walking(L, A, B, trace, X, Y, script) /\ at = <<X, Y>>
  BY DEF DiffOK, WalkBack
<1>2. /\ d > 0 /\ trace' = SubSeq(trace, 1, d)
      /\ old' = old /\ new' = new /\ search' = search
  BY DEF WalkBack
<1>3. IF i = u
      THEN at' = <<i, j - 1>> /\ script' = <<Op("add", B[j])>> \o kept \o script
      ELSE at' = <<i - 1, j>> /\ script' = <<Op("delete", A[i])>> \o kept \o script
  BY DEF WalkBack
<1>4. A' = A /\ B' = B
  BY <1>2, SameVersions
<1>5. A \in Seq(L) /\ B \in Seq(L)
  BY <1>1, EndsSetAside
<1>6. Searched(A, B, trace) /\ d \in Nat /\ d >= 1 /\ Len(trace) = d + 1
  <2>1. trace \in Seq(RowSet(A, B)) /\ Searched(A, B, trace)
    BY <1>1 DEF Walking, Searched
  <2>2. Len(trace) \in Nat
    BY <2>1
  <2>. QED
    BY <1>2, <2>1, <2>2
<1>7. X \in Nat /\ Y \in Nat
  BY <1>1 DEF Walking, Walked
<1>. HIDE DEF d, X, Y
<1>8. CASE above
  <2>1. Above(trace, d, X, Y, u, v)
    BY <1>8 DEF Above
  <2>. HIDE DEF u, v, above
  <2>2. /\ Back(L, A, B, trace, d, u, v, StepBack("add", B[v + 1], Part(A, u, X), script))
        /\ X - u \in Nat /\ Y - v = (X - u) + 1
    BY <1>1, <1>5, <1>6, <2>1, BackOverAdd
  <2>3. u \in Nat /\ v \in Nat
    BY <2>2 DEF Back
  <2>4. same = X - u
    <3>. DEFINE n == X - u
                c == Y - v
    <3>1. n \in Nat /\ c \in Int /\ n \in Int /\ c = n + 1
      BY <2>2
    <3>. HIDE DEF n, c
    <3>2. Max({0, Min({n, c})}) = n
      BY <3>1, SameIs
    <3>. QED
      BY <3>2 DEF n, c
  <2>5. i = u /\ j = v + 1 /\ j - 1 = v
    BY <1>7, <2>2, <2>3, <2>4
  <2>6. at' = <<u, v>> /\ script' = StepBack("add", B[v + 1], Part(A, u, X), script)
    <3>. HIDE DEF i, j
    <3>1. at' = <<i, j - 1>> /\ script' = <<Op("add", B[j])>> \o kept \o script
      BY <1>3, <2>5
    <3>. QED
      BY <2>5, <3>1 DEF StepBack, Part
  <2>7. Walking(L, A, B, trace', u, v, script')
    <3>. DEFINE s == StepBack("add", B[v + 1], Part(A, u, X), script)
    <3>1. Back(L, A, B, trace, d, u, v, s)
      BY <2>2
    <3>. HIDE DEF s
    <3>2. Walking(L, A, B, SubSeq(trace, 1, d), u, v, s)
      BY <1>6, <3>1, BackIsWalking
    <3>. QED
      BY <1>2, <2>6, <3>2 DEF s
  <2>8. at' = <<at'[1], at'[2]>> /\ at'[1] = u /\ at'[2] = v
    BY <2>6
  <2>9. Walking(L, A', B', trace', at'[1], at'[2], script')
    BY <1>4, <2>7, <2>8
  <2>. QED
    BY <1>1, <1>2, <2>8, <2>9 DEF DiffOK
<1>9. CASE ~above
  <2>1. Below(trace, d, X, Y, u, v)
    BY <1>9 DEF Below
  <2>. HIDE DEF u, v, above
  <2>2. /\ Back(L, A, B, trace, d, u, v, StepBack("delete", A[u + 1], Part(A, u + 1, X), script))
        /\ Y - v \in Nat /\ X - u = (Y - v) + 1
    BY <1>1, <1>5, <1>6, <2>1, BackOverDelete
  <2>3. u \in Nat /\ v \in Nat
    BY <2>2 DEF Back
  <2>4. same = Y - v
    <3>. DEFINE n == Y - v
                c == X - u
    <3>1. n \in Nat /\ c \in Int /\ n \in Int /\ c = n + 1
      BY <2>2
    <3>. HIDE DEF n, c
    <3>2. Max({0, Min({c, n})}) = n
      BY <3>1, SameIs
    <3>. QED
      BY <3>2 DEF n, c
  <2>5. i = u + 1 /\ j = v /\ i - 1 = u /\ i # u
    BY <1>7, <2>2, <2>3, <2>4
  <2>6. at' = <<u, v>> /\ script' = StepBack("delete", A[u + 1], Part(A, u + 1, X), script)
    <3>. HIDE DEF i, j
    <3>1. at' = <<i - 1, j>> /\ script' = <<Op("delete", A[i])>> \o kept \o script
      BY <1>3, <2>5
    <3>. QED
      BY <2>5, <3>1 DEF StepBack, Part
  <2>7. Walking(L, A, B, trace', u, v, script')
    <3>. DEFINE s == StepBack("delete", A[u + 1], Part(A, u + 1, X), script)
    <3>1. Back(L, A, B, trace, d, u, v, s)
      BY <2>2
    <3>. HIDE DEF s
    <3>2. Walking(L, A, B, SubSeq(trace, 1, d), u, v, s)
      BY <1>6, <3>1, BackIsWalking
    <3>. QED
      BY <1>2, <2>6, <3>2 DEF s
  <2>8. at' = <<at'[1], at'[2]>> /\ at'[1] = u /\ at'[2] = v
    BY <2>6
  <2>9. Walking(L, A', B', trace', at'[1], at'[2], script')
    BY <1>4, <2>7, <2>8
  <2>. QED
    BY <1>1, <1>2, <2>8, <2>9 DEF DiffOK
<1>. QED
  BY <1>8, <1>9

\* The diagonal of row 0 and the lines set aside make the script whole.
LEMMA FinishKeepsDiff ==
  ASSUME NEW L, DiffOK(L), FinishDiff
  PROVE  DiffOK(L)'
<1>. DEFINE X == at[1]
            Y == at[2]
            p == Part(old, 0, Start)
            q == Part(A, 0, X)
            e == Part(old, Len(old) - Tail_, Len(old))
<1>1. /\ old \in Seq(L) /\ new \in Seq(L)
      /\ Walking(L, A, B, trace, X, Y, script)
  BY DEF DiffOK, FinishDiff
<1>2. Len(trace) = 1 /\ search' = "done" /\ old' = old /\ new' = new
  BY DEF FinishDiff
<1>3. A \in Seq(L) /\ B \in Seq(L)
  BY <1>1, EndsSetAside
<1>4. X \in Nat /\ Y = X
  <2>. HIDE DEF X, Y
  <2>. QED
    BY <1>1, <1>2, <1>3, FirstDiagonal
<1>5. Min({X, Y}) = X
  <2>1. X \in Int /\ Y \in Int
    BY <1>4
  <2>. HIDE DEF X, Y
  <2>2. Min({X, Y}) = IF X <= Y THEN X ELSE Y
    BY <2>1, MinIs
  <2>. QED
    BY <1>4, <2>2
<1>6. script' = Frame(p, q, script, e)
  <2>1. script' = Kept(SubSeq(old, 1, Start)) \o Kept(SubSeq(A, 1, Min({X, Y})))
                    \o script \o Kept(SubSeq(old, Len(old) - Tail_ + 1, Len(old)))
    BY DEF FinishDiff
  <2>2. 0 + 1 = 1
    OBVIOUS
  <2>. QED
    BY <1>5, <2>1, <2>2 DEF Frame, Part
<1>7. Finished(L, old, new, Frame(p, q, script, e))
  <2>. HIDE DEF X, Y
  <2>. QED
    BY <1>1, <1>2, WalkFinishes
<1>8. Finished(L, old', new', script')
  BY <1>2, <1>6, <1>7
<1>. QED
  BY <1>1, <1>2, <1>8 DEF DiffOK

\* Nothing else concerns a diff.
LEMMA NothingKeepsDiff ==
  ASSUME NEW L, DiffOK(L), UNCHANGED diffVars
  PROVE  DiffOK(L)'
<1>1. /\ old' = old /\ new' = new /\ search' = search /\ trace' = trace /\ at' = at /\ script' = script
  BY DEF diffVars
<1>2. A' = A /\ B' = B
  BY <1>1, SameVersions
<1>. QED
  BY <1>1, <1>2 DEF DiffOK

\* A finished script is exact.
LEMMA DiffIsExact == ASSUME NEW L, DiffOK(L) PROVE ScriptIsExact
BY DEF DiffOK, Finished, ScriptIsExact, ScriptRebuilds, ScriptIsShortest, Text

-----------------------------------------------------------------------------
(* The lines a diff is started with.                                       *)

\* The numbers of a finite set can be listed, the smaller before the larger.
LEMMA AscendingIs ==
  ASSUME NEW S, IsFiniteSet(S), S \subseteq Int
  PROVE  /\ Ascending(S) \in SetToSeqs(S)
         /\ \A m \in 1..Cardinality(S) : \A n \in 1..(m - 1) : Ascending(S)[n] < Ascending(S)[m]
<1>. DEFINE R == {p \in Int \X Int : p[1] < p[2]}
<1>1. \A x \in Int, y \in Int : <<x, y>> \in R <=> x < y
  OBVIOUS
<1>. HIDE DEF R
<1>2. IsOrder(R, S)
  <2>1. \A x \in S, y \in S : x # y => <<x, y>> \in R \/ <<y, x>> \in R
    BY <1>1
  <2>2. \A x \in S, y \in S, z \in S : <<x, y>> \in R /\ <<y, z>> \in R => <<x, z>> \in R
    BY <1>1
  <2>. QED
    BY <2>1, <2>2 DEF IsOrder
<1>3. PICK s : Lists(s, S, R)
  BY <1>2, ListExists
<1>4. s \in SetToSeqs(S)
  BY <1>3 DEF Lists
<1>5. s \in [1..Cardinality(S) -> S] /\ Cardinality(S) \in Nat
  BY <1>4, ListIsWhole
<1>6. \A m \in 1..Cardinality(S) : \A n \in 1..(m - 1) : s[n] < s[m]
  <2>. SUFFICES ASSUME NEW m \in 1..Cardinality(S), NEW n \in 1..(m - 1) PROVE s[n] < s[m]
    OBVIOUS
  <2>1. <<s[n], s[m]>> \in R
    BY <1>3 DEF Lists
  <2>2. n \in 1..Cardinality(S)
    BY <1>5
  <2>3. s[n] \in Int /\ s[m] \in Int
    BY <1>5, <2>2
  <2>. QED
    BY <1>1, <2>1, <2>3
<1>. QED
  BY <1>4, <1>6 DEF Ascending

\* The lines of a text are sequences of what it is made of.
LEMMA LinesOfText ==
  ASSUME NEW X, NEW text \in Seq(X)
  PROVE  LinesOf(text) \in Seq(Seq(X))
<1>. DEFINE F == {i \in DOMAIN text : text[i] = NL}
            feeds == Ascending(F)
            l == Len(text)
            ends == <<0>> \o feeds \o <<l + 1>>
            upTo(end) == IF end \in DOMAIN text /\ AtomAt(text, end - 1) = CR THEN end - 2 ELSE end - 1
            line(n) == SubSeq(text, ends[n] + 1, upTo(ends[n + 1]))
<1>1. l \in Nat /\ DOMAIN text = 1..l
  OBVIOUS
<1>2. F \subseteq 1..l /\ IsFiniteSet(F) /\ F \subseteq Int
  <2>1. F \subseteq 1..l
    BY <1>1
  <2>2. IsFiniteSet(1..l)
    BY <1>1, FS_Interval
  <2>3. 1..l \subseteq Int
    OBVIOUS
  <2>. HIDE DEF F, l
  <2>4. IsFiniteSet(F)
    BY <2>1, <2>2, FS_Subset
  <2>. QED
    BY <2>1, <2>3, <2>4
<1>. HIDE DEF F
<1>3. feeds \in Seq(F)
  <2>1. feeds \in SetToSeqs(F)
    BY <1>2, AscendingIs
  <2>. HIDE DEF feeds
  <2>. QED
    BY <1>2, <2>1, ListIsWhole
<1>. DEFINE E == 0..(l + 1)
<1>4. feeds \in Seq(E) /\ <<0>> \in Seq(E) /\ <<l + 1>> \in Seq(E)
  <2>1. F \subseteq E
    BY <1>1, <1>2
  <2>2. feeds \in Seq(E)
    <3>. HIDE DEF E, feeds
    <3>. QED
      BY <1>3, <2>1
  <2>3. 0 \in E /\ l + 1 \in E
    BY <1>1
  <2>. HIDE DEF E
  <2>. QED
    BY <2>2, <2>3
<1>. DEFINE f == <<0>>
            e == <<l + 1>>
<1>5. /\ ends \in Seq(E) /\ Len(ends) = 1 + Len(feeds) + 1 /\ Len(feeds) \in Nat
      /\ ends[1] = 0 /\ \A i \in 1..Len(feeds) : ends[1 + i] = feeds[i]
      /\ ends[1 + Len(feeds) + 1] = l + 1
  <2>1. f \in Seq(E) /\ feeds \in Seq(E) /\ e \in Seq(E) /\ Len(f) = 1 /\ Len(e) = 1 /\ f[1] = 0
        /\ e[1] = l + 1
    BY <1>4
  <2>2. ends = f \o feeds \o e
    OBVIOUS
  <2>. HIDE DEF f, feeds, e, E, ends
  <2>. DEFINE g == f \o feeds
  <2>3. /\ g \in Seq(E) /\ Len(g) = Len(f) + Len(feeds)
        /\ \A i \in 1..Len(f) : g[i] = f[i]
        /\ \A i \in 1..Len(feeds) : g[Len(f) + i] = feeds[i]
    BY <2>1, PutTogether
  <2>. HIDE DEF g
  <2>4. /\ g \o e \in Seq(E) /\ Len(g \o e) = Len(g) + Len(e)
        /\ \A i \in 1..Len(g) : (g \o e)[i] = g[i]
        /\ \A i \in 1..Len(e) : (g \o e)[Len(g) + i] = e[i]
    <3>1. g \in Seq(E) /\ e \in Seq(E)
      BY <2>1, <2>3
    <3>. QED
      BY <3>1, PutTogether
  <2>5. ends = g \o e /\ Len(feeds) \in Nat
    BY <2>1, <2>2 DEF g
  <2>. QED
    BY <2>1, <2>3, <2>4, <2>5
<1>6. \A i \in 1..Len(feeds) : feeds[i] \in 1..l
  <2>. HIDE DEF feeds, l
  <2>1. \A i \in 1..Len(feeds) : feeds[i] \in F
    BY <1>3
  <2>. QED
    BY <1>2, <2>1
<1>. HIDE DEF f, e, feeds, ends
<1>7. ASSUME NEW n \in 1..(Len(ends) - 1) PROVE line(n) \in Seq(X)
  <2>1. ends[n] \in 0..l
    <3>1. CASE n = 1
      BY <1>1, <1>5, <3>1
    <3>2. CASE n # 1
      <4>. DEFINE i == n - 1
      <4>1. i \in 1..Len(feeds) /\ n = 1 + i
        BY <1>5, <3>2
      <4>. HIDE DEF i
      <4>. QED
        BY <1>1, <1>5, <1>6, <4>1
    <3>. QED
      BY <3>1, <3>2
  <2>2. ends[n + 1] \in 1..(l + 1)
    <3>1. CASE n = Len(ends) - 1
      BY <1>1, <1>5, <3>1
    <3>2. CASE n # Len(ends) - 1
      <4>1. n \in 1..Len(feeds)
        BY <1>5, <3>2
      <4>2. ends[1 + n] = feeds[n] /\ 1 + n = n + 1
        BY <1>5, <4>1
      <4>. QED
        BY <1>1, <1>6, <4>1, <4>2
    <3>. QED
      BY <3>1, <3>2
  <2>. DEFINE a == ends[n] + 1
              b == upTo(ends[n + 1])
  <2>3. a \in Int /\ b \in Int /\ a >= 1 /\ b <= l
    <3>1. b \in {ends[n + 1] - 1, ends[n + 1] - 2}
      OBVIOUS
    <3>. HIDE DEF b
    <3>. QED
      BY <1>1, <2>1, <2>2, <3>1
  <2>. HIDE DEF a, b
  <2>4. SubSeq(text, a, b) \in Seq(X)
    <3>1. \A i \in a..b : text[i] \in X
      BY <1>1, <2>3
    <3>. QED
      BY <2>3, <3>1
  <2>. QED
    BY <2>4 DEF a, b
<1>8. LinesOf(text) = [n \in 1..(Len(ends) - 1) |-> line(n)]
  BY DEF LinesOf, ends, feeds, F
<1>9. Len(ends) - 1 \in Nat
  BY <1>5
<1>. DEFINE c == Len(ends) - 1
            Y == Seq(X)
<1>10. c \in Nat /\ \A n \in 1..c : line(n) \in Y
  BY <1>7, <1>9
<1>. HIDE DEF c, line, Y
<1>11. [n \in 1..c |-> line(n)] \in Seq(Y)
  BY <1>10
<1>. QED
  BY <1>8, <1>11 DEF c, Y

-----------------------------------------------------------------------------
(* The diff of every item.                                                 *)

\* What the texts of all families are made of.
Atoms == UNION {UNION {ToSet(s) : s \in FamilyTexts(Families[n])} : n \in DOMAIN Families}

\* The text of an item is of atoms.
TextOK == /\ family \in DOMAIN Families /\ "text" \in DOMAIN item /\ item.text \in Seq(Atoms)

\* The inductive invariant: the item has a text, and the diff is where its rows say.
DiffInv == TextOK /\ DiffOK(Seq(Atoms))

\* The texts of a family are sequences of atoms.
LEMMA TextsOfFamily ==
  ASSUME NEW n \in DOMAIN Families, NEW s \in FamilyTexts(Families[n])
  PROVE  s \in Seq(Atoms)
<1>1. IsSequence(s)
  BY FamilyAssumption
<1>2. s \in Seq(ToSet(s))
  BY <1>1 DEF IsSequence
<1>3. ToSet(s) \subseteq Atoms
  BY DEF Atoms
<1>. DEFINE X == ToSet(s)
            Y == Atoms
<1>. HIDE DEF X, Y
<1>4. s \in Seq(X) /\ X \subseteq Y
  BY <1>2, <1>3 DEF X, Y
<1>5. s \in Seq(Y)
  BY <1>4
<1>. QED
  BY <1>5 DEF Y

\* So is each part of the family that a version is made of.
LEMMA PartsOfFamily ==
  ASSUME NEW n \in DOMAIN Families
  PROVE  /\ Families[n].head \in Seq(Atoms) /\ Families[n].tail \in Seq(Atoms)
         /\ \A piece \in Families[n].pieces : piece \in Seq(Atoms)
         /\ \A base \in Families[n].bases : base # NoVersion => base \in Seq(Atoms)
         /\ \A p \in Families[n].previous : p \in Seq(ToSet(p))
         /\ \A p \in Families[n].previous : \A k \in DOMAIN p : p[k].text \in Seq(Atoms)
<1>. DEFINE f == Families[n]
<1>1. /\ f.head \in FamilyTexts(f) /\ f.tail \in FamilyTexts(f)
      /\ \A piece \in f.pieces : piece \in FamilyTexts(f)
      /\ \A base \in f.bases : base # NoVersion => base \in FamilyTexts(f)
      /\ \A p \in f.previous : \A k \in DOMAIN p : p[k].text \in FamilyTexts(f)
  BY DEF FamilyTexts
<1>2. \A s \in FamilyTexts(f) : s \in Seq(Atoms)
  BY TextsOfFamily
<1>3. \A p \in f.previous : p \in Seq(ToSet(p))
  BY FamilyAssumption DEF IsSequence
<1>. HIDE DEF f
<1>4. /\ f.head \in Seq(Atoms) /\ f.tail \in Seq(Atoms)
      /\ \A piece \in f.pieces : piece \in Seq(Atoms)
      /\ \A base \in f.bases : base # NoVersion => base \in Seq(Atoms)
      /\ \A p \in f.previous : \A k \in DOMAIN p : p[k].text \in Seq(Atoms)
  BY <1>1, <1>2
<1>. QED
  BY <1>3, <1>4 DEF f

\* The version an item is diffed against is a text of its family.
LEMMA BaseIsText ==
  ASSUME NEW n \in DOMAIN Families, NEW previous \in Families[n].previous,
         NEW base \in Families[n].bases, getBaseContent(previous, base) # NoVersion
  PROVE  getBaseContent(previous, base) \in Seq(Atoms)
<1>. DEFINE sharing == {k \in DOMAIN previous : previous[k].shares # {}}
<1>1. /\ base # NoVersion => base \in Seq(Atoms)
      /\ previous \in Seq(ToSet(previous))
      /\ \A k \in DOMAIN previous : previous[k].text \in Seq(Atoms)
  BY PartsOfFamily
<1>2. CASE sharing = {}
  BY <1>1, <1>2 DEF getBaseContent
<1>3. CASE sharing # {}
  <2>1. sharing \subseteq Nat
    <3>1. DOMAIN previous = 1..Len(previous)
      BY <1>1
    <3>. QED
      BY <3>1
  <2>. HIDE DEF sharing
  <2>2. \E m \in sharing : \A k \in sharing : m <= k
    BY <1>3, <2>1, LeastNatural
  <2>3. Min(sharing) \in sharing
    BY <2>2 DEF Min
  <2>4. getBaseContent(previous, base) = previous[Min(sharing)].text
    BY <1>3 DEF getBaseContent, sharing
  <2>5. Min(sharing) \in DOMAIN previous
    BY <2>3 DEF sharing
  <2>. QED
    BY <1>1, <2>4, <2>5
<1>. QED
  BY <1>2, <1>3

\* At the start no version is under way.
LEMMA DiffInvInit == Init => DiffInv
<1>. SUFFICES ASSUME Init PROVE DiffInv
  OBVIOUS
<1>1. family \in DOMAIN Families /\ item.text = Family.head /\ "text" \in DOMAIN item
  BY DEF Init
<1>2. Family.head \in Seq(Atoms)
  BY <1>1, PartsOfFamily DEF Family
<1>3. TextOK
  BY <1>1, <1>2 DEF TextOK
<1>4. DiffOK(Seq(Atoms))
  BY DEF Init, IdleDiff, DiffOK
<1>. QED
  BY <1>3, <1>4 DEF DiffInv

\* An item's text is put together from pieces.
LEMMA TextGrows ==
  ASSUME TextOK, NEW s \in Seq(Atoms), item' = [item EXCEPT !.text = @ \o s], family' = family
  PROVE  TextOK'
<1>. DEFINE t == item.text
            X == Atoms
<1>1. family' \in DOMAIN Families /\ t \in Seq(X) /\ s \in Seq(X) /\ "text" \in DOMAIN item
  BY DEF TextOK
<1>2. item'.text = t \o s /\ "text" \in DOMAIN item'
  BY <1>1
<1>. HIDE DEF t, X
<1>3. t \o s \in Seq(X)
  BY <1>1, PutTogether
<1>4. item'.text \in Seq(Atoms)
  BY <1>2, <1>3 DEF X
<1>. QED
  BY <1>1, <1>2, <1>4 DEF TextOK

\* Only the actions of the diff change it, and it starts with texts of the item's family.
LEMMA DiffInvKept ==
  ASSUME DiffInv, [Next]_vars
  PROVE  DiffInv'
<1>. DEFINE L == Seq(Atoms)
<1>0. TextOK /\ DiffOK(L)
  BY DEF DiffInv
<1>. HIDE DEF L
<1>1. CASE Write
  <2>1. PICK piece \in Family.pieces : item' = [item EXCEPT !.text = @ \o piece]
    BY <1>1 DEF Write
  <2>2. family' = family /\ UNCHANGED diffVars
    BY <1>1 DEF Write
  <2>3. piece \in Seq(Atoms)
    BY <1>0, PartsOfFamily DEF Family, TextOK
  <2>4. TextOK'
    BY <1>0, <2>1, <2>2, <2>3, TextGrows
  <2>5. DiffOK(L)'
    BY <1>0, <2>2, NothingKeepsDiff
  <2>. QED
    BY <2>4, <2>5 DEF DiffInv, L
<1>2. CASE Ingest
  <2>1. item' = [item EXCEPT !.text = @ \o Family.tail] /\ family' = family /\ UNCHANGED diffVars
    BY <1>2 DEF Ingest
  <2>2. Family.tail \in Seq(Atoms)
    BY <1>0, PartsOfFamily DEF Family, TextOK
  <2>3. TextOK'
    BY <1>0, <2>1, <2>2, TextGrows
  <2>4. DiffOK(L)'
    BY <1>0, <2>1, NothingKeepsDiff
  <2>. QED
    BY <2>3, <2>4 DEF DiffInv, L
<1>3. CASE DeltaItem
  <2>1. PICK previous \in Family.previous, base \in Family.bases :
          Delta(getBaseContent(previous, base))
    BY <1>3 DEF DeltaItem
  <2>. DEFINE from == getBaseContent(previous, base)
  <2>2. /\ from # NoVersion /\ StartDiff(LinesOf(from), LinesOf(item.text))
        /\ family' = family /\ item' = item
    BY <2>1 DEF Delta, compressionVars
  <2>3. from \in Seq(Atoms)
    BY <1>0, <2>2, BaseIsText DEF Family, TextOK
  <2>4. item.text \in Seq(Atoms)
    BY <1>0 DEF TextOK
  <2>. HIDE DEF from
  <2>5. LinesOf(from) \in Seq(L)
    BY <2>3, LinesOfText DEF L
  <2>6. LinesOf(item.text) \in Seq(L)
    BY <2>4, LinesOfText DEF L
  <2>7. DiffOK(L)'
    <3>. DEFINE i == LinesOf(from)
                j == LinesOf(item.text)
    <3>1. i \in Seq(L) /\ j \in Seq(L) /\ StartDiff(i, j)
      BY <2>2, <2>5, <2>6
    <3>. HIDE DEF i, j
    <3>. QED
      BY <3>1, DiffStarts
  <2>8. TextOK'
    BY <1>0, <2>2 DEF TextOK
  <2>. QED
    BY <2>7, <2>8 DEF DiffInv, L
<1>4. CASE Diffing
  <2>1. TextOK'
    BY <1>0, <1>4 DEF TextOK, Diffing, compressionVars
  <2>2. DiffOK(L)'
    <3>1. CASE Extend
      BY <1>0, <3>1, ExtendKeepsDiff
    <3>2. CASE WalkBack
      BY <1>0, <3>2, WalkBackKeepsDiff
    <3>3. CASE FinishDiff
      BY <1>0, <3>3, FinishKeepsDiff
    <3>. QED
      BY <1>4, <3>1, <3>2, <3>3 DEF Diffing
  <2>. QED
    BY <2>1, <2>2 DEF DiffInv, L
<1>5. ASSUME family' = family, item' = item, UNCHANGED diffVars PROVE DiffInv'
  <2>1. TextOK'
    BY <1>0, <1>5 DEF TextOK
  <2>2. DiffOK(L)'
    BY <1>0, <1>5, NothingKeepsDiff
  <2>. QED
    BY <2>1, <2>2 DEF DiffInv, L
<1>6. CASE HashRegions \/ HashToCeiling \/ HashWhole \/ HashNothing
  <2>1. ASSUME NEW tried, NEW result, Hashed(tried, result)
        PROVE  family' = family /\ item' = item /\ UNCHANGED diffVars
    BY <2>1 DEF Hashed
  <2>. QED
    BY <1>5, <1>6, <2>1 DEF HashRegions, HashToCeiling, HashWhole, HashNothing
<1>7. CASE ApplyDelta \/ NoDelta
  BY <1>5, <1>7 DEF ApplyDelta, NoDelta
<1>8. CASE UNCHANGED vars
  BY <1>5, <1>8 DEF vars
<1>. QED
  BY <1>1, <1>2, <1>3, <1>4, <1>6, <1>7, <1>8 DEF Next

\* A finished script is a shortest one from the earlier version of the item to the item,
\* for every family of items and whatever the stages before made of it.
THEOREM ExactScript == Spec => []ScriptIsExact
<1>1. DiffInv => ScriptIsExact
  BY DiffIsExact DEF DiffInv
<1>2. DiffInv /\ [Next]_vars => DiffInv'
  BY DiffInvKept
<1>. QED
  BY <1>1, <1>2, DiffInvInit, PTL DEF Spec

-----------------------------------------------------------------------------
(* The texts of parts of a script.                                         *)

\* How many lines of a side come among the first i operations.
Before(s, i, type) == Len(Side(Part(s, 0, i), type))

\* The middle of three texts put together.
LEMMA MiddleOfThree ==
  ASSUME NEW L, NEW p \in Seq(L), NEW q \in Seq(L), NEW r \in Seq(L)
  PROVE  Part((p \o q) \o r, Len(p), Len(p) + Len(q)) = q
<1>. DEFINE u == p \o q
            v == u \o r
            i == Len(p)
            k == Len(q)
            j == i + k
            w == Part(v, i, j)
<1>0. i \in Nat /\ k \in Nat /\ Len(r) \in Nat
  OBVIOUS
<1>1. /\ u \in Seq(L) /\ Len(u) = i + k /\ \A n \in 1..k : u[i + n] = q[n]
  BY PutTogether
<1>. HIDE DEF u
<1>2. /\ v \in Seq(L) /\ Len(v) = Len(u) + Len(r) /\ \A n \in 1..Len(u) : v[n] = u[n]
  <2>1. u \in Seq(L) /\ r \in Seq(L)
    BY <1>1
  <2>. QED
    BY <2>1, PutTogether
<1>. HIDE DEF v
<1>3. w \in Seq(L) /\ Len(w) = k /\ \A n \in 1..k : w[n] = v[i + n]
  <2>1. i \in Nat /\ j \in Nat /\ i <= j /\ j <= Len(v) /\ j - i = k
    BY <1>0, <1>1, <1>2
  <2>. HIDE DEF i, j
  <2>2. /\ Part(v, i, j) \in Seq(L) /\ Len(Part(v, i, j)) = j - i
        /\ \A n \in 1..(j - i) : Part(v, i, j)[n] = v[i + n]
    <3>1. v \in Seq(L) /\ i \in Nat /\ j \in Nat /\ i <= j /\ j <= Len(v)
      BY <1>2, <2>1
    <3>. QED
      BY <3>1, PartIs
  <2>. QED
    BY <2>1, <2>2
<1>. HIDE DEF w
<1>4. ASSUME NEW n \in 1..k PROVE w[n] = q[n]
  <2>1. i + n \in 1..Len(u)
    BY <1>0, <1>1
  <2>. QED
    BY <1>1, <1>2, <1>3, <2>1
<1>5. w = q
  BY <1>3, <1>4, SeqEqual
<1>. QED
  BY <1>5 DEF w, v, u, j, i, k

\* The first i operations, those up to j, and the rest.
InParts(X, s, i, j) ==
  /\ Part(s, 0, i) \in Seq(X) /\ Part(s, i, j) \in Seq(X) /\ Part(s, j, Len(s)) \in Seq(X)
  /\ Part(s, 0, i) \o Part(s, i, j) = Part(s, 0, j)
  /\ Part(s, 0, j) \o Part(s, j, Len(s)) = s

\* A script is its first i operations, those up to j, and the rest.
LEMMA ScriptInThree ==
  ASSUME NEW X, NEW s \in Seq(X), NEW i \in Nat, NEW j \in Nat, i <= j, j <= Len(s)
  PROVE  InParts(X, s, i, j)
<1>. DEFINE z == 0
            n == Len(s)
<1>1. z \in Nat /\ n \in Nat /\ z <= i /\ z <= j /\ i <= n /\ n <= Len(s) /\ j <= n
  OBVIOUS
<1>2. Part(s, z, n) = s
  BY PartWhole
<1>. HIDE DEF z, n
<1>3. Part(s, z, i) \in Seq(X)
  <2>1. i <= Len(s) /\ z \in Nat /\ z <= i
    BY <1>1 DEF n
  <2>. QED
    BY <2>1, PartIs
<1>4. Part(s, i, j) \in Seq(X)
  BY PartIs
<1>5. Part(s, j, n) \in Seq(X)
  BY <1>1, PartIs
<1>6. Part(s, z, i) \o Part(s, i, j) = Part(s, z, j)
  BY <1>1, PartsJoin
<1>7. Part(s, z, j) \o Part(s, j, n) = Part(s, z, n)
  BY <1>1, PartsJoin
<1>. QED
  BY <1>2, <1>3, <1>4, <1>5, <1>6, <1>7 DEF z, n, InParts

\* The text of a part of a script is a part of its text.
LEMMA PartOfText ==
  ASSUME NEW L, NEW s \in Seq(Operation(L)), NEW i \in Nat, NEW j \in Nat, i <= j, j <= Len(s),
         NEW type
  PROVE  /\ Part(Text(s, type), Before(s, i, type), Before(s, j, type)) = Text(Part(s, i, j), type)
         /\ Text(Part(s, 0, i), type) \o Text(Part(s, i, j), type) = Text(Part(s, 0, j), type)
         /\ Before(s, i, type) + Len(Side(Part(s, i, j), type)) = Before(s, j, type)
         /\ Before(s, i, type) \in Nat
<1>. DEFINE X == Operation(L)
            p == Part(s, 0, i)
            q == Part(s, i, j)
            r == Part(s, j, Len(s))
<1>1. p \in Seq(X) /\ q \in Seq(X) /\ r \in Seq(X) /\ p \o q = Part(s, 0, j) /\ Part(s, 0, j) \o r = s
  <2>1. s \in Seq(X)
    OBVIOUS
  <2>2. InParts(X, s, i, j)
    <3>. HIDE DEF X
    <3>. QED
      BY <2>1, ScriptInThree
  <2>. QED
    BY <2>2 DEF InParts
<1>. HIDE DEF p, q, r
<1>2. p \in Seq(Operation(L)) /\ q \in Seq(Operation(L)) /\ r \in Seq(Operation(L))
  BY <1>1
<1>3. Joins(L, p, q, r, type)
  BY <1>2, ThreeTexts
<1>4. Text(p \o q, type) = Text(p, type) \o Text(q, type)
  BY <1>2, TextJoined, SMTT(30)
<1>5. Len(Side(p \o q, type)) = Len(Side(p, type)) + Len(Side(q, type))
  BY <1>2, SidesAdd
<1>6. Text(s, type) = (Text(p, type) \o Text(q, type)) \o Text(r, type)
  BY <1>1, <1>3 DEF Joins
<1>7. /\ Text(p, type) \in Seq(L) /\ Len(Side(p, type)) \in Nat
      /\ Len(Text(p, type)) = Len(Side(p, type))
  BY <1>2, TextConcat
<1>8. Text(q, type) \in Seq(L) /\ Len(Text(q, type)) = Len(Side(q, type))
  BY <1>2, TextConcat
<1>9. Text(r, type) \in Seq(L)
  BY <1>2, TextConcat
<1>10. Before(s, i, type) = Len(Side(p, type)) /\ Before(s, j, type) = Len(Side(p, type)) + Len(Side(q, type))
  BY <1>1, <1>5 DEF Before, p
<1>11. Part(Text(s, type), Before(s, i, type), Before(s, j, type)) = Text(q, type)
  <2>. DEFINE a == Text(p, type)
              b == Text(q, type)
              c == Text(r, type)
  <2>1. a \in Seq(L) /\ b \in Seq(L) /\ c \in Seq(L)
    BY <1>7, <1>8, <1>9
  <2>2. Before(s, i, type) = Len(a) /\ Before(s, j, type) = Len(a) + Len(b)
    BY <1>7, <1>8, <1>10
  <2>3. Text(s, type) = (a \o b) \o c
    BY <1>6
  <2>. HIDE DEF a, b, c
  <2>4. Part((a \o b) \o c, Len(a), Len(a) + Len(b)) = b
    BY <2>1, MiddleOfThree
  <2>. QED
    BY <2>2, <2>3, <2>4 DEF b
<1>12. Text(p, type) \o Text(q, type) = Text(Part(s, 0, j), type)
  BY <1>1, <1>4
<1>13. Before(s, i, type) + Len(Side(q, type)) = Before(s, j, type) /\ Before(s, i, type) \in Nat
  BY <1>7, <1>10
<1>. QED
  BY <1>11, <1>12, <1>13 DEF p, q

\* Where all is kept, the two sides are the same.
LEMMA KeptAlike ==
  ASSUME NEW L, NEW s \in Seq(Operation(L)), NEW i \in Nat, NEW j \in Nat, i <= j, j <= Len(s),
         \A k \in (i + 1)..j : s[k].type = "keep"
  PROVE  Text(Part(s, i, j), "add") = Text(Part(s, i, j), "delete")
<1>. DEFINE X == Operation(L)
            q == Part(s, i, j)
<1>1. q \in Seq(X) /\ Len(q) = j - i /\ \A k \in 1..(j - i) : q[k] = s[i + k]
  <2>1. s \in Seq(X)
    OBVIOUS
  <2>. HIDE DEF X
  <2>. QED
    BY <2>1, PartIs
<1>2. \A k \in 1..Len(q) : q[k].type = "keep"
  <2>. SUFFICES ASSUME NEW k \in 1..(j - i) PROVE q[k].type = "keep"
    BY <1>1
  <2>1. i + k \in (i + 1)..j
    OBVIOUS
  <2>. QED
    BY <1>1, <2>1
<1>. HIDE DEF q, X
<1>3. ASSUME NEW type PROVE Side(q, type) = q
  <2>1. \A k \in 1..Len(q) : q[k].type \in {"keep", type}
    BY <1>2
  <2>. QED
    BY <1>1, <2>1, SideAll
<1>4. Text(q, "add") = Text(q, "delete")
  BY <1>3 DEF Text
<1>. QED
  BY <1>4 DEF q

-----------------------------------------------------------------------------
(* Where the hunks of a script are.                                        *)

\* The changes are among the operations shown.
LEMMA ShownIs ==
  ASSUME NEW X, script \in Seq(X)
  PROVE  /\ Shown \subseteq 1..Len(script) /\ IsFiniteSet(Shown)
         /\ \A c \in 1..Len(script) : script[c].type # "keep" => c \in Shown
<1>1. DOMAIN script = 1..Len(script) /\ Len(script) \in Nat
  OBVIOUS
<1>2. Shown \subseteq 1..Len(script)
  BY <1>1 DEF Shown
<1>3. IsFiniteSet(Shown)
  <2>. DEFINE S == Shown
              D == 1..Len(script)
  <2>1. IsFiniteSet(D) /\ S \subseteq D
    BY <1>1, <1>2, FS_Interval
  <2>. HIDE DEF S, D
  <2>2. IsFiniteSet(S)
    BY <2>1, FS_Subset
  <2>. QED
    BY <2>2 DEF S
<1>4. ASSUME NEW c \in 1..Len(script), script[c].type # "keep" PROVE c \in Shown
  <2>1. ContextSize \in Nat
    BY ContextAssumption
  <2>2. c \in (c - ContextSize)..(c + ContextSize)
    BY <2>1
  <2>. QED
    BY <1>1, <1>4, <2>2 DEF Shown
<1>. QED
  BY <1>2, <1>3, <1>4

\* A hunk goes on for as long as the operations are shown.
LEMMA EndIs ==
  ASSUME NEW X, script \in Seq(X), NEW b \in Shown
  PROVE  /\ b \in Nat /\ b >= 1 /\ End(b) \in Nat /\ b <= End(b) /\ End(b) <= Len(script)
         /\ b..End(b) \subseteq Shown /\ End(b) + 1 \notin Shown
<1>. DEFINE S == {m \in Shown : m >= b /\ b..m \subseteq Shown}
            e == Max(S)
            n == Len(script)
<1>1. Shown \subseteq 1..n /\ IsFiniteSet(Shown)
  BY ShownIs
<1>2. n \in Nat /\ b \in 1..n
  BY <1>1
<1>3. b \in S
  <2>1. b..b \subseteq Shown
    BY <1>2
  <2>. QED
    BY <1>2, <2>1
<1>4. S \subseteq Shown /\ S \subseteq Nat
  <2>1. S \subseteq Shown
    OBVIOUS
  <2>2. Shown \subseteq Nat
    BY <1>1
  <2>. HIDE DEF S
  <2>. QED
    BY <2>1, <2>2
<1>5. IsFiniteSet(S)
  BY <1>1, <1>4, FS_Subset
<1>6. e \in S /\ \A m \in S : m <= e
  <2>. HIDE DEF S
  <2>1. \E m \in S : \A k \in S : k <= m
    BY <1>3, <1>4, <1>5, GreatestNatural
  <2>2. PICK m \in S : \A k \in S : m >= k
    BY <1>4, <2>1
  <2>3. e \in S /\ \A k \in S : e >= k
    BY <2>2 DEF Max
  <2>. QED
    BY <1>4, <2>3
<1>7. End(b) = e
  BY DEF End
<1>. HIDE DEF e
<1>8. e \in Nat /\ b <= e /\ e <= n /\ b..e \subseteq Shown
  BY <1>1, <1>2, <1>4, <1>6
<1>9. e + 1 \notin Shown
  <2>. SUFFICES ASSUME e + 1 \in Shown PROVE FALSE
    OBVIOUS
  <2>1. \A k \in b..(e + 1) : k \in b..e \/ k = e + 1
    BY <1>2, <1>8
  <2>2. b..(e + 1) \subseteq Shown
    BY <1>8, <2>1
  <2>3. e + 1 >= b
    BY <1>2, <1>8
  <2>4. e + 1 \in S
    BY <2>2, <2>3
  <2>. HIDE DEF S
  <2>5. e + 1 <= e
    BY <1>6, <2>4
  <2>. QED
    BY <1>8, <2>5
<1>. QED
  BY <1>2, <1>7, <1>8, <1>9

\* What is shown is in a hunk that begins before it.
LEMMA BeginOf ==
  ASSUME NEW X, script \in Seq(X), NEW i \in Shown
  PROVE  \E k \in Begins : k <= i /\ k..i \subseteq Shown
<1>. DEFINE S == {k \in Shown : k <= i /\ k..i \subseteq Shown}
<1>1. Shown \subseteq 1..Len(script)
  BY ShownIs
<1>2. S \subseteq Nat /\ i \in Nat
  <2>1. S \subseteq Shown
    OBVIOUS
  <2>2. Shown \subseteq Nat
    BY <1>1
  <2>. HIDE DEF S
  <2>. QED
    BY <2>1, <2>2
<1>3. i \in S
  <2>1. i..i \subseteq Shown
    BY <1>2
  <2>. QED
    BY <1>2, <2>1
<1>4. PICK k \in S : \A m \in S : k <= m
  <2>. HIDE DEF S
  <2>. QED
    BY <1>2, <1>3, LeastNatural
<1>5. k \in Nat /\ k <= i /\ k..i \subseteq Shown /\ k \in Shown
  BY <1>2, <1>4
<1>6. k - 1 \notin Shown
  <2>. SUFFICES ASSUME k - 1 \in Shown PROVE FALSE
    OBVIOUS
  <2>1. \A m \in (k - 1)..i : m = k - 1 \/ m \in k..i
    BY <1>2, <1>5
  <2>2. (k - 1)..i \subseteq Shown /\ k - 1 <= i
    BY <1>2, <1>5, <2>1
  <2>3. k - 1 \in S
    BY <2>2
  <2>. HIDE DEF S
  <2>4. k <= k - 1
    BY <1>4, <2>3
  <2>. QED
    BY <1>5, <2>4
<1>7. k \in Begins
  BY <1>5, <1>6 DEF Begins
<1>. QED
  BY <1>5, <1>7

\* Where hunk h begins and ends; no operation is before hunk 1.
Opens(h) == Ascending(Begins)[h]
Closes(h) == IF h = 0 THEN 0 ELSE End(Opens(h))

\* One hunk for each begin, in order.
Sorted(H) ==
  /\ H \in Nat /\ Len(Hunks) = H
  /\ \A h \in 1..H : /\ Opens(h) \in Begins
                     /\ Hunks[h] = Hunk(Opens(h), End(Opens(h)))
                     /\ \A g \in 1..(h - 1) : Opens(g) < Opens(h)
  /\ \A b \in Begins : \E h \in 1..H : Opens(h) = b

\* The hunks of every script are so.
LEMMA HunksSorted ==
  ASSUME NEW X, script \in Seq(X)
  PROVE  Sorted(Cardinality(Begins))
<1>. DEFINE H == Cardinality(Begins)
            s == Ascending(Begins)
<1>1. Shown \subseteq 1..Len(script) /\ IsFiniteSet(Shown)
  BY ShownIs
<1>2. Begins \subseteq Shown
  BY DEF Begins
<1>3. IsFiniteSet(Begins)
  BY <1>1, <1>2, FS_Subset
<1>4. Begins \subseteq Int
  BY <1>1, <1>2
<1>5. s \in SetToSeqs(Begins) /\ \A m \in 1..H : \A g \in 1..(m - 1) : s[g] < s[m]
  BY <1>3, <1>4, AscendingIs
<1>6. /\ H \in Nat /\ DOMAIN s = 1..H /\ s \in [1..H -> Begins]
      /\ \A b \in Begins : \E h \in 1..H : s[h] = b
  <2>. HIDE DEF s, H
  <2>1. s \in SetToSeqs(Begins)
    BY <1>5
  <2>. QED
    BY <1>3, <2>1, ListIsWhole DEF H
<1>7. Hunks = [h \in DOMAIN s |-> Hunk(s[h], End(s[h]))]
  BY DEF Hunks
<1>. HIDE DEF s, H
<1>8. Hunks = [h \in 1..H |-> Hunk(s[h], End(s[h]))]
  BY <1>6, <1>7
<1>9. Len(Hunks) = H /\ \A h \in 1..H : Hunks[h] = Hunk(s[h], End(s[h]))
  BY <1>6, <1>8
<1>10. \A h \in 1..H : Opens(h) = s[h]
  BY DEF Opens, s
<1>11. \A h \in 1..H : \A g \in 1..(h - 1) : Opens(g) < Opens(h)
  <2>. SUFFICES ASSUME NEW h \in 1..H, NEW g \in 1..(h - 1) PROVE Opens(g) < Opens(h)
    OBVIOUS
  <2>1. g \in 1..H
    BY <1>6
  <2>. QED
    BY <1>5, <1>10, <2>1
<1>12. Sorted(H)
  BY <1>6, <1>9, <1>10, <1>11 DEF Sorted
<1>. QED
  BY <1>12 DEF H

\* The last operation before the hunk after hunk h, or of all.
LastBefore(H, h) == IF h = H THEN Len(script) ELSE Opens(h + 1) - 1

\* Between two hunks all is kept.
Gap(H, h) ==
  /\ Closes(h) \in Nat /\ LastBefore(H, h) \in Nat
  /\ Closes(h) <= LastBefore(H, h) /\ LastBefore(H, h) <= Len(script)
  /\ \A k \in (Closes(h) + 1)..LastBefore(H, h) : script[k].type = "keep"

\* A hunk is of operations shown, and those next to it are not shown.
LEMMA OpensCloses ==
  ASSUME NEW X, script \in Seq(X), NEW H, Sorted(H), NEW h \in 1..H
  PROVE  /\ Opens(h) \in Nat /\ Opens(h) >= 1 /\ Closes(h) \in Nat
         /\ Opens(h) <= Closes(h) /\ Closes(h) <= Len(script)
         /\ Opens(h)..Closes(h) \subseteq Shown /\ Closes(h) + 1 \notin Shown
         /\ Opens(h) - 1 \notin Shown /\ Closes(h) = End(Opens(h))
<1>1. h # 0 /\ Opens(h) \in Shown /\ Opens(h) - 1 \notin Shown
  BY DEF Sorted, Begins
<1>2. Closes(h) = End(Opens(h))
  BY <1>1 DEF Closes
<1>. DEFINE b == Opens(h)
<1>3. b \in Shown
  BY <1>1
<1>. HIDE DEF b
<1>4. /\ b \in Nat /\ b >= 1 /\ End(b) \in Nat /\ b <= End(b) /\ End(b) <= Len(script)
      /\ b..End(b) \subseteq Shown /\ End(b) + 1 \notin Shown
  BY <1>3, EndIs
<1>. QED
  BY <1>1, <1>2, <1>4 DEF b

\* No change is outside the hunks.
LEMMA GapIs ==
  ASSUME NEW X, script \in Seq(X), NEW H, Sorted(H), NEW h \in 0..H
  PROVE  Gap(H, h)
<1>. DEFINE c == Closes(h)
            o == LastBefore(H, h)
            n == Len(script)
<1>1. H \in Nat /\ n \in Nat
  BY DEF Sorted
<1>2. /\ Shown \subseteq 1..n
      /\ \A k \in 1..n : script[k].type # "keep" => k \in Shown
  BY ShownIs
<1>3. /\ c \in Nat /\ c <= n
      /\ h # 0 => Opens(h) \in Nat /\ Opens(h) <= c /\ Opens(h)..c \subseteq Shown /\ c + 1 \notin Shown
  <2>1. CASE h = 0
    BY <1>1, <2>1 DEF Closes
  <2>2. CASE h # 0
    <3>1. h \in 1..H
      BY <1>1, <2>2
    <3>. QED
      BY <3>1, OpensCloses
  <2>. QED
    BY <2>1, <2>2
<1>. HIDE DEF c, n
<1>4. o \in Nat /\ c <= o /\ o <= n
  <2>1. CASE h = H
    BY <1>1, <1>3, <2>1 DEF LastBefore, n
  <2>2. CASE h # H
    <3>. DEFINE g == h + 1
                b == Opens(g)
    <3>1. g \in 1..H /\ h \in 0..(g - 1)
      BY <1>1, <2>2
    <3>. HIDE DEF g
    <3>2. b \in Nat /\ b >= 1 /\ b - 1 \notin Shown /\ b <= Closes(g) /\ Closes(g) <= n /\ Closes(g) \in Nat
      BY <3>1, OpensCloses DEF n
    <3>3. h # 0 => Opens(h) < b
      BY <1>1, <3>1 DEF Sorted
    <3>. HIDE DEF b
    <3>4. c < b
      <4>1. CASE h = 0
        BY <3>2, <4>1 DEF c, Closes
      <4>2. CASE h # 0
        <5>. SUFFICES ASSUME b <= c PROVE FALSE
          BY <1>3, <3>2
        <5>1. b - 1 \in Opens(h)..c
          BY <1>3, <3>2, <3>3, <4>2
        <5>. QED
          BY <1>3, <3>2, <4>2, <5>1
      <4>. QED
        BY <4>1, <4>2
    <3>5. o = b - 1
      BY <2>2 DEF LastBefore, b, g
    <3>. QED
      BY <1>1, <1>3, <3>2, <3>4, <3>5
  <2>. QED
    BY <2>1, <2>2
<1>. HIDE DEF o
<1>5. ASSUME NEW k \in (c + 1)..o PROVE script[k].type = "keep"
  <2>. SUFFICES ASSUME script[k].type # "keep" PROVE FALSE
    OBVIOUS
  <2>1. k \in 1..n
    BY <1>1, <1>3, <1>4
  <2>2. k \in Shown
    BY <1>2, <2>1
  <2>3. PICK b \in Begins : b <= k /\ b..k \subseteq Shown
    BY <2>2, BeginOf
  <2>4. PICK g \in 1..H : Opens(g) = b
    BY <2>3 DEF Sorted
  <2>5. b \in Nat
    BY <1>2, <2>3 DEF Begins
  <2>6. CASE g <= h
    <3>1. h # 0 /\ h \in 1..H
      BY <1>1, <2>6
    <3>2. b <= Opens(h)
      <4>1. CASE g = h
        BY <1>3, <2>4, <3>1, <4>1
      <4>2. CASE g # h
        <5>1. g \in 1..(h - 1)
          BY <1>1, <2>6, <4>2
        <5>2. Opens(g) < Opens(h)
          BY <3>1, <5>1 DEF Sorted
        <5>. QED
          BY <1>3, <2>4, <2>5, <3>1, <5>2
      <4>. QED
        BY <4>1, <4>2
    <3>3. c + 1 \in b..k
      BY <1>3, <1>4, <2>1, <2>5, <3>1, <3>2
    <3>. QED
      BY <1>3, <2>3, <3>1, <3>3
  <2>7. CASE g > h
    <3>1. h # H /\ h + 1 \in 1..H
      BY <1>1, <2>7
    <3>2. o = Opens(h + 1) - 1
      BY <3>1 DEF LastBefore, o
    <3>. DEFINE f == h + 1
    <3>3. f \in 1..H /\ (f = g \/ f \in 1..(g - 1))
      BY <1>1, <2>7, <3>1
    <3>. HIDE DEF f
    <3>4. Opens(f) \in Nat
      BY <3>3, OpensCloses
    <3>5. Opens(f) <= b
      <4>1. CASE f = g
        BY <2>4, <3>4, <4>1
      <4>2. CASE f # g
        <5>1. Opens(f) < Opens(g)
          BY <3>3, <4>2 DEF Sorted
        <5>. QED
          BY <2>4, <2>5, <3>4, <5>1
      <4>. QED
        BY <4>1, <4>2
    <3>6. o = Opens(f) - 1
      BY <3>2 DEF f
    <3>. QED
      BY <1>4, <2>1, <2>3, <2>5, <3>4, <3>5, <3>6
  <2>8. g <= h \/ g > h
    BY <1>1
  <2>. QED
    BY <2>6, <2>7, <2>8
<1>. QED
  BY <1>3, <1>4, <1>5 DEF Gap, c, o, n

-----------------------------------------------------------------------------
(* The hunks applied one after the other.                                  *)

\* The texts of two parts that follow each other.
LEMMA TextsJoin ==
  ASSUME NEW L, NEW s \in Seq(Operation(L)), NEW i \in Nat, NEW j \in Nat, NEW k \in Nat,
         i <= j, j <= k, k <= Len(s), NEW type
  PROVE  /\ Text(Part(s, i, j), type) \o Text(Part(s, j, k), type) = Text(Part(s, i, k), type)
         /\ Text(Part(s, i, j), type) \in Seq(L)
<1>. DEFINE X == Operation(L)
            p == Part(s, i, j)
            q == Part(s, j, k)
<1>1. p \in Seq(X) /\ q \in Seq(X) /\ p \o q = Part(s, i, k)
  <2>1. s \in Seq(X) /\ Len(s) \in Nat /\ j <= Len(s)
    OBVIOUS
  <2>. HIDE DEF X
  <2>2. p \in Seq(X)
    BY <2>1, PartIs
  <2>3. q \in Seq(X)
    BY <2>1, PartIs
  <2>4. p \o q = Part(s, i, k)
    BY <2>1, PartsJoin
  <2>. QED
    BY <2>2, <2>3, <2>4
<1>. HIDE DEF p, q
<1>2. p \in Seq(Operation(L)) /\ q \in Seq(Operation(L))
  BY <1>1
<1>3. Text(p \o q, type) = Text(p, type) \o Text(q, type)
  BY <1>2, TextJoined
<1>4. Text(p, type) \in Seq(L)
  BY <1>2, TextConcat
<1>. QED
  BY <1>1, <1>3, <1>4 DEF p, q

\* The text so far and what follows.
LEMMA TextGoesOn ==
  ASSUME NEW L, NEW s \in Seq(Operation(L)), NEW j \in Nat, NEW k \in Nat, j <= k, k <= Len(s),
         NEW type
  PROVE  Text(Part(s, 0, j), type) \o Text(Part(s, j, k), type) = Text(Part(s, 0, k), type)
<1>. DEFINE X == Operation(L)
            p == Part(s, 0, j)
            q == Part(s, j, k)
<1>1. p \in Seq(X) /\ q \in Seq(X) /\ p \o q = Part(s, 0, k)
  <2>1. s \in Seq(X)
    OBVIOUS
  <2>. HIDE DEF X
  <2>2. InParts(X, s, j, k)
    BY <2>1, ScriptInThree
  <2>. QED
    BY <2>2 DEF InParts
<1>. HIDE DEF p, q
<1>2. p \in Seq(Operation(L)) /\ q \in Seq(Operation(L))
  BY <1>1
<1>3. Text(p \o q, type) = Text(p, type) \o Text(q, type)
  BY <1>2, TextJoined
<1>. QED
  BY <1>1, <1>3 DEF p, q

\* A script between the two versions.
Between(L) ==
  /\ script \in Seq(Operation(L))
  /\ Text(script, "delete") = old /\ Text(script, "add") = new

\* How many lines of the old version come before the operation after operation i.
Done(i) == Before(script, i, "delete")

\* What hunk h says of where it is.
LEMMA HunkIs ==
  ASSUME NEW X, script \in Seq(X), NEW H, Sorted(H), NEW h \in 1..H
  PROVE  /\ Hunks[h].oldStart = Done(Opens(h) - 1) + 1
         /\ Hunks[h].oldLength = Len(Side(Part(script, Opens(h) - 1, Closes(h)), "delete"))
         /\ Hunks[h].ops = Part(script, Opens(h) - 1, Closes(h))
<1>1. Opens(h) \in Nat /\ Closes(h) = End(Opens(h))
  BY OpensCloses
<1>2. Hunks[h] = Hunk(Opens(h), Closes(h))
  BY <1>1 DEF Sorted
<1>. DEFINE n == Opens(h)
            m == Closes(h)
<1>3. Hunks[h] = Hunk(n, m) /\ n \in Nat
  BY <1>1, <1>2
<1>. HIDE DEF n, m
<1>4. Part(script, n - 1, m) = SubSeq(script, n, m) /\ Part(script, 0, n - 1) = SubSeq(script, 1, n - 1)
  <2>1. (n - 1) + 1 = n /\ 0 + 1 = 1
    BY <1>3
  <2>. QED
    BY <2>1 DEF Part
<1>5. /\ Hunk(n, m).oldStart = Len(Side(SubSeq(script, 1, n - 1), "delete")) + 1
      /\ Hunk(n, m).oldLength = Len(Side(SubSeq(script, n, m), "delete"))
      /\ Hunk(n, m).ops = SubSeq(script, n, m)
  BY DEF Hunk
<1>. QED
  BY <1>3, <1>4, <1>5 DEF n, m, Done, Before

\* The old version goes on where the hunk ends.
LEMMA ResumeIs ==
  ASSUME NEW L, Between(L), NEW H, Sorted(H), NEW h \in 0..H
  PROVE  Resume(h) = Done(Closes(h)) + 1
<1>0. script \in Seq(Operation(L))
  BY DEF Between
<1>1. CASE h = 0
  <2>1. Part(script, 0, 0) = <<>>
    <3>1. 0 \in 0..Len(script)
      BY <1>0
    <3>. DEFINE X == Operation(L)
    <3>2. script \in Seq(X)
      BY <1>0
    <3>. HIDE DEF X
    <3>. QED
      BY <3>1, <3>2, PartWhole
  <2>2. Done(0) = 0
    BY <2>1, SideOfNothing DEF Done, Before
  <2>. QED
    BY <1>1, <2>2 DEF Resume, Closes
<1>2. CASE h # 0
  <2>. DEFINE i == Opens(h) - 1
              j == Closes(h)
              k == Len(Side(Part(script, i, j), "delete"))
              X == Operation(L)
  <2>0. h \in 1..H /\ script \in Seq(X)
    BY <1>0, <1>2 DEF Sorted
  <2>. HIDE DEF X
  <2>1. Hunks[h].oldStart = Done(i) + 1 /\ Hunks[h].oldLength = k
    BY <2>0, HunkIs
  <2>2. i \in Nat /\ j \in Nat /\ i <= j /\ j <= Len(script)
    BY <2>0, OpensCloses
  <2>. HIDE DEF i, j
  <2>3. Done(i) + k = Done(j) /\ Done(i) \in Nat
    BY <1>0, <2>2, PartOfText DEF Done
  <2>4. k \in Nat
    <3>1. Part(script, i, j) \in Seq(X)
      BY <2>0, <2>2, PartIs
    <3>2. Part(script, i, j) \in Seq(Operation(L))
      BY <3>1 DEF X
    <3>. QED
      BY <3>2, TextConcat
  <2>. HIDE DEF k
  <2>5. Resume(h) = (Done(i) + 1) + k
    BY <1>2, <2>1 DEF Resume
  <2>6. Resume(h) = Done(j) + 1
    BY <2>3, <2>4, <2>5
  <2>. QED
    BY <2>6 DEF j
<1>. QED
  BY <1>1, <1>2

\* From the end of a hunk to the next, both versions have the same lines.
LEMMA BetweenHunks ==
  ASSUME NEW L, Between(L), NEW H, Sorted(H), NEW h \in 0..H
  PROVE  Part(old, Done(Closes(h)), Done(LastBefore(H, h)))
           = Text(Part(script, Closes(h), LastBefore(H, h)), "add")
<1>. DEFINE i == Closes(h)
            j == LastBefore(H, h)
<1>0. script \in Seq(Operation(L)) /\ Text(script, "delete") = old
  BY DEF Between
<1>1. /\ i \in Nat /\ j \in Nat /\ i <= j /\ j <= Len(script)
      /\ \A k \in (i + 1)..j : script[k].type = "keep"
  <2>. DEFINE X == Operation(L)
  <2>1. script \in Seq(X)
    BY <1>0
  <2>. HIDE DEF X
  <2>2. Gap(H, h)
    BY <2>1, GapIs
  <2>. QED
    BY <2>2 DEF Gap
<1>. HIDE DEF i, j
<1>2. Part(old, Done(i), Done(j)) = Text(Part(script, i, j), "delete")
  BY <1>0, <1>1, PartOfText DEF Done
<1>3. Text(Part(script, i, j), "add") = Text(Part(script, i, j), "delete")
  BY <1>0, <1>1, KeptAlike
<1>. QED
  BY <1>2, <1>3 DEF i, j

\* Hunk h adds the lines of the new version from the end of the one before it.
LEMMA UptoIs ==
  ASSUME NEW L, Between(L), NEW H, Sorted(H), NEW h \in 1..H
  PROVE  /\ Upto(h) = Text(Part(script, Closes(h - 1), Closes(h)), "add")
         /\ Closes(h - 1) \in Nat /\ Closes(h) \in Nat
         /\ Closes(h - 1) <= Closes(h) /\ Closes(h) <= Len(script)
<1>. DEFINE g == h - 1
            c == Closes(g)
            o == LastBefore(H, g)
            e == Closes(h)
            X == Operation(L)
<1>0. script \in Seq(X) /\ g \in 0..H /\ g # H /\ g + 1 = h
  BY DEF Between, Sorted
<1>1. o = Opens(h) - 1
  BY <1>0 DEF LastBefore
<1>. HIDE DEF g, X
<1>2. o \in Nat /\ o <= e /\ e \in Nat /\ e <= Len(script)
  <2>1. /\ Opens(h) \in Nat /\ Opens(h) >= 1 /\ Closes(h) \in Nat
        /\ Opens(h) <= Closes(h) /\ Closes(h) <= Len(script)
    BY <1>0, OpensCloses
  <2>. QED
    BY <1>1, <2>1
<1>3. c \in Nat /\ c <= o
  <2>1. Gap(H, g)
    BY <1>0, GapIs
  <2>. QED
    BY <2>1 DEF Gap
<1>4. Resume(g) = Done(c) + 1
  BY <1>0, ResumeIs
<1>5. Hunks[h].oldStart = Done(o) + 1 /\ Hunks[h].ops = Part(script, o, e)
  BY <1>0, <1>1, HunkIs
<1>6. Part(old, Done(c), Done(o)) = Text(Part(script, c, o), "add")
  BY <1>0, BetweenHunks
<1>. HIDE DEF c, o, e
<1>7. Done(o) \in Nat
  <2>1. script \in Seq(Operation(L))
    BY DEF Between
  <2>2. o <= Len(script) /\ o \in Nat
    BY <1>0, <1>2
  <2>. QED
    BY <1>2, <2>1, PartOfText DEF Done
<1>8. Upto(h) = Part(old, Done(c), Done(o)) \o Text(Part(script, o, e), "add")
  <2>1. Upto(h) = SubSeq(old, Resume(g), Hunks[h].oldStart - 1) \o Text(Hunks[h].ops, "add")
    BY DEF Upto, Text, g
  <2>2. Hunks[h].oldStart - 1 = Done(o)
    BY <1>5, <1>7
  <2>3. SubSeq(old, Resume(g), Hunks[h].oldStart - 1) = Part(old, Done(c), Done(o))
    BY <1>4, <2>2 DEF Part
  <2>. QED
    BY <1>5, <2>1, <2>3
<1>9. Text(Part(script, c, o), "add") \o Text(Part(script, o, e), "add") = Text(Part(script, c, e), "add")
  <2>1. script \in Seq(Operation(L))
    BY DEF Between
  <2>2. c \in Nat /\ o \in Nat /\ e \in Nat /\ c <= o /\ o <= e /\ e <= Len(script)
    BY <1>2, <1>3
  <2>. QED
    BY <2>1, <2>2, TextsJoin, SMTT(30)
<1>10. Upto(h) = Text(Part(script, c, e), "add") /\ c \in Nat /\ e \in Nat /\ c <= e /\ e <= Len(script)
  BY <1>2, <1>3, <1>6, <1>8, <1>9
<1>. QED
  BY <1>10 DEF c, e, g

\* P is what the hunks make of the old version, one hunk after the other.
IsPatch(P, D) == P = [h \in D |-> IF h = 0 THEN <<>> ELSE P[h - 1] \o Upto(h)]

\* There is such a function.
LEMMA PatchExists ==
  ASSUME NEW m \in Nat
  PROVE  \E P : IsPatch(P, 0..m)
<1>. DEFINE T == {n \in Nat : \E P : IsPatch(P, 0..n)}
<1>1. 0 \in T
  <2>1. IsPatch([h \in 0..0 |-> <<>>], 0..0)
    BY DEF IsPatch
  <2>. QED
    BY <2>1
<1>2. ASSUME NEW n \in Nat, n \in T PROVE n + 1 \in T
  <2>1. PICK P : IsPatch(P, 0..n)
    BY <1>2
  <2>. DEFINE R == [h \in 0..(n + 1) |-> IF h = 0 THEN <<>> ELSE P[h - 1] \o Upto(h)]
  <2>2. ASSUME NEW h \in 0..n PROVE R[h] = P[h]
    <3>1. P[h] = IF h = 0 THEN <<>> ELSE P[h - 1] \o Upto(h)
      BY <2>1, Zenon DEF IsPatch
    <3>2. h \in 0..(n + 1)
      OBVIOUS
    <3>3. R[h] = IF h = 0 THEN <<>> ELSE P[h - 1] \o Upto(h)
      BY <3>2, Zenon
    <3>. QED
      BY <3>1, <3>3
  <2>3. \A h \in 0..(n + 1) : h # 0 => R[h - 1] = P[h - 1]
    <3>1. ASSUME NEW h \in 0..(n + 1), h # 0 PROVE h - 1 \in 0..n
      BY <3>1
    <3>. QED
      BY <2>2, <3>1
  <2>4. IsPatch(R, 0..(n + 1))
    BY <2>3 DEF IsPatch
  <2>. QED
    BY <2>4
<1>. QED
  <2>. HIDE DEF T
  <2>1. m \in T
    BY <1>1, <1>2, NatInductionBySet
  <2>. QED
    BY <2>1 DEF T

\* After hunk h the new version is there up to its end.
LEMMA PatchIs ==
  ASSUME NEW L, Between(L), NEW H, Sorted(H), NEW P, IsPatch(P, 0..H), NEW h \in 0..H
  PROVE  P[h] = Text(Part(script, 0, Closes(h)), "add")
<1>. DEFINE T == {n \in Nat : n <= H => P[n] = Text(Part(script, 0, Closes(n)), "add")}
<1>0. H \in Nat /\ script \in Seq(Operation(L))
  BY DEF Sorted, Between
<1>1. 0 \in T
  <2>1. 0 \in 0..H
    BY <1>0
  <2>2. P[0] = <<>>
    BY <2>1 DEF IsPatch
  <2>3. Closes(0) = 0
    BY DEF Closes
  <2>4. Part(script, 0, 0) = <<>>
    <3>1. 0 \in 0..Len(script)
      BY <1>0
    <3>. DEFINE X == Operation(L)
    <3>2. script \in Seq(X)
      BY <1>0
    <3>. HIDE DEF X
    <3>. QED
      BY <3>1, <3>2, PartWhole
  <2>5. Text(<<>>, "add") = <<>>
    BY SideOfNothing DEF Text, Lines
  <2>. QED
    BY <2>2, <2>3, <2>4, <2>5
<1>2. ASSUME NEW n \in Nat, n \in T PROVE n + 1 \in T
  <2>. SUFFICES ASSUME n + 1 <= H PROVE P[n + 1] = Text(Part(script, 0, Closes(n + 1)), "add")
    OBVIOUS
  <2>. DEFINE m == n + 1
  <2>1. m \in 1..H /\ m # 0 /\ m - 1 = n /\ m \in 0..H /\ n <= H
    BY <1>0
  <2>2. P[n] = Text(Part(script, 0, Closes(n)), "add")
    BY <1>2, <2>1
  <2>. HIDE DEF m, T
  <2>3. P[m] = IF m = 0 THEN <<>> ELSE P[m - 1] \o Upto(m)
    BY <2>1, Zenon DEF IsPatch
  <2>4. /\ Upto(m) = Text(Part(script, Closes(m - 1), Closes(m)), "add")
        /\ Closes(m - 1) \in Nat /\ Closes(m) \in Nat
        /\ Closes(m - 1) <= Closes(m) /\ Closes(m) <= Len(script)
    BY <2>1, UptoIs
  <2>. DEFINE c == Closes(n)
              e == Closes(m)
  <2>5. P[m] = Text(Part(script, 0, c), "add") \o Text(Part(script, c, e), "add")
    BY <2>1, <2>2, <2>3, <2>4
  <2>6. c \in Nat /\ e \in Nat /\ c <= e /\ e <= Len(script)
    BY <2>1, <2>4
  <2>. HIDE DEF c, e
  <2>7. Text(Part(script, 0, c), "add") \o Text(Part(script, c, e), "add") = Text(Part(script, 0, e), "add")
    <3>1. script \in Seq(Operation(L))
      BY <1>0
    <3>2. c \in Nat /\ e \in Nat /\ c <= e /\ e <= Len(script)
      BY <2>1, <2>6
    <3>. QED
      BY <3>1, <3>2, TextGoesOn
  <2>8. P[m] = Text(Part(script, 0, e), "add")
    BY <2>5, <2>7
  <2>. QED
    BY <2>8 DEF m, e
<1>3. h \in T
  <2>. HIDE DEF T
  <2>1. Nat \subseteq T
    BY <1>1, <1>2, NatInductionBySet
  <2>2. h \in Nat
    BY <1>0
  <2>. QED
    BY <2>1, <2>2
<1>. QED
  BY <1>0, <1>3

\* The hunks of a script between two versions, applied to the one, give the other.
LEMMA HunksApply ==
  ASSUME NEW L, Between(L), NEW P, IsPatch(P, 0..Len(Hunks))
  PROVE  P[Len(Hunks)] \o SubSeq(old, Resume(Len(Hunks)), Len(old)) = new
<1>. DEFINE H == Cardinality(Begins)
            n == Len(script)
            c == Closes(H)
<1>0. script \in Seq(Operation(L)) /\ Text(script, "delete") = old /\ Text(script, "add") = new
  BY DEF Between
<1>1. Sorted(H)
  <2>. DEFINE X == Operation(L)
  <2>1. script \in Seq(X)
    BY <1>0
  <2>. HIDE DEF X
  <2>. QED
    BY <2>1, HunksSorted
<1>. HIDE DEF H
<1>2. H \in Nat /\ Len(Hunks) = H /\ H \in 0..H
  BY <1>1 DEF Sorted
<1>3. P[H] = Text(Part(script, 0, c), "add")
  <2>1. IsPatch(P, 0..H)
    BY <1>2
  <2>. QED
    BY <1>1, <1>2, <2>1, PatchIs
<1>4. c \in Nat /\ c <= n /\ n \in Nat
  <2>. DEFINE X == Operation(L)
  <2>1. script \in Seq(X)
    BY <1>0
  <2>. HIDE DEF X
  <2>2. Gap(H, H)
    BY <1>1, <1>2, <2>1, GapIs
  <2>. QED
    BY <2>2 DEF Gap, LastBefore
<1>5. Resume(H) = Done(c) + 1
  BY <1>1, <1>2, ResumeIs
<1>6. Part(old, Done(c), Done(n)) = Text(Part(script, c, n), "add")
  <2>1. LastBefore(H, H) = n
    BY DEF LastBefore
  <2>2. Part(old, Done(Closes(H)), Done(LastBefore(H, H)))
           = Text(Part(script, Closes(H), LastBefore(H, H)), "add")
    BY <1>1, <1>2, BetweenHunks
  <2>. QED
    BY <2>1, <2>2
<1>7. Part(script, 0, n) = script
  <2>. DEFINE X == Operation(L)
  <2>1. script \in Seq(X)
    BY <1>0
  <2>. HIDE DEF X
  <2>. QED
    BY <2>1, PartWhole
<1>8. Done(n) = Len(old)
  <2>1. Len(Text(script, "delete")) = Len(Side(script, "delete"))
    BY <1>0, TextConcat
  <2>. QED
    BY <1>0, <1>7, <2>1 DEF Done, Before
<1>. HIDE DEF c, n
<1>9. SubSeq(old, Resume(H), Len(old)) = Text(Part(script, c, n), "add")
  BY <1>5, <1>6, <1>8 DEF Part
<1>11. Text(Part(script, 0, c), "add") \o Text(Part(script, c, n), "add") = Text(Part(script, 0, n), "add")
  <2>1. script \in Seq(Operation(L))
    BY <1>0
  <2>2. c \in Nat /\ n \in Nat /\ c <= n /\ n <= Len(script)
    BY <1>4 DEF n
  <2>. QED
    BY <2>1, <2>2, TextGoesOn
<1>. QED
  BY <1>0, <1>2, <1>3, <1>7, <1>9, <1>11

\* A finished script gives hunks that patch the old version.
LEMMA DiffPatches == ASSUME NEW L, DiffOK(L) PROVE HunksPatch
<1>. DEFINE P == CHOOSE Q : IsPatch(Q, 0..Len(Hunks))
<1>1. HunksPatch <=>
        (search = "done" => P[Len(Hunks)] \o SubSeq(old, Resume(Len(Hunks)), Len(old)) = new)
  BY DEF HunksPatch, IsPatch
<1>2. ASSUME search = "done"
      PROVE  P[Len(Hunks)] \o SubSeq(old, Resume(Len(Hunks)), Len(old)) = new
  <2>1. Between(L)
    BY <1>2 DEF DiffOK, Finished, Between
  <2>2. Len(Hunks) \in Nat
    <3>. DEFINE X == Operation(L)
    <3>1. script \in Seq(X)
      BY <2>1 DEF Between
    <3>. HIDE DEF X
    <3>2. Sorted(Cardinality(Begins))
      BY <3>1, HunksSorted
    <3>. QED
      BY <3>2 DEF Sorted
  <2>3. IsPatch(P, 0..Len(Hunks))
    BY <2>2, PatchExists
  <2>. HIDE DEF P
  <2>. QED
    BY <2>1, <2>3, HunksApply
<1>. QED
  BY <1>1, <1>2

\* The unified diff a delta is shown as patches the earlier version of an item into the
\* item, for every family of items.
THEOREM PatchingHunks == Spec => []HunksPatch
<1>1. DiffInv => HunksPatch
  BY DiffPatches DEF DiffInv
<1>2. DiffInv /\ [Next]_vars => DiffInv'
  BY DiffInvKept
<1>. QED
  BY <1>1, <1>2, DiffInvInit, PTL DEF Spec
=============================================================================

--------------------------- MODULE BodySpliceProofs ---------------------------
(***************************************************************************)
(* Where the scan declines and the texts are searched for in the bytes,    *)
(* markers are written together or not at all, one for each message        *)
(* replaced, in their order, and each over bytes that read as its message. *)
(*                                                                         *)
(* The cursor moves forward only: what was overwritten lies behind it and  *)
(* is for messages passed by, and what is found next lies ahead of it.     *)
(* That a text so found is where the message says it is not true, and is   *)
(* not claimed.                                                            *)
(***************************************************************************)
EXTENDS BodySplice, OperatorLemmas

\* Ranges of a body of l marks for messages up to n.
Ranges(l, n) == [start : 1..l, end : 1..(l + 1), message : 1..n]

\* The ranges e of the marks s are one for each message of rep before n, in their
\* order and before c; each reads as its message, whose encoded text is t[message].
Behind(e, t, s, rep, n, c) ==
  /\ {e[k].message : k \in DOMAIN e} = {m \in rep : m < n}
  /\ \A k \in DOMAIN e :
       /\ SubSeq(s, e[k].start, e[k].end - 1) = t[e[k].message]
       /\ e[k].message < n /\ e[k].end <= c
  /\ \A j, k \in DOMAIN e : j < k => e[j].message < e[k].message /\ e[j].end <= e[k].start

EncodedTexts == [m \in Entries |-> Encoded(TextOf(m))]

SpliceInv ==
  /\ TypeOK
  /\ phase \in {"scan", "search"} /\ entry = 0 => IncludeSystem
  /\ phase = "scan" => edits = <<>> /\ entry \in {0, 1}
  /\ phase = "search" => Behind(edits, EncodedTexts, raw, replaced, entry, cursor)
  /\ WholeAndInPlace

-----------------------------------------------------------------------------
(* Texts and their encodings are sequences of marks.                       *)

\* All marks; those the writing of a body adds are spelled out.
Alphabet == STRING \cup {Quote, Escape, ",", ":", "{", "}", "[", "]", "null", "messages"}

\* Encoding and decoding put together pieces of one mark, of two, or of none.
LEMMA PiecesJoin ==
  ASSUME NEW X, NEW n \in Int, NEW f, \A i \in 1..n : f[i] \in Seq(X)
  PROVE  FlattenSeq([i \in 1..n |-> f[i]]) \in Seq(X)
<1>. DEFINE s == [i \in 1..n |-> f[i]]
<1>1. s \in Seq(Seq(X))
  <2>1. CASE n \in Nat
    BY <2>1
  <2>2. CASE n \notin Nat
    <3>1. 1..n = 1..0
      BY <2>2
    <3>2. s = [i \in 1..0 |-> f[i]]
      BY <3>1
    <3>. QED
      BY <3>2
  <2>. QED
    BY <2>1, <2>2
<1>. HIDE DEF s
<1>2. Len(s) \in 0..Len(s)
  BY <1>1
<1>3. Joined(s, Len(s)) \in Seq(X) /\ Joined(s, Len(s)) = FlattenSeq(s)
  BY <1>1, <1>2, JoinedType, JoinedEnds
<1>. QED
  BY <1>3 DEF s

\* One mark is a sequence of marks, and so are two.
LEMMA OneOrTwo ==
  ASSUME NEW X, NEW x \in X, NEW y \in X
  PROVE  <<>> \in Seq(X) /\ <<x>> \in Seq(X) /\ <<x, y>> \in Seq(X)
OBVIOUS

\* Sequences over a set are ones over a larger set.
LEMMA SequencesGrow == ASSUME NEW X, NEW Y, X \subseteq Y PROVE Seq(X) \subseteq Seq(Y)
<1>. SUFFICES ASSUME NEW s \in Seq(X) PROVE s \in Seq(Y)
  OBVIOUS
<1>1. s \in [1..Len(s) -> Y] /\ Len(s) \in Nat
  OBVIOUS
<1>. QED
  BY <1>1

\* What a sequence of marks spells is one.
LEMMA DecodedType == ASSUME NEW s \in Seq(Alphabet) PROVE Decoded(s) \in Seq(Alphabet)
<1>. DEFINE f == [i \in 1..(Len(s) - 2) |-> IF Introduces(s, i + 1) THEN <<>> ELSE <<s[i + 1]>>]
<1>1. Len(s) - 2 \in Int
  OBVIOUS
<1>2. ASSUME NEW i \in 1..(Len(s) - 2) PROVE f[i] \in Seq(Alphabet)
  <2>1. s[i + 1] \in Alphabet
    OBVIOUS
  <2>2. <<>> \in Seq(Alphabet) /\ <<s[i + 1]>> \in Seq(Alphabet)
    BY <2>1, OneOrTwo
  <2>. QED
    BY <2>2
<1>3. f = [i \in 1..(Len(s) - 2) |-> f[i]]
  OBVIOUS
<1>. HIDE DEF f
<1>4. FlattenSeq(f) \in Seq(Alphabet)
  BY <1>1, <1>2, <1>3, PiecesJoin
<1>. QED
  BY <1>4 DEF f, Decoded

\* The encoding of a text is a sequence of marks.
LEMMA EncodedType == ASSUME NEW s \in Seq(Alphabet) PROVE Encoded(s) \in Seq(Alphabet)
<1>. DEFINE f == [i \in DOMAIN s |-> IF s[i] \in {Quote, Escape} THEN <<Escape, s[i]>> ELSE <<s[i]>>]
<1>1. DOMAIN s = 1..Len(s) /\ Len(s) \in Int
  OBVIOUS
<1>0. Escape \in Alphabet /\ Quote \in Alphabet
  BY DEF Alphabet
<1>2. ASSUME NEW i \in 1..Len(s) PROVE f[i] \in Seq(Alphabet)
  <2>1. s[i] \in Alphabet
    OBVIOUS
  <2>2. <<Escape, s[i]>> \in Seq(Alphabet) /\ <<s[i]>> \in Seq(Alphabet)
    BY <1>0, <2>1, OneOrTwo
  <2>. QED
    BY <1>1, <2>2
<1>3. f = [i \in 1..Len(s) |-> f[i]]
  BY <1>1
<1>. HIDE DEF f
<1>4. FlattenSeq(f) \in Seq(Alphabet)
  BY <1>1, <1>2, <1>3, PiecesJoin
<1>5. <<Quote>> \in Seq(Alphabet)
  BY <1>0, OneOrTwo
<1>6. \A x, y \in Seq(Alphabet) : x \o y \in Seq(Alphabet)
  OBVIOUS
<1>7. <<Quote>> \o FlattenSeq(f) \o <<Quote>> \in Seq(Alphabet)
  BY <1>4, <1>5, <1>6
<1>. QED
  BY <1>7 DEF f, Encoded

\* It has at least its quotes.
LEMMA EncodedNotEmpty == ASSUME NEW s \in Seq(Alphabet) PROVE Len(Encoded(s)) > 0
<1>. DEFINE f == FlattenSeq([i \in DOMAIN s |-> IF s[i] \in {Quote, Escape} THEN <<Escape, s[i]>> ELSE <<s[i]>>])
<1>1. Encoded(s) = <<Quote>> \o f \o <<Quote>>
  BY DEF Encoded
<1>. QED
  BY <1>1

\* There is a last member of a name that is given.
LEMMA LastNamed ==
  ASSUME NEW members \in Seq(Members(STRING)), NEW name, Named(members, name) # {}
  PROVE  members[Max(Named(members, name))].value \in Seq(Alphabet)
<1>. DEFINE N == Named(members, name)
<1>1. N \subseteq 1..Len(members) /\ Len(members) \in Nat
  BY DEF Named
<1>2. IsFiniteSet(N) /\ N \subseteq Nat
  <2>1. IsFiniteSet(1..Len(members)) /\ 1..Len(members) \subseteq Nat
    BY <1>1, FS_Interval
  <2>. HIDE DEF N
  <2>. QED
    BY <1>1, <2>1, FS_Subset
<1>3. PICK m \in N : \A n \in N : n <= m
  <2>. HIDE DEF N
  <2>. QED
    BY <1>2, GreatestNatural DEF N
<1>4. Max(N) \in N
  <2>. HIDE DEF N
  <2>1. m \in N /\ \A n \in N : m >= n
    BY <1>2, <1>3
  <2>. QED
    BY <2>1 DEF Max
<1>5. members[Max(N)] \in Members(STRING)
  <2>1. Max(N) \in 1..Len(members)
    BY Zenon, <1>1, <1>4
  <2>2. \A i \in 1..Len(members) : members[i] \in Members(STRING)
    <3>. DEFINE T == Members(STRING)
    <3>. HIDE DEF T
    <3>1. members \in Seq(T)
      BY DEF T
    <3>2. \A i \in 1..Len(members) : members[i] \in T
      BY <3>1
    <3>. QED
      BY <3>2 DEF T
  <2>. QED
    BY Zenon, <2>1, <2>2
<1>6. Seq(STRING) \subseteq Seq(Alphabet)
  <2>1. STRING \subseteq Alphabet
    BY DEF Alphabet
  <2>. QED
    BY <2>1, SequencesGrow
<1>. QED
  BY <1>5, <1>6 DEF Members

\* The text of every entry is a sequence of marks.
LEMMA TextType ==
  ASSUME body \in Bodies, NEW m \in Entries, m = 0 => IncludeSystem
  PROVE  TextOf(m) \in Seq(Alphabet) /\ Encoded(TextOf(m)) \in Seq(Alphabet)
<1>1. /\ body.before \in Seq(Members(STRING)) /\ body.after \in Seq(Members(STRING))
      /\ body.messages \in Seq(Seq(Members(STRING)))
      /\ \A n \in DOMAIN body.messages : body.messages[n] # Null => Named(body.messages[n], "content") # {}
  BY SpliceAssumption
<1>2. \A v \in Seq(Alphabet) : Flattened(v) \in Seq(Alphabet)
  BY DecodedType DEF Flattened
<1>3. CASE m = 0
  <2>1. RootMembers \in Seq(Members(STRING))
    BY <1>1 DEF RootMembers
  <2>2. Named(RootMembers, "system") # {}
    BY <1>3 DEF IncludeSystem
  <2>3. SystemValue \in Seq(Alphabet)
    BY <2>1, <2>2, LastNamed DEF SystemValue
  <2>4. TextOf(m) = Flattened(SystemValue)
    <3>1. m \notin Messages
      BY <1>1, <1>3 DEF Messages
    <3>. QED
      BY <1>3, <3>1 DEF TextOf, Holes
  <2>. QED
    BY <1>2, <2>3, <2>4, EncodedType
<1>4. CASE m # 0
  <2>1. m \in Messages /\ Messages = 1..Len(body.messages) /\ 0 \notin Messages
    BY <1>1, <1>4 DEF Entries, Messages
  <2>2. CASE m \in Holes
    <3>1. TextOf(m) = <<>> /\ <<>> \in Seq(Alphabet)
      BY <1>4, <2>2 DEF TextOf
    <3>. QED
      BY <3>1, EncodedType
  <2>3. CASE m \notin Holes
    <3>1. body.messages[m] \in Seq(Members(STRING)) /\ Named(body.messages[m], "content") # {}
      BY <1>1, <2>1, <2>3 DEF Holes, Messages
    <3>2. ContentOf(m) \in Seq(Alphabet)
      BY <3>1, LastNamed DEF ContentOf
    <3>3. TextOf(m) = Flattened(ContentOf(m))
      BY <1>4, <2>1, <2>3 DEF TextOf
    <3>. QED
      BY <1>2, <3>2, <3>3, EncodedType
  <2>. QED
    BY <2>2, <2>3
<1>. QED
  BY <1>3, <1>4

\* The messages of a body are numbered.
LEMMA MessagesAre ==
  ASSUME body \in Bodies
  PROVE  Len(body.messages) \in Nat /\ Messages = 1..Len(body.messages)
<1>1. body.messages \in Seq(Seq(Members(STRING)))
  BY SpliceAssumption
<1>. QED
  BY <1>1 DEF Messages

\* Pieces listed with commas, or put together, are a sequence of marks.
LEMMA ListedType == ASSUME NEW n \in Nat, NEW f, \A i \in 1..n : f[i] \in Seq(Alphabet)
                    PROVE  Listed([i \in 1..n |-> f[i]]) \in Seq(Alphabet)
<1>. DEFINE s == [i \in 1..n |-> f[i]]
            g == [i \in 1..n |-> (IF i = 1 THEN <<>> ELSE <<",">>) \o s[i]]
<1>1. ASSUME NEW i \in 1..n PROVE g[i] \in Seq(Alphabet)
  <2>1. f[i] \in Seq(Alphabet) /\ s[i] = f[i]
    OBVIOUS
  <2>2. <<>> \in Seq(Alphabet) /\ <<",">> \in Seq(Alphabet)
    <3>1. "," \in Alphabet
      BY DEF Alphabet
    <3>. QED
      BY <3>1, OneOrTwo
  <2>3. \A x, y \in Seq(Alphabet) : x \o y \in Seq(Alphabet)
    OBVIOUS
  <2>4. (IF i = 1 THEN <<>> ELSE <<",">>) \in Seq(Alphabet)
    BY <2>2
  <2>. QED
    BY <2>1, <2>3, <2>4
<1>2. g = [i \in 1..n |-> g[i]] /\ DOMAIN s = 1..n
  OBVIOUS
<1>. HIDE DEF g
<1>3. FlattenSeq(g) \in Seq(Alphabet)
  BY <1>1, <1>2, PiecesJoin
<1>. QED
  BY <1>2, <1>3 DEF Listed, g

\* An object is written as a sequence of marks.
LEMMA ObjectType == ASSUME NEW members \in Seq(Members(Alphabet)) PROVE Object(members) \in Seq(Alphabet)
<1>. DEFINE f == [i \in DOMAIN members |-> members[i].key \o <<":">> \o members[i].value]
            n == Len(members)
<1>1. n \in Nat /\ DOMAIN members = 1..n
  OBVIOUS
<1>2. \A x \in {"{", "}", ":"} : <<x>> \in Seq(Alphabet)
  <2>1. {"{", "}", ":"} \subseteq Alphabet
    BY DEF Alphabet
  <2>. QED
    BY <2>1, OneOrTwo
<1>3. \A x, y \in Seq(Alphabet) : x \o y \in Seq(Alphabet)
  OBVIOUS
<1>4. ASSUME NEW i \in 1..n PROVE f[i] \in Seq(Alphabet)
  <2>1. members[i] \in Members(Alphabet)
    <3>. DEFINE T == Members(Alphabet)
    <3>1. members \in Seq(T)
      OBVIOUS
    <3>. HIDE DEF T
    <3>2. members[i] \in T
      BY <3>1
    <3>. QED
      BY <3>2 DEF T
  <2>2. members[i].key \in Seq(Alphabet) /\ members[i].value \in Seq(Alphabet)
    BY <2>1 DEF Members
  <2>3. members[i].key \o <<":">> \o members[i].value \in Seq(Alphabet)
    BY <1>2, <1>3, <2>2
  <2>. QED
    BY <1>1, <2>3
<1>5. f = [i \in 1..n |-> f[i]]
  BY <1>1
<1>. HIDE DEF f
<1>6. Listed(f) \in Seq(Alphabet)
  BY <1>1, <1>4, <1>5, ListedType
<1>7. <<"{">> \o Listed(f) \o <<"}">> \in Seq(Alphabet)
  BY <1>2, <1>3, <1>6
<1>. QED
  BY <1>7 DEF Object, f

\* And so is a body.
LEMMA RenderedType == ASSUME NEW b \in Bodies PROVE Rendered(b) \in Seq(Alphabet)
<1>. DEFINE M == Members(Alphabet)
            message(m) == IF b.messages[m] = Null THEN <<"null">> ELSE Object(b.messages[m])
            f    == [m \in DOMAIN b.messages |-> message(m)]
            n    == Len(b.messages)
            list == <<"[">> \o Listed(f) \o <<"]">>
            this == [key |-> Encoded(<<"messages">>), value |-> list]
<1>1. /\ b.before \in Seq(Members(STRING)) /\ b.after \in Seq(Members(STRING))
      /\ b.messages \in Seq(Seq(Members(STRING)))
  BY SpliceAssumption
<1>2. Members(STRING) \subseteq M
  <2>1. STRING \subseteq Alphabet
    BY DEF Alphabet
  <2>2. Seq(STRING) \subseteq Seq(Alphabet)
    BY <2>1, SequencesGrow
  <2>. QED
    BY <2>2 DEF Members
<1>3. Seq(Members(STRING)) \subseteq Seq(M)
  <2>. HIDE DEF M
  <2>. QED
    BY <1>2, SequencesGrow
<1>4. n \in Nat /\ DOMAIN b.messages = 1..n /\ \A m \in 1..n : b.messages[m] \in Seq(M)
  <2>1. n \in Nat /\ DOMAIN b.messages = 1..n /\ \A m \in 1..n : b.messages[m] \in Seq(Members(STRING))
    BY <1>1
  <2>. HIDE DEF M
  <2>. QED
    BY <1>3, <2>1
<1>5. \A x \in {"null", "[", "]", "messages"} : <<x>> \in Seq(Alphabet)
  <2>1. {"null", "[", "]", "messages"} \subseteq Alphabet
    BY DEF Alphabet
  <2>. QED
    BY <2>1, OneOrTwo
<1>6. \A x, y \in Seq(Alphabet) : x \o y \in Seq(Alphabet)
  OBVIOUS
<1>7. ASSUME NEW m \in 1..n PROVE f[m] \in Seq(Alphabet)
  <2>1. Object(b.messages[m]) \in Seq(Alphabet)
    BY <1>4, ObjectType
  <2>. QED
    BY <1>4, <1>5, <2>1
<1>8. f = [m \in 1..n |-> f[m]]
  BY <1>4
<1>9. list \in Seq(Alphabet)
  <2>. HIDE DEF f, n
  <2>1. Listed(f) \in Seq(Alphabet)
    BY <1>4, <1>7, <1>8, ListedType
  <2>. QED
    BY <1>5, <1>6, <2>1
<1>10. this \in M
  <2>1. Encoded(<<"messages">>) \in Seq(Alphabet)
    BY <1>5, EncodedType
  <2>. HIDE DEF list
  <2>. QED
    BY <1>9, <2>1 DEF Members
<1>11. b.before \o <<this>> \o b.after \in Seq(M)
  <2>. HIDE DEF M, this
  <2>. QED
    BY <1>1, <1>3, <1>10
<1>12. Object(b.before \o <<this>> \o b.after) \in Seq(Alphabet)
  <2>. HIDE DEF this
  <2>. QED
    BY <1>11, ObjectType
<1>. QED
  BY <1>12 DEF Rendered

-----------------------------------------------------------------------------
(* The search.                                                             *)

\* The texts are the body's.
LEMMA TextsStay == ASSUME body' = body PROVE EncodedTexts' = EncodedTexts
BY DEF EncodedTexts, Entries, TextOf, Holes, Messages, ContentOf, SystemValue, RootMembers

\* At first nothing is overwritten.
LEMMA InitHolds == ASSUME Init, Len(raw) \in Nat PROVE SpliceInv
<1>1. /\ body \in Bodies /\ raw = Rendered(body) /\ phase = "scan" /\ cursor = 1 /\ edits = <<>>
      /\ replaced \subseteq Elidable /\ entry \in {0, 1} /\ (entry = 0 => IncludeSystem)
  BY DEF Init
<1>2. replaced \subseteq Messages /\ Len(body.messages) \in Nat /\ Messages = 1..Len(body.messages)
  BY <1>1, MessagesAre DEF Elidable
<1>3. TypeOK
  <2>1. cursor \in 1..(Len(raw) + 1) /\ entry \in 0..(Len(body.messages) + 1)
    BY <1>1, <1>2
  <2>2. edits \in Seq([start : 1..Len(raw), end : 1..(Len(raw) + 1), message : Messages])
    BY <1>1
  <2>. QED
    BY <1>1, <1>2, <2>1, <2>2 DEF TypeOK
<1>4. WholeAndInPlace
  BY <1>1 DEF WholeAndInPlace
<1>. QED
  BY <1>1, <1>3, <1>4 DEF SpliceInv

Grown(e, rep, m, a, b, f) == f = IF m \in rep THEN Append(e, [start |-> a, end |-> b, message |-> m]) ELSE e

\* One more range behind the cursor, for the next message if it was replaced.
LEMMA BehindGrows ==
  ASSUME NEW l \in Nat, NEW n \in Nat, NEW e \in Seq(Ranges(l, n)), NEW t, NEW s, NEW rep \in SUBSET (1..n),
         NEW m \in 0..n, NEW c \in 1..(l + 1), NEW a \in 1..l, NEW b \in 1..(l + 1), c <= a, a < b,
         SubSeq(s, a, b - 1) = t[m], Behind(e, t, s, rep, m, c), NEW f, Grown(e, rep, m, a, b, f)
  PROVE  f \in Seq(Ranges(l, n)) /\ Behind(f, t, s, rep, m + 1, b)
<1>. DEFINE R == Ranges(l, n)
            this == [start |-> a, end |-> b, message |-> m]
<1>0. m \in Int /\ \A x \in rep : x \in Int
  OBVIOUS
<1>1. \A r \in R : r.start \in Int /\ r.end \in Int /\ r.message \in Int
  BY DEF Ranges
<1>2. Len(e) \in Nat /\ DOMAIN e = 1..Len(e) /\ \A k \in DOMAIN e : e[k] \in R
  <2>. HIDE DEF R
  <2>1. e \in Seq(R)
    BY DEF R
  <2>. QED
    BY <2>1
<1>3. \A k \in DOMAIN e : e[k].message < m + 1 /\ e[k].end <= b
  <2>. SUFFICES ASSUME NEW k \in DOMAIN e PROVE e[k].message < m + 1 /\ e[k].end <= b
    OBVIOUS
  <2>1. e[k].message < m /\ e[k].end <= c /\ e[k].message \in Int /\ e[k].end \in Int
    BY <1>1, <1>2 DEF Behind
  <2>. QED
    BY <2>1
<1>4. CASE m \notin rep
  <2>1. f = e /\ {x \in rep : x < m + 1} = {x \in rep : x < m}
    <3>1. \A x \in rep : x < m + 1 <=> x < m
      BY <1>0, <1>4
    <3>. QED
      BY <1>4, <3>1 DEF Grown
  <2>. QED
    BY <1>3, <2>1 DEF Behind
<1>5. CASE m \in rep
  <2>1. this \in R /\ this.start = a /\ this.end = b /\ this.message = m
    BY <1>5 DEF Ranges
  <2>2. f = Append(e, this)
    BY <1>5 DEF Grown
  <2>. HIDE DEF this, R
  <2>3. /\ f \in Seq(R) /\ DOMAIN f = 1..(Len(e) + 1)
        /\ f[Len(e) + 1] = this /\ \A k \in DOMAIN e : f[k] = e[k]
    <3>1. e \in Seq(R)
      BY DEF R
    <3>. QED
      BY <1>2, <2>1, <2>2, <3>1
  <2>4. \A k \in DOMAIN f : k \in DOMAIN e \/ k = Len(e) + 1
    BY <1>2, <2>3
  <2>5. {f[k].message : k \in DOMAIN f} = {x \in rep : x < m + 1}
    <3>1. {f[k].message : k \in DOMAIN f} = {e[k].message : k \in DOMAIN e} \cup {m}
      <4>1. \A k \in DOMAIN e : k \in DOMAIN f /\ f[k].message = e[k].message
        BY <1>2, <2>3
      <4>2. Len(e) + 1 \in DOMAIN f /\ f[Len(e) + 1].message = m
        BY <1>2, <2>1, <2>3
      <4>3. ASSUME NEW x PROVE x \in {f[k].message : k \in DOMAIN f} <=> x \in {e[k].message : k \in DOMAIN e} \cup {m}
        BY <2>4, <4>1, <4>2
      <4>. QED
        BY <4>3
    <3>2. {x \in rep : x < m + 1} = {x \in rep : x < m} \cup {m}
      <4>1. \A x \in rep : x < m + 1 <=> x < m \/ x = m
        BY <1>0
      <4>. QED
        BY Zenon, <1>5, <4>1
    <3>. QED
      BY <3>1, <3>2 DEF Behind
  <2>6. ASSUME NEW k \in DOMAIN f
        PROVE  SubSeq(s, f[k].start, f[k].end - 1) = t[f[k].message] /\ f[k].message < m + 1 /\ f[k].end <= b
    <3>1. CASE k \in DOMAIN e
      BY <1>3, <2>3, <3>1 DEF Behind
    <3>2. CASE k = Len(e) + 1
      <4>1. f[k].start = a /\ f[k].end = b /\ f[k].message = m
        BY <2>1, <2>3, <3>2
      <4>2. m < m + 1 /\ b <= b
        OBVIOUS
      <4>. QED
        BY <4>1, <4>2
    <3>. QED
      BY <2>4, <3>1, <3>2
  <2>7. ASSUME NEW j \in DOMAIN f, NEW k \in DOMAIN f, j < k
        PROVE  f[j].message < f[k].message /\ f[j].end <= f[k].start
    <3>1. j \in DOMAIN e /\ f[j] = e[j]
      BY <1>2, <2>3, <2>7
    <3>2. CASE k \in DOMAIN e
      BY <2>3, <2>7, <3>1, <3>2 DEF Behind
    <3>3. CASE k = Len(e) + 1
      <4>1. e[j].message < m /\ e[j].end <= c /\ e[j].end \in Int
        BY <1>1, <1>2, <3>1 DEF Behind
      <4>2. e[j].end <= a
        BY <4>1
      <4>. QED
        BY <2>1, <2>3, <3>1, <3>3, <4>1, <4>2
    <3>. QED
      BY <2>4, <3>2, <3>3
  <2>8. Behind(f, t, s, rep, m + 1, b)
    BY <2>5, <2>6, <2>7 DEF Behind
  <2>. QED
    BY <2>3, <2>8 DEF R
<1>. QED
  BY <1>4, <1>5

\* The search goes on from what is found next, which lies ahead of the cursor.
LEMMA HitKeeps == ASSUME SpliceInv, Len(raw) \in Nat, SearchHit PROVE SpliceInv'
<1>. DEFINE text == Encoded(TextOf(entry))
            at   == Min(Hits)
            n    == Len(body.messages)
<1>1. /\ phase = "search" /\ entry \in Entries /\ Hits # {} /\ cursor' = at + Len(text) /\ entry' = entry + 1
      /\ edits' = IF entry \in replaced THEN Append(edits, [start |-> at, end |-> cursor', message |-> entry]) ELSE edits
      /\ UNCHANGED <<body, raw, replaced, phase>>
  BY DEF SearchHit, Edit
<1>2. /\ body \in Bodies /\ raw = Rendered(body) /\ replaced \subseteq Messages
      /\ cursor \in 1..(Len(raw) + 1)
      /\ edits \in Seq([start : 1..Len(raw), end : 1..(Len(raw) + 1), message : Messages])
      /\ (entry = 0 => IncludeSystem)
      /\ Behind(edits, EncodedTexts, raw, replaced, entry, cursor)
  BY <1>1 DEF SpliceInv, TypeOK
<1>3. n \in Nat /\ Messages = 1..n /\ Entries = 0..n
  BY <1>2, MessagesAre DEF Entries
<1>4. text \in Seq(Alphabet) /\ Len(text) \in Nat /\ Len(text) > 0
  <2>1. text \in Seq(Alphabet)
    BY <1>1, <1>2, TextType
  <2>2. TextOf(entry) \in Seq(Alphabet)
    BY <1>1, <1>2, TextType
  <2>3. Len(text) > 0
    BY <2>2, EncodedNotEmpty
  <2>. QED
    BY <2>1, <2>3
<1>5. /\ at \in Nat /\ cursor <= at /\ at + Len(text) <= Len(raw) + 1
      /\ SubSeq(raw, at, at + Len(text) - 1) = text
  <2>1. \A i \in Hits : /\ i \in Nat /\ cursor <= i /\ i <= Len(raw) + 1 - Len(text)
                        /\ SubSeq(raw, i, i + Len(text) - 1) = text
    BY <1>2, <1>4 DEF Hits
  <2>2. PICK m \in Hits : \A h \in Hits : m <= h
    BY <1>1, <2>1, LeastNatural
  <2>3. at \in Hits
    BY <2>2 DEF Min
  <2>. QED
    BY <1>4, <2>1, <2>3
<1>6. EncodedTexts[entry] = text
  BY <1>1 DEF EncodedTexts
<1>. HIDE DEF at, text, n
<1>7. cursor' \in 1..(Len(raw) + 1) /\ at < cursor' /\ at \in 1..Len(raw)
  BY <1>1, <1>2, <1>4, <1>5
<1>8. edits \in Seq(Ranges(Len(raw), n)) /\ replaced \in SUBSET (1..n) /\ entry \in 0..n
  BY <1>1, <1>2, <1>3 DEF Ranges
<1>9. edits' \in Seq(Ranges(Len(raw), n)) /\ Behind(edits', EncodedTexts, raw, replaced, entry + 1, cursor')
  <2>1. SubSeq(raw, at, cursor' - 1) = EncodedTexts[entry]
    BY <1>1, <1>5, <1>6
  <2>2. edits' \in Seq(Ranges(Len(raw), n)) /\ Behind(edits', EncodedTexts, raw, replaced, entry + 1, cursor')
    <3>1. Grown(edits, replaced, entry, at, cursor', edits')
      BY <1>1 DEF Grown
    <3>. QED
      BY <1>2, <1>3, <1>5, <1>7, <1>8, <2>1, <3>1, BehindGrows
  <2>. QED
    BY <2>2
<1>10. EncodedTexts' = EncodedTexts
  BY <1>1, TextsStay
<1>11. entry' \in 0..(n + 1) /\ entry' # 0 /\ n' = n /\ Messages' = Messages
  BY <1>1, <1>3 DEF n, Messages
<1>12. TypeOK'
  <2>1. entry' \in 0..(Len(body'.messages) + 1)
    BY <1>1, <1>11 DEF n
  <2>2. edits' \in Seq([start : 1..Len(raw'), end : 1..(Len(raw') + 1), message : Messages'])
    BY <1>1, <1>3, <1>9, <1>11 DEF Ranges
  <2>. QED
    BY <1>1, <1>2, <1>7, <1>11, <2>1, <2>2 DEF TypeOK
<1>13. WholeAndInPlace'
  BY <1>1 DEF WholeAndInPlace
<1>. QED
  BY <1>1, <1>9, <1>10, <1>11, <1>12, <1>13 DEF SpliceInv

\* Every other step.
LEMMA OthersKeep ==
  ASSUME SpliceInv, Len(raw) \in Nat, ScanDeclines \/ SpliceBySpans \/ SearchMiss \/ SearchEnds PROVE SpliceInv'
<1>1. UNCHANGED <<body, raw, replaced, entry, cursor>> /\ Messages' = Messages
  BY DEF ScanDeclines, SpliceBySpans, SearchMiss, SearchEnds, Messages
<1>2. EncodedTexts' = EncodedTexts /\ TypeOK
  BY <1>1, TextsStay DEF SpliceInv
<1>3. CASE ScanDeclines
  <2>1. phase = "scan" /\ phase' = "search" /\ edits' = edits /\ edits = <<>> /\ entry \in {0, 1}
    BY <1>3 DEF ScanDeclines, SpliceInv
  <2>2. Behind(edits', EncodedTexts', raw', replaced', entry', cursor')
    <3>1. {m \in replaced : m < entry} = {}
      BY <1>2, <2>1, MessagesAre DEF TypeOK
    <3>. QED
      BY <1>1, <2>1, <3>1 DEF Behind
  <2>3. TypeOK'
    BY <1>1, <1>2, <2>1 DEF TypeOK
  <2>4. entry' = 0 => IncludeSystem'
    BY <1>1, <2>1 DEF SpliceInv, IncludeSystem, RootMembers, SystemValue
  <2>5. WholeAndInPlace'
    BY <2>1 DEF WholeAndInPlace
  <2>. QED
    BY <2>1, <2>2, <2>3, <2>4, <2>5 DEF SpliceInv
<1>4. CASE SpliceBySpans
  <2>1. phase' = "spliced"
    BY <1>4 DEF SpliceBySpans
  <2>. QED
    BY <1>1, <1>2, <2>1 DEF SpliceInv, TypeOK, WholeAndInPlace
<1>5. CASE SearchMiss \/ SearchEnds
  <2>1. phase = "search" /\ phase' = "searched" /\ (edits' = <<>> \/ (edits' = edits /\ entry \notin Entries))
    BY <1>5 DEF SearchMiss, SearchEnds, MissedEdits
  <2>2. TypeOK'
    <3>. DEFINE R == [start : 1..Len(raw), end : 1..(Len(raw) + 1), message : Messages]
    <3>0. edits \in Seq(R)
      BY <1>2, <2>1 DEF TypeOK
    <3>1. edits' \in Seq(R)
      <4>1. <<>> \in Seq(R)
        OBVIOUS
      <4>. HIDE DEF R
      <4>. QED
        BY <2>1, <3>0, <4>1
    <3>. QED
      BY <1>1, <1>2, <2>1, <3>1 DEF TypeOK
  <2>3. WholeAndInPlace'
    <3>1. CASE edits' = <<>>
      BY <3>1 DEF WholeAndInPlace
    <3>2. CASE edits' # <<>>
      <4>1. edits' = edits /\ entry \notin Entries /\ Behind(edits, EncodedTexts, raw, replaced, entry, cursor)
        BY <2>1, <3>2 DEF SpliceInv
      <4>2. Len(body.messages) \in Nat /\ Messages = 1..Len(body.messages) /\ body \in Bodies
        BY <1>2, MessagesAre DEF TypeOK
      <4>3. {m \in replaced : m < entry} = replaced
        <5>1. entry = Len(body.messages) + 1 /\ replaced \subseteq 1..Len(body.messages)
          BY <1>2, <4>1, <4>2 DEF TypeOK, Entries
        <5>2. \A m \in replaced : m < entry
          BY <4>2, <5>1
        <5>. QED
          BY <5>2
      <4>4. ASSUME NEW k \in DOMAIN edits
            PROVE  SubSeq(raw', edits'[k].start, edits'[k].end - 1) = Encoded(TextOf(edits[k].message))'
        <5>1. edits[k].message \in replaced
          BY <4>1, <4>3 DEF Behind
        <5>2. edits[k].message \in Entries
          BY <1>2, <4>2, <5>1 DEF TypeOK, Entries
        <5>3. EncodedTexts[edits[k].message] = Encoded(TextOf(edits[k].message))
          BY <5>2 DEF EncodedTexts
        <5>4. SubSeq(raw, edits[k].start, edits[k].end - 1) = Encoded(TextOf(edits[k].message))
          BY <4>1, <5>3 DEF Behind
        <5>5. Encoded(TextOf(edits[k].message))' = Encoded(TextOf(edits[k].message))
          BY <1>1, <4>1 DEF TextOf, Holes, Messages, ContentOf, SystemValue, RootMembers
        <5>. QED
          BY <1>1, <4>1, <5>4, <5>5
      <4>. QED
        BY <1>1, <4>1, <4>3, <4>4 DEF WholeAndInPlace, Behind
    <3>. QED
      BY <3>1, <3>2
  <2>. QED
    BY <2>1, <2>2, <2>3 DEF SpliceInv
<1>. QED
  BY <1>3, <1>4, <1>5

-----------------------------------------------------------------------------

\* The invariant holds at first and every step keeps it.
LEMMA InvHolds == Spec => []SpliceInv
<1>1. ASSUME body \in Bodies, raw = Rendered(body) PROVE Len(raw) \in Nat
  <2>1. raw \in Seq(Alphabet)
    BY <1>1, RenderedType
  <2>. QED
    BY <2>1
<1>2. Init => SpliceInv
  BY <1>1, InitHolds DEF Init
<1>3. SpliceInv /\ [Next]_vars => SpliceInv'
  <2>. SUFFICES ASSUME SpliceInv, [Next]_vars PROVE SpliceInv'
    OBVIOUS
  <2>1. Len(raw) \in Nat
    BY <1>1 DEF SpliceInv, TypeOK
  <2>2. CASE UNCHANGED vars
    <3>1. EncodedTexts' = EncodedTexts
      BY <2>2, TextsStay DEF vars
    <3>. QED
      BY <2>2, <3>1 DEF vars, SpliceInv, TypeOK, Messages, WholeAndInPlace, IncludeSystem, RootMembers,
                        SystemValue, TextOf, Holes, ContentOf
  <2>. QED
    BY <2>1, <2>2, HitKeeps, OthersKeep DEF Next
<1>. QED
  BY <1>2, <1>3, PTL DEF Spec

\* The search never leaves the body or its entries (proxy.ts:1005-1023).
THEOREM TypeCorrect == Spec => []TypeOK
<1>1. SpliceInv => TypeOK
  BY DEF SpliceInv
<1>. QED
  BY <1>1, InvHolds, PTL

\* Where texts are searched for, markers are written together or not at all, one for
\* each message replaced, in the order of the messages, and each over bytes that read
\* as its message: whatever the body holds, and wherever those bytes are found
\* (proxy.ts:1005-1023).
THEOREM MarkersAreWhole == Spec => []WholeAndInPlace
<1>1. SpliceInv => WholeAndInPlace
  BY DEF SpliceInv
<1>. QED
  BY <1>1, InvHolds, PTL
=============================================================================

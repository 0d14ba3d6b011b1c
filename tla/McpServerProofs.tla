--------------------------- MODULE McpServerProofs ---------------------------
(***************************************************************************)
(* The token hasher and the MCP server that owns one: lookups are sound    *)
(* and complete whatever digests collide, and the answers the server gives *)
(* are the ones asked for, once each, in order, and delivered.             *)
(*                                                                         *)
(* TypeOK says only which refs of the hasher have an entry; what makes a   *)
(* lookup right is that the entry of a ref is a function of the set of     *)
(* blocks sharing it (IInv), and that is inductive.                        *)
(*                                                                         *)
(* The server's invariant ties its buffer to what the client sent: buffer  *)
(* and input are stretches of one stream of parts (InStream), so that a    *)
(* line is handled exactly when its end is behind what has been consumed,  *)
(* and a line within the limit is never cut (Uncut).  Over that, answers   *)
(* are counted by line (Counted), and the tools' answers in the microtask  *)
(* queue are due in the order of their lines (InOrder).                    *)
(***************************************************************************)
EXTENDS McpServer, OperatorLemmas

-----------------------------------------------------------------------------
(* The token hasher.                                                       *)

\* The entry of a ref is nothing, its only block, or the mark of ambiguity.
Exact(ref) ==
  \/ Sharing(ref) = {} /\ prefixIndex[ref] = None
  \/ \E h \in Hashes : Sharing(ref) = {h} /\ prefixIndex[ref] = h
  \/ (\E g, h \in Sharing(ref) : g # h) /\ prefixIndex[ref] = Ambiguous

\* The inductive invariant of the hasher.
IInv ==
  /\ store \subseteq Hashes
  /\ prefixIndex \in [Refs -> Hashes \cup {None, Ambiguous}]
  /\ \A ref \in Refs : Exact(ref)

-----------------------------------------------------------------------------
\* Initially no ref has an entry.
LEMMA InitExact == Init => IInv
<1>. SUFFICES ASSUME Init PROVE IInv
  OBVIOUS
<1>1. \A ref \in Refs : Exact(ref)
  BY DEF Init, Exact, Sharing
<1>. QED
  BY <1>1 DEF Init, IInv

\* Registering a block changes the entry of its own ref only, as its sharers change.
LEMMA RegisterExact ==
  ASSUME IInv, NEW hash \in Hashes, RegisterBlock(hash)
  PROVE  IInv'
<1>. USE HasherAssumption
<1>1. RefOf[hash] \in Refs
  OBVIOUS
<1>2. store' \subseteq Hashes
  BY DEF IInv, RegisterBlock
<1>3. prefixIndex' \in [Refs -> Hashes \cup {None, Ambiguous}]
  <2>1. prefixIndex[RefOf[hash]] \in Hashes \cup {None, Ambiguous}
    BY <1>1 DEF IInv
  <2>2. Indexed(prefixIndex[RefOf[hash]], hash) \in Hashes \cup {None, Ambiguous}
    BY <2>1 DEF Indexed
  <2>. QED
    BY <1>1, <2>2 DEF IInv, RegisterBlock
<1>4. ASSUME NEW ref \in Refs
      PROVE  Exact(ref)'
  <2>1. Exact(ref)
    BY DEF IInv
  <2>2. CASE ref # RefOf[hash]
    <3>1. prefixIndex'[ref] = prefixIndex[ref]
      BY <2>2 DEF RegisterBlock, IInv
    <3>2. Sharing(ref)' = Sharing(ref)
      BY <2>2 DEF RegisterBlock, Sharing
    <3>. QED
      BY <2>1, <3>1, <3>2 DEF Exact
  <2>3. CASE ref = RefOf[hash]
    <3>1. prefixIndex'[ref] = Indexed(prefixIndex[ref], hash)
      BY <2>3 DEF RegisterBlock, IInv
    <3>2. Sharing(ref)' = Sharing(ref) \cup {hash}
      BY <2>3 DEF RegisterBlock, Sharing
    <3>3. CASE Sharing(ref) = {} /\ prefixIndex[ref] = None
      BY <3>1, <3>2, <3>3 DEF Exact, Indexed
    <3>4. CASE \E h \in Hashes : Sharing(ref) = {h} /\ prefixIndex[ref] = h
      <4>1. PICK h \in Hashes : Sharing(ref) = {h} /\ prefixIndex[ref] = h
        BY <3>4
      <4>2. CASE h = hash
        <5>1. Sharing(ref)' = {hash} /\ prefixIndex'[ref] = hash
          BY <3>1, <3>2, <4>1, <4>2 DEF Indexed
        <5>. QED
          BY <5>1 DEF Exact
      <4>3. CASE h # hash
        <5>1. h \in Sharing(ref)' /\ hash \in Sharing(ref)' /\ prefixIndex'[ref] = Ambiguous
          BY <3>1, <3>2, <4>1, <4>3 DEF Indexed
        <5>. QED
          BY <4>3, <5>1 DEF Exact
      <4>. QED
        BY <4>2, <4>3
    <3>5. CASE (\E g, h \in Sharing(ref) : g # h) /\ prefixIndex[ref] = Ambiguous
      <4>1. prefixIndex'[ref] = Ambiguous
        BY <3>1, <3>5 DEF Indexed
      <4>2. \E g, h \in Sharing(ref)' : g # h
        BY <3>2, <3>5
      <4>. QED
        BY <4>1, <4>2 DEF Exact
    <3>. QED
      BY <2>1, <3>3, <3>4, <3>5 DEF Exact
  <2>. QED
    BY <2>2, <2>3
<1>. QED
  BY <1>2, <1>3, <1>4 DEF IInv

\* The index is exact in every reachable state.
LEMMA IndexExact == Spec => []IInv
<1>1. Init => IInv
  BY InitExact
<1>2. IInv /\ [Next]_vars => IInv'
  <2>. SUFFICES ASSUME IInv, [Next]_vars PROVE IInv'
    OBVIOUS
  <2>1. CASE Clear
    <3>1. \A ref \in Refs : Exact(ref)'
      BY <2>1 DEF Clear, ClearedIndex, Exact, Sharing
    <3>. QED
      BY <2>1, <3>1 DEF IInv, Clear, ClearedIndex
  <2>2. CASE \E hash \in Hashes : RegisterBlock(hash)
    BY <2>2, RegisterExact
  <2>3. CASE UNCHANGED vars
    BY <2>3 DEF vars, IInv, Exact, Sharing
  <2>. QED
    BY <2>1, <2>2, <2>3 DEF Next
<1>. QED
  BY <1>1, <1>2, PTL DEF Spec

-----------------------------------------------------------------------------
\* The entries tell which refs registered blocks have.
LEMMA IndexType == IInv => TypeOK
<1>. SUFFICES ASSUME IInv, NEW ref \in Refs
              PROVE  prefixIndex[ref] = None <=> ref \notin {RefOf[h] : h \in store}
  BY DEF IInv, TypeOK
<1>1. Exact(ref)
  BY DEF IInv
<1>2. ref \notin {RefOf[h] : h \in store} <=> Sharing(ref) = {}
  BY DEF Sharing
<1>. QED
  BY <1>1, <1>2, HasherAssumption DEF Exact

\* The two tables agree in every reachable state: a ref has an entry in the index
\* exactly when a registered block has that ref.
THEOREM HasherTypeCorrect == Spec => []TypeOK
BY IndexType, IndexExact, PTL

\* A lookup by digest or by ref returns the block meant or nothing, for every set
\* of colliding digests and every history of registrations.
THEOREM LookupsSound == Spec => []LookupSound
<1>1. IInv => LookupSound
  <2>. SUFFICES ASSUME IInv, NEW key \in Hashes \cup Refs, Resolve(key) # None
                PROVE  /\ Resolve(key) \in store
                       /\ key = Resolve(key) \/ Sharing(key) = {Resolve(key)}
    BY DEF LookupSound
  <2>1. CASE key \in store
    BY <2>1 DEF Resolve
  <2>2. CASE key \notin store
    <3>1. key \in Refs /\ prefixIndex[key] # Ambiguous /\ Resolve(key) = prefixIndex[key]
      BY <2>2 DEF Resolve
    <3>2. Exact(key)
      BY <3>1 DEF IInv
    <3>3. PICK h \in Hashes : Sharing(key) = {h} /\ prefixIndex[key] = h
      BY <3>1, <3>2 DEF Exact
    <3>4. h \in store
      BY <3>3 DEF Sharing
    <3>. QED
      BY <3>1, <3>3, <3>4
  <2>. QED
    BY <2>1, <2>2
<1>. QED
  BY <1>1, IndexExact, PTL

\* Whatever was registered since the last clear is found by its digest, and by its
\* ref unless another registered block has the same.
THEOREM LookupsComplete == Spec => []LookupComplete
<1>1. IInv => LookupComplete
  <2>. SUFFICES ASSUME IInv, NEW h \in store
                PROVE  /\ Resolve(h) = h
                       /\ Sharing(RefOf[h]) = {h} => Resolve(RefOf[h]) = h
    BY DEF LookupComplete
  <2>1. Resolve(h) = h
    BY DEF Resolve
  <2>2. ASSUME Sharing(RefOf[h]) = {h}
        PROVE  Resolve(RefOf[h]) = h
    <3>1. h \in Hashes /\ RefOf[h] \in Refs /\ RefOf[h] \notin store
      BY HasherAssumption DEF IInv
    <3>2. Exact(RefOf[h])
      BY <3>1 DEF IInv
    <3>3. prefixIndex[RefOf[h]] = h
      BY <2>2, <3>2 DEF Exact
    <3>. QED
      BY <3>1, <3>3, HasherAssumption DEF Resolve
  <2>. QED
    BY <2>1, <2>2
<1>. QED
  BY <1>1, IndexExact, PTL

\* Rehydrating a text in which blocks were elided by their refs puts back the very
\* blocks or leaves the markers, whatever was registered in between.
THEOREM RehydrationIsExact == Spec => []RehydrationExact
<1>1. IInv /\ LookupSound => RehydrationExact
  <2>. SUFFICES ASSUME IInv, LookupSound,
                       NEW text \in BoundedSeq(store, MaxText),
                       NEW elided \in SUBSET (1..Len(text)),
                       NEW i \in 1..Len(text)
                PROVE  LET sent == [j \in 1..Len(text) |->
                                      IF j \in elided THEN [marker |-> RefOf[text[j]]]
                                                      ELSE [block |-> text[j]]]
                       IN Rehydrated(sent)[i] \in {[block |-> text[i]]} \cup {sent[i]}
    BY DEF RehydrationExact
  <2>. DEFINE sent == [j \in 1..Len(text) |->
                         IF j \in elided THEN [marker |-> RefOf[text[j]]]
                                         ELSE [block |-> text[j]]]
  <2>1. text \in Seq(store)
    BY HasherAssumption DEF BoundedSeq, SeqOf
  <2>2. text[i] \in store /\ text[i] \in Hashes /\ RefOf[text[i]] \in Refs
    BY <2>1, HasherAssumption DEF IInv
  <2>3. Len(sent) = Len(text)
    <3>1. Len(text) \in Nat
      BY <2>1
    <3>2. sent \in Seq({sent[j] : j \in 1..Len(text)}) /\ DOMAIN sent = 1..Len(text)
      BY <3>1 DEF Seq
    <3>. QED
      BY <3>1, <3>2
  <2>4. Rehydrated(sent)[i] = IF IsMarker(sent[i]) /\ Resolve(sent[i].marker) # None
                                THEN [block |-> Resolve(sent[i].marker)] ELSE sent[i]
    BY <2>3 DEF Rehydrated
  <2>5. CASE i \in elided
    <3>1. sent[i].marker = RefOf[text[i]]
      BY <2>5
    <3>2. Resolve(RefOf[text[i]]) # None => Resolve(RefOf[text[i]]) = text[i]
      <4>. SUFFICES ASSUME Resolve(RefOf[text[i]]) # None
                    PROVE  Resolve(RefOf[text[i]]) = text[i]
        OBVIOUS
      <4>1. RefOf[text[i]] \notin Hashes
        BY <2>2, HasherAssumption
      <4>2. /\ Resolve(RefOf[text[i]]) \in store
            /\ Sharing(RefOf[text[i]]) = {Resolve(RefOf[text[i]])}
        BY <2>2, <4>1 DEF LookupSound, IInv
      <4>3. text[i] \in Sharing(RefOf[text[i]])
        BY <2>2 DEF Sharing
      <4>. QED
        BY <4>2, <4>3
    <3>. QED
      BY <2>4, <3>1, <3>2
  <2>6. CASE i \notin elided
    <3>1. ~ IsMarker(sent[i])
      BY <2>6 DEF IsMarker
    <3>. QED
      BY <2>4, <3>1
  <2>. QED
    BY <2>5, <2>6
<1>. QED
  BY <1>1, IndexExact, LookupsSound, PTL

-----------------------------------------------------------------------------
(* The stream of parts.                                                    *)

\* The parts of each line.
Split(input) == [n \in 1..Len(input) |-> [p \in 1..input[n].size |-> <<n, p>>]]

\* All the parts a client sends, and where a line ends among them.
Parts    == PartsOf(lines)
EndAt(n) == EndOf(Split(lines), n)

\* How many have been received, and how many of those are no longer buffered.
Got      == Len(Parts) - Len(unread)
Consumed == Got - Len(buffer)

\* A line is handled once its end has been consumed.
Handled(n) == EndAt(n) <= Consumed

\* Buffer and input are stretches of what was sent, one behind the other.
InStream ==
  /\ lines \in Seq(Line)
  /\ unread \in Seq(Nat \X Nat) /\ buffer \in Seq(Nat \X Nat)
  /\ Consumed \in Nat
  /\ \A i \in 1..Len(unread) : unread[i] = Parts[Got + i]
  /\ \A i \in 1..Len(buffer) : buffer[i] = Parts[Consumed + i]

\* Lines are split into sequences of parts, one for each of their sizes.
LEMMA SplitType ==
  ASSUME lines \in Seq(Line)
  PROVE  /\ Split(lines) \in Seq(Seq(Nat \X Nat)) /\ Len(Split(lines)) = Len(lines)
         /\ Len(lines) \in Nat
         /\ \A n \in Sent : /\ Split(lines)[n] \in Seq(Nat \X Nat)
                            /\ lines[n].size \in Nat /\ lines[n].size >= 1
                            /\ Len(Split(lines)[n]) = lines[n].size
                            /\ \A p \in 1..lines[n].size : Split(lines)[n][p] = <<n, p>>
<1>1. Len(lines) \in Nat
  OBVIOUS
<1>2. ASSUME NEW n \in Sent
      PROVE  /\ lines[n].size \in Nat /\ lines[n].size >= 1
             /\ [p \in 1..lines[n].size |-> <<n, p>>] \in Seq(Nat \X Nat)
             /\ Len([p \in 1..lines[n].size |-> <<n, p>>]) = lines[n].size
  <2>1. lines[n] \in Line /\ n \in Nat
    BY <1>1 DEF Sent
  <2>2. lines[n].size \in Nat /\ lines[n].size >= 1
    BY <2>1, McpAssumption DEF Line
  <2>. DEFINE k == lines[n].size
              f == [p \in 1..k |-> <<n, p>>]
  <2>3. f \in [1..k -> Nat \X Nat]
    BY <2>1, <2>2
  <2>. HIDE DEF f, k
  <2>4. f \in Seq(Nat \X Nat) /\ Len(f) = k
    BY <2>2, <2>3 DEF k
  <2>. QED
    BY <2>2, <2>4 DEF f, k
<1>. DEFINE g == Split(lines)
<1>3. \A n \in Sent : g[n] = [p \in 1..lines[n].size |-> <<n, p>>]
  BY Zenon DEF Split, Sent
<1>4. DOMAIN g = 1..Len(lines)
  BY DEF Split
<1>5. g = [n \in 1..Len(lines) |-> g[n]]
  BY Zenon DEF Split
<1>. HIDE DEF g
<1>6. \A n \in 1..Len(lines) : g[n] \in Seq(Nat \X Nat)
  BY <1>2, <1>3 DEF Sent
<1>7. g \in [1..Len(lines) -> Seq(Nat \X Nat)]
  BY <1>5, <1>6
<1>8. g \in Seq(Seq(Nat \X Nat)) /\ Len(g) = Len(lines)
  BY <1>1, <1>7
<1>9. ASSUME NEW n \in Sent, NEW p \in 1..lines[n].size PROVE g[n][p] = <<n, p>>
  <2>1. [q \in 1..lines[n].size |-> <<n, q>>][p] = <<n, p>>
    BY Zenon
  <2>. QED
    BY <1>3, <2>1
<1>10. \A n \in Sent : Len(g[n]) = lines[n].size
  BY <1>2, <1>3
<1>. QED
  BY <1>1, <1>2, <1>6, <1>8, <1>9, <1>10 DEF g, Sent

\* A line's parts come behind the line before it.
LEMMA PartAt ==
  ASSUME lines \in Seq(Line)
  PROVE  /\ Parts \in Seq(Nat \X Nat) /\ Len(Parts) \in Nat
         /\ EndAt(0) = 0
         /\ \A n \in Sent :
              /\ EndAt(n) \in Nat /\ EndAt(n - 1) \in Nat
              /\ EndAt(n) = EndAt(n - 1) + lines[n].size
              /\ EndAt(n) <= Len(Parts)
              /\ \A p \in 1..lines[n].size : Parts[EndAt(n - 1) + p] = <<n, p>>
<1>. DEFINE g == Split(lines)
<1>1. /\ g \in Seq(Seq(Nat \X Nat)) /\ Len(g) = Len(lines) /\ Len(lines) \in Nat
      /\ \A n \in Sent : /\ lines[n].size \in Nat /\ Len(g[n]) = lines[n].size
                         /\ \A p \in 1..lines[n].size : g[n][p] = <<n, p>>
  BY SplitType
<1>2. Parts = FlattenSeq(g)
  BY DEF Parts, PartsOf, Split
<1>3. /\ \A m \in 0..Len(g) : EndOf(g, m) \in Nat
      /\ EndOf(g, 0) = 0
      /\ EndOf(g, Len(g)) = Len(FlattenSeq(g))
  <2>. HIDE DEF g
  <2>. QED
    BY <1>1, EndType
<1>4. FlattenSeq(g) \in Seq(Nat \X Nat)
  <2>. HIDE DEF g
  <2>1. Len(g) \in 0..Len(g)
    BY <1>1
  <2>. QED
    BY <1>1, <2>1, JoinedType, JoinedEnds
<1>5. ASSUME NEW n \in Sent
      PROVE  /\ EndOf(g, n) \in Nat /\ EndOf(g, n - 1) \in Nat
             /\ EndOf(g, n) = EndOf(g, n - 1) + lines[n].size
             /\ EndOf(g, n) <= Len(FlattenSeq(g))
  <2>1. n \in 1..Len(g) /\ n \in 0..Len(g) /\ n - 1 \in 0..Len(g) /\ Len(g) \in n..Len(g)
    BY <1>1 DEF Sent
  <2>. HIDE DEF g
  <2>2. EndOf(g, n) = EndOf(g, n - 1) + Len(g[n])
    BY <1>1, <2>1, EndStep
  <2>3. EndOf(g, n) <= EndOf(g, Len(g))
    BY <1>1, <2>1, EndsInOrder
  <2>. QED
    BY <1>1, <1>3, <2>1, <2>2, <2>3
<1>6. ASSUME NEW n \in Sent, NEW p \in 1..lines[n].size
      PROVE  FlattenSeq(g)[EndOf(g, n - 1) + p] = <<n, p>>
  <2>1. n \in 1..Len(g) /\ p \in 1..Len(g[n]) /\ g[n][p] = <<n, p>>
    BY <1>1 DEF Sent
  <2>. HIDE DEF g
  <2>. QED
    BY <1>1, <2>1, FlattenPlace
<1>7. EndAt(0) = 0 /\ \A n : EndAt(n) = EndOf(g, n)
  BY <1>3 DEF EndAt
<1>. HIDE DEF g
<1>8. Parts \in Seq(Nat \X Nat) /\ Len(Parts) \in Nat
  <2>1. \A x \in Seq(Nat \X Nat) : Len(x) \in Nat
    OBVIOUS
  <2>. QED
    BY <1>2, <1>4, <2>1
<1>9. ASSUME NEW n \in Sent
      PROVE  /\ EndAt(n) \in Nat /\ EndAt(n - 1) \in Nat
             /\ EndAt(n) = EndAt(n - 1) + lines[n].size
             /\ EndAt(n) <= Len(Parts)
             /\ \A p \in 1..lines[n].size : Parts[EndAt(n - 1) + p] = <<n, p>>
  BY <1>2, <1>5, <1>6, <1>7
<1>. QED
  BY <1>7, <1>8, <1>9

\* Every part is one of a line, in its place.
LEMMA PartOf ==
  ASSUME lines \in Seq(Line), NEW i \in 1..Len(Parts)
  PROVE  \E n \in Sent : \E p \in 1..lines[n].size : i = EndAt(n - 1) + p /\ Parts[i] = <<n, p>>
<1>. DEFINE g == Split(lines)
<1>1. /\ g \in Seq(Seq(Nat \X Nat)) /\ Len(g) = Len(lines)
      /\ \A n \in Sent : Len(g[n]) = lines[n].size
  BY SplitType
<1>2. Parts = FlattenSeq(g)
  BY DEF Parts, PartsOf, Split
<1>3. \E n \in 1..Len(g) : \E p \in 1..Len(g[n]) : i = EndOf(g, n - 1) + p
  <2>1. i \in 1..Len(FlattenSeq(g))
    BY <1>2
  <2>. HIDE DEF g
  <2>. QED
    BY <1>1, <2>1, FlattenCover
<1>4. PICK n \in 1..Len(g) : \E p \in 1..Len(g[n]) : i = EndOf(g, n - 1) + p
  BY <1>3
<1>5. PICK p \in 1..Len(g[n]) : i = EndOf(g, n - 1) + p
  BY <1>4
<1>6. n \in Sent /\ p \in 1..lines[n].size /\ i = EndAt(n - 1) + p
  BY <1>1, <1>5 DEF Sent, EndAt
<1>. HIDE DEF g
<1>7. Parts[i] = <<n, p>>
  BY <1>6, PartAt
<1>. QED
  BY <1>6, <1>7

\* Lines end in the order they are sent in.
LEMMA EndsRise ==
  ASSUME lines \in Seq(Line), NEW m \in Sent, NEW n \in Sent, m < n
  PROVE  EndAt(m) <= EndAt(n - 1)
<1>1. Split(lines) \in Seq(Seq(Nat \X Nat)) /\ Len(Split(lines)) = Len(lines) /\ Len(lines) \in Nat
  BY SplitType
<1>2. m \in 0..Len(lines) /\ n - 1 \in m..Len(lines)
  BY <1>1 DEF Sent
<1>. QED
  BY <1>1, <1>2, EndsInOrder DEF EndAt

\* The last part of a line is found where the line ends, and nowhere else.
LEMMA LastPart ==
  ASSUME lines \in Seq(Line), NEW n \in Sent
  PROVE  /\ EndAt(n) \in 1..Len(Parts) /\ Parts[EndAt(n)] = <<n, lines[n].size>>
         /\ \A i \in 1..Len(Parts) : Parts[i] = <<n, lines[n].size>> => i = EndAt(n)
<1>1. /\ Len(Parts) \in Nat /\ EndAt(n) \in Nat /\ EndAt(n - 1) \in Nat
      /\ EndAt(n) = EndAt(n - 1) + lines[n].size /\ EndAt(n) <= Len(Parts)
      /\ \A p \in 1..lines[n].size : Parts[EndAt(n - 1) + p] = <<n, p>>
  BY PartAt
<1>2. lines[n].size \in Nat /\ lines[n].size >= 1
  BY SplitType
<1>3. lines[n].size \in 1..lines[n].size
  BY <1>2
<1>4. ASSUME NEW i \in 1..Len(Parts), Parts[i] = <<n, lines[n].size>> PROVE i = EndAt(n)
  <2>1. PICK m \in Sent : \E p \in 1..lines[m].size : i = EndAt(m - 1) + p /\ Parts[i] = <<m, p>>
    BY PartOf
  <2>2. PICK p \in 1..lines[m].size : i = EndAt(m - 1) + p /\ Parts[i] = <<m, p>>
    BY <2>1
  <2>3. m = n /\ p = lines[n].size
    BY <1>4, <2>2
  <2>. QED
    BY <1>1, <2>2, <2>3
<1>. QED
  BY <1>1, <1>2, <1>3, <1>4

\* A part that ends a line is where that line ends.
LEMMA EndingPart ==
  ASSUME lines \in Seq(Line), NEW i \in 1..Len(Parts)
  PROVE  EndsLine(Parts[i]) <=> \E n \in Sent : i = EndAt(n)
<1>1. PICK n \in Sent : \E p \in 1..lines[n].size : i = EndAt(n - 1) + p /\ Parts[i] = <<n, p>>
  BY PartOf
<1>2. PICK p \in 1..lines[n].size : i = EndAt(n - 1) + p /\ Parts[i] = <<n, p>>
  BY <1>1
<1>3. EndsLine(Parts[i]) <=> p = lines[n].size
  BY <1>2 DEF EndsLine
<1>4. ASSUME p = lines[n].size PROVE i = EndAt(n)
  BY <1>2, <1>4, PartAt
<1>5. ASSUME NEW m \in Sent, i = EndAt(m) PROVE p = lines[n].size
  <2>1. Parts[i] = <<m, lines[m].size>>
    BY <1>5, LastPart
  <2>. QED
    BY <1>2, <2>1
<1>. QED
  BY <1>3, <1>4, <1>5

\* What has not been received has not ended, nor what is still buffered.
LEMMA StreamEnds ==
  ASSUME InStream, NEW n \in Sent
  PROVE  /\ Consumed \in Nat /\ Got \in Nat /\ Got = Consumed + Len(buffer)
         /\ Got <= Len(Parts) /\ Len(Parts) = Got + Len(unread)
         /\ <<n, lines[n].size>> \notin ToSet(unread) => EndAt(n) <= Got
         /\ EndAt(n) <= Got /\ <<n, lines[n].size>> \notin ToSet(buffer) => Handled(n)
<1>1. /\ Len(Parts) \in Nat /\ Len(unread) \in Nat /\ Len(buffer) \in Nat /\ Consumed \in Nat
      /\ DOMAIN unread = 1..Len(unread) /\ DOMAIN buffer = 1..Len(buffer)
      /\ lines \in Seq(Line)
  <2>1. lines \in Seq(Line) /\ unread \in Seq(Nat \X Nat) /\ buffer \in Seq(Nat \X Nat) /\ Consumed \in Nat
    BY DEF InStream
  <2>2. Len(Parts) \in Nat
    BY <2>1, PartAt
  <2>. QED
    BY <2>1, <2>2
<1>2. Got \in Nat /\ Got = Consumed + Len(buffer) /\ Len(Parts) = Got + Len(unread) /\ Got <= Len(Parts)
  <2>. DEFINE x == Len(Parts)
              y == Len(unread)
              z == Len(buffer)
  <2>1. x \in Nat /\ y \in Nat /\ z \in Nat /\ (x - y) - z \in Nat /\ Got = x - y /\ Consumed = (x - y) - z
    BY <1>1 DEF Consumed, Got
  <2>. HIDE DEF x, y, z
  <2>2. Got \in Nat /\ Got = Consumed + z /\ x = Got + y /\ Got <= x
    BY <2>1
  <2>. QED
    BY <2>2 DEF x, y, z
<1>3. /\ EndAt(n) \in 1..Len(Parts) /\ EndAt(n) \in Nat /\ Parts[EndAt(n)] = <<n, lines[n].size>>
  BY <1>1, LastPart
<1>4. ASSUME ~(EndAt(n) <= Got) PROVE <<n, lines[n].size>> \in ToSet(unread)
  <2>. DEFINE i == EndAt(n) - Got
  <2>1. EndAt(n) <= Len(Parts) /\ Len(Parts) = Got + Len(unread)
    BY <1>2, <1>3
  <2>2. \A x, g, l \in Nat : ~(x <= g) /\ x <= g + l => x - g \in 1..l /\ g + (x - g) = x
    OBVIOUS
  <2>3. EndAt(n) \in Nat /\ Got \in Nat /\ Len(unread) \in Nat /\ EndAt(n) <= Got + Len(unread)
    BY <1>1, <1>2, <1>3, <2>1
  <2>4. i \in 1..Len(unread) /\ Got + i = EndAt(n)
    BY <1>4, <2>2, <2>3, Zenon
  <2>. HIDE DEF i
  <2>5. unread[i] = Parts[Got + i]
    BY <2>4 DEF InStream
  <2>. QED
    BY <1>1, <1>3, <2>4, <2>5 DEF ToSet
<1>5. ASSUME EndAt(n) <= Got, ~Handled(n) PROVE <<n, lines[n].size>> \in ToSet(buffer)
  <2>. DEFINE i == EndAt(n) - Consumed
  <2>1. i \in 1..Len(buffer) /\ Consumed + i = EndAt(n)
    BY <1>1, <1>2, <1>3, <1>5 DEF Handled
  <2>. HIDE DEF i
  <2>2. buffer[i] = Parts[Consumed + i]
    BY <2>1 DEF InStream
  <2>. QED
    BY <1>1, <1>3, <2>1, <2>2 DEF ToSet
<1>. QED
  BY <1>1, <1>2, <1>4, <1>5

\* Where the buffer has no newline, no line ends.
LEMMA NoEndBetween ==
  ASSUME InStream, NEW k \in 0..Len(buffer), \A i \in 1..k : ~EndsLine(buffer[i]),
         NEW n \in Sent, EndAt(n) <= Consumed + k
  PROVE  Handled(n)
<1>1. /\ Consumed \in Nat /\ Got = Consumed + Len(buffer) /\ Got <= Len(Parts) /\ Got \in Nat
  BY StreamEnds
<1>2. lines \in Seq(Line) /\ Len(buffer) \in Nat
  BY DEF InStream
<1>3. EndAt(n) \in Nat /\ EndAt(n) \in 1..Len(Parts)
  BY <1>2, LastPart
<1>. SUFFICES ASSUME ~Handled(n) PROVE FALSE
  OBVIOUS
<1>. DEFINE i == EndAt(n) - Consumed
<1>4. i \in 1..k /\ i \in 1..Len(buffer) /\ Consumed + i = EndAt(n)
  BY <1>1, <1>2, <1>3 DEF Handled
<1>. HIDE DEF i
<1>5. buffer[i] = Parts[EndAt(n)]
  BY <1>4 DEF InStream
<1>6. EndsLine(Parts[EndAt(n)])
  BY <1>2, <1>3, EndingPart
<1>. QED
  BY <1>4, <1>5, <1>6

\* Taking parts off the front of the buffer.
LEMMA DropKeepsStream ==
  ASSUME InStream, NEW k \in 0..Len(buffer),
         lines' = lines, unread' = unread, buffer' = SubSeq(buffer, k + 1, Len(buffer))
  PROVE  InStream' /\ Got' = Got /\ Consumed' = Consumed + k /\ Len(buffer') = Len(buffer) - k
<1>1. /\ buffer \in Seq(Nat \X Nat) /\ Len(buffer) \in Nat /\ Consumed \in Nat
      /\ Got = Len(Parts) - Len(unread) /\ Consumed = Got - Len(buffer)
  BY DEF InStream, Got, Consumed
<1>2. /\ buffer' \in Seq(Nat \X Nat) /\ Len(buffer') = Len(buffer) - k
      /\ \A i \in 1..(Len(buffer) - k) : buffer'[i] = buffer[k + i]
  BY <1>1, Remaining
<1>3. Parts' = Parts /\ Got' = Got
  BY DEF Parts, Got
<1>4. Got \in Int
  <2>1. Len(Parts) \in Nat /\ Len(unread) \in Nat
    BY PartAt DEF InStream
  <2>. QED
    BY <1>1, <2>1
<1>5. Consumed' = Consumed + k
  <2>1. Consumed' = Got - (Len(buffer) - k)
    BY <1>2, <1>3 DEF Consumed
  <2>. QED
    BY <1>1, <1>4, <2>1
<1>6. ASSUME NEW i \in 1..Len(buffer') PROVE buffer'[i] = Parts[Consumed' + i]
  <2>1. k + i \in 1..Len(buffer) /\ i \in 1..(Len(buffer) - k) /\ Consumed + (k + i) = Consumed' + i
    BY <1>1, <1>2, <1>5
  <2>2. buffer[k + i] = Parts[Consumed + (k + i)]
    BY <2>1 DEF InStream
  <2>. QED
    BY <1>2, <2>1, <2>2
<1>7. \A i \in 1..Len(unread') : unread'[i] = Parts'[Got' + i]
  BY <1>3 DEF InStream
<1>8. lines' \in Seq(Line) /\ unread' \in Seq(Nat \X Nat) /\ Consumed' \in Nat
  BY <1>1, <1>5 DEF InStream
<1>. QED
  BY <1>2, <1>3, <1>5, <1>6, <1>7, <1>8 DEF InStream

\* Receiving parts.
LEMMA DataKeepsStream ==
  ASSUME InStream, Data
  PROVE  InStream' /\ Consumed' = Consumed
<1>1. PICK k \in 1..Len(unread) : /\ buffer' = buffer \o SubSeq(unread, 1, k)
                                  /\ unread' = SubSeq(unread, k + 1, Len(unread))
  BY DEF Data, Buffered
<1>2. /\ unread \in Seq(Nat \X Nat) /\ Len(unread) \in Nat
      /\ buffer \in Seq(Nat \X Nat) /\ Len(buffer) \in Nat /\ Consumed \in Nat
  BY DEF InStream
<1>3. /\ unread' \in Seq(Nat \X Nat) /\ Len(unread') = Len(unread) - k
      /\ \A i \in 1..(Len(unread) - k) : unread'[i] = unread[k + i]
  <2>1. k \in 0..Len(unread)
    BY <1>2
  <2>. QED
    BY <1>1, <1>2, <2>1, Remaining
<1>. DEFINE t == SubSeq(unread, 1, k)
<1>4. t \in Seq(Nat \X Nat) /\ Len(t) = k /\ \A i \in 1..k : t[i] = unread[i]
  BY <1>2
<1>5. buffer' = buffer \o t
  BY <1>1
<1>. HIDE DEF t
<1>6. /\ buffer' \in Seq(Nat \X Nat) /\ Len(buffer') = Len(buffer) + k
      /\ \A i \in 1..Len(buffer) : buffer'[i] = buffer[i]
      /\ \A i \in 1..k : buffer'[Len(buffer) + i] = unread[i]
  <2>0. buffer \in Seq(Nat \X Nat) /\ t \in Seq(Nat \X Nat)
    BY <1>2, <1>4
  <2>1. /\ buffer \o t \in Seq(Nat \X Nat) /\ Len(buffer \o t) = Len(buffer) + Len(t)
        /\ \A i \in 1..Len(buffer) : (buffer \o t)[i] = buffer[i]
        /\ \A i \in 1..Len(t) : (buffer \o t)[Len(buffer) + i] = t[i]
    BY <2>0, PutTogether
  <2>2. buffer' \in Seq(Nat \X Nat) /\ Len(buffer') = Len(buffer) + k
    BY <1>4, <1>5, <2>1
  <2>3. \A i \in 1..Len(buffer) : buffer'[i] = buffer[i]
    BY <1>5, <2>1, Zenon
  <2>4. ASSUME NEW i \in 1..k PROVE buffer'[Len(buffer) + i] = unread[i]
    <3>1. i \in 1..Len(t)
      BY <1>4
    <3>2. (buffer \o t)[Len(buffer) + i] = t[i]
      BY <2>1, <3>1, Zenon
    <3>. QED
      BY <1>4, <1>5, <3>2, Zenon
  <2>. QED
    BY <2>2, <2>3, <2>4
<1>7. lines' = lines /\ Parts' = Parts
  BY DEF Data, stream, Parts
<1>8. Len(Parts) \in Nat /\ Got = Len(Parts) - Len(unread) /\ Consumed = Got - Len(buffer) /\ Got \in Nat
  <2>1. Len(Parts) \in Nat /\ Got = Len(Parts) - Len(unread) /\ Consumed = Got - Len(buffer)
    BY PartAt DEF InStream, Got, Consumed
  <2>2. Got \in Int
    BY <1>2, <2>1
  <2>. QED
    BY <1>2, <2>1, <2>2
<1>9. Got' = Got + k
  <2>1. Got' = Len(Parts) - (Len(unread) - k)
    BY <1>3, <1>7 DEF Got
  <2>. QED
    BY <1>2, <1>8, <2>1
<1>10. Consumed' = Consumed
  <2>1. Consumed' = (Got + k) - (Len(buffer) + k)
    BY <1>6, <1>9 DEF Consumed
  <2>. QED
    BY <1>2, <1>8, <2>1
<1>11. ASSUME NEW i \in 1..Len(unread') PROVE unread'[i] = Parts[Got' + i]
  <2>1. i \in 1..(Len(unread) - k) /\ k + i \in 1..Len(unread) /\ Got + (k + i) = Got' + i
    BY <1>2, <1>3, <1>8, <1>9
  <2>2. unread[k + i] = Parts[Got + (k + i)]
    BY <2>1 DEF InStream
  <2>. QED
    BY <1>3, <2>1, <2>2
<1>12. ASSUME NEW i \in 1..Len(buffer') PROVE buffer'[i] = Parts[Consumed + i]
  <2>1. CASE i \in 1..Len(buffer)
    BY <1>6, <2>1 DEF InStream
  <2>2. CASE i \notin 1..Len(buffer)
    <3>. DEFINE j == i - Len(buffer)
    <3>0. i \in Nat /\ i <= Len(buffer) + k /\ Len(buffer) < i /\ k <= Len(unread) /\ k \in Nat
      BY <1>2, <1>6, <2>2
    <3>1. j \in 1..k /\ j \in 1..Len(unread) /\ Len(buffer) + j = i
      BY <1>2, <3>0
    <3>4. Got = Consumed + Len(buffer)
      BY <1>2, <1>8
    <3>5. Got + j = Consumed + i
      BY <1>2, <1>8, <3>0, <3>4
    <3>. HIDE DEF j
    <3>2. unread[j] = Parts[Got + j]
      BY <3>1 DEF InStream
    <3>3. buffer'[Len(buffer) + j] = unread[j]
      BY <1>6, <3>1
    <3>. QED
      BY <3>1, <3>2, <3>3, <3>5
  <2>. QED
    BY <2>1, <2>2
<1>. QED
  BY <1>2, <1>3, <1>6, <1>7, <1>10, <1>11, <1>12 DEF InStream

-----------------------------------------------------------------------------
(* What the client has been told.                                          *)

\* The jobs of the queue; its answers and jobs for one line, with its id or without.
Job == [ticks : 1..4, answer : Answer]

AnswersFor(n, withId) == {a \in Answer : a.line = n /\ a.id = withId}
JobsFor(n, withId)    == {j \in Job : j.answer.line = n /\ j.answer.id = withId}

\* The answers of one kind are found at as many places.
LEMMA PlacesOfAnswers ==
  ASSUME NEW ws \in Seq(Answer), NEW n, NEW withId
  PROVE  {i \in 1..Len(ws) : ws[i].line = n /\ ws[i].id = withId} = Places(ws, AnswersFor(n, withId))
<1>1. \A i \in 1..Len(ws) : ws[i] \in Answer
  OBVIOUS
<1>. QED
  BY <1>1 DEF Places, AnswersFor

\* The jobs that hold an answer for one line are found at as many places.
LEMMA PlacesOfJobs ==
  ASSUME NEW js \in Seq(Job), NEW n, NEW withId
  PROVE  {i \in 1..Len(js) : js[i].answer.line = n /\ js[i].answer.id = withId}
           = Places(js, JobsFor(n, withId))
<1>1. \A i \in 1..Len(js) : js[i] \in Job
  OBVIOUS
<1>. HIDE DEF Job
<1>. QED
  BY <1>1 DEF Places, JobsFor

\* Given counts places.
LEMMA GivenType ==
  ASSUME written \in Seq(Answer), jobs \in Seq(Job), NEW n, NEW withId
  PROVE  /\ Given(n, withId) \in Nat
         /\ Given(n, withId) = Cardinality(Places(written, AnswersFor(n, withId)))
                                 + Cardinality(Places(jobs, JobsFor(n, withId)))
         /\ Cardinality(Places(written, AnswersFor(n, withId))) \in Nat
         /\ Cardinality(Places(jobs, JobsFor(n, withId))) \in Nat
<1>. DEFINE W == {i \in 1..Len(written) : written[i].line = n /\ written[i].id = withId}
            J == {i \in 1..Len(jobs) : jobs[i].answer.line = n /\ jobs[i].answer.id = withId}
<1>1. Given(n, withId) = Cardinality(W) + Cardinality(J)
  BY DEF Given
<1>2. W = Places(written, AnswersFor(n, withId))
  BY PlacesOfAnswers
<1>3. J = Places(jobs, JobsFor(n, withId))
  BY PlacesOfJobs
<1>4. /\ Cardinality(Places(written, AnswersFor(n, withId))) \in Nat
      /\ Cardinality(Places(jobs, JobsFor(n, withId))) \in Nat
  BY PlacesFinite
<1>. HIDE DEF W, J
<1>. QED
  BY <1>1, <1>2, <1>3, <1>4

\* And counts them after a step.
LEMMA GivenNext ==
  ASSUME written' \in Seq(Answer), jobs' \in Seq(Job), NEW n, NEW withId
  PROVE  Given(n, withId)' = Cardinality(Places(written', AnswersFor(n, withId)))
                               + Cardinality(Places(jobs', JobsFor(n, withId)))
<1>. DEFINE W == {i \in 1..Len(written') : written'[i].line = n /\ written'[i].id = withId}
            J == {i \in 1..Len(jobs') : jobs'[i].answer.line = n /\ jobs'[i].answer.id = withId}
<1>1. Given(n, withId)' = Cardinality(W) + Cardinality(J)
  BY DEF Given
<1>2. W = Places(written', AnswersFor(n, withId))
  BY PlacesOfAnswers
<1>3. J = Places(jobs', JobsFor(n, withId))
  BY PlacesOfJobs
<1>. HIDE DEF W, J
<1>. QED
  BY <1>1, <1>2, <1>3

\* An answer queued is one more for its line.
LEMMA GivenQueued ==
  ASSUME written \in Seq(Answer), jobs \in Seq(Job), NEW j \in Job,
         jobs' = Append(jobs, j), written' = written, NEW n, NEW withId
  PROVE  Given(n, withId)' =
           Given(n, withId) + (IF j.answer.line = n /\ j.answer.id = withId THEN 1 ELSE 0)
<1>1. jobs' \in Seq(Job) /\ written' \in Seq(Answer)
  BY AppendProperties
<1>2. Given(n, withId)' = Cardinality(Places(written', AnswersFor(n, withId)))
                            + Cardinality(Places(jobs', JobsFor(n, withId)))
  BY <1>1, GivenNext
<1>3. Cardinality(Places(jobs', JobsFor(n, withId))) =
        Cardinality(Places(jobs, JobsFor(n, withId))) + (IF j \in JobsFor(n, withId) THEN 1 ELSE 0)
  BY PlacesAppend
<1>4. j \in JobsFor(n, withId) <=> j.answer.line = n /\ j.answer.id = withId
  BY DEF JobsFor
<1>. QED
  BY <1>2, <1>3, <1>4, GivenType

\* An answer written is one more for its line.
LEMMA GivenWritten ==
  ASSUME written \in Seq(Answer), jobs \in Seq(Job), NEW a \in Answer,
         jobs' = jobs, written' = Append(written, a), NEW n, NEW withId
  PROVE  Given(n, withId)' =
           Given(n, withId) + (IF a.line = n /\ a.id = withId THEN 1 ELSE 0)
<1>1. jobs' \in Seq(Job) /\ written' \in Seq(Answer)
  BY AppendProperties
<1>2. Given(n, withId)' = Cardinality(Places(written', AnswersFor(n, withId)))
                            + Cardinality(Places(jobs', JobsFor(n, withId)))
  BY <1>1, GivenNext
<1>3. Cardinality(Places(written', AnswersFor(n, withId))) =
        Cardinality(Places(written, AnswersFor(n, withId))) + (IF a \in AnswersFor(n, withId) THEN 1 ELSE 0)
  BY PlacesAppend
<1>4. a \in AnswersFor(n, withId) <=> a.line = n /\ a.id = withId
  BY DEF AnswersFor
<1>. QED
  BY <1>2, <1>3, <1>4, GivenType

\* A turn of the microtask queue gives no line more answers, or fewer.
LEMMA GivenRun ==
  ASSUME written \in Seq(Answer), jobs \in Seq(Job), RunJob, NEW n, NEW withId
  PROVE  /\ written' \in Seq(Answer) /\ jobs' \in Seq(Job)
         /\ Given(n, withId)' = Given(n, withId)
<1>. DEFINE A == AnswersFor(n, withId)
            J == JobsFor(n, withId)
            h == Head(jobs)
<1>1. jobs # <<>> /\ h \in Job /\ Tail(jobs) \in Seq(Job)
  BY DEF RunJob
<1>2. h.answer \in Answer /\ h.ticks \in 1..4
  BY <1>1 DEF Job
<1>3. h \in J <=> h.answer \in A
  BY <1>1, <1>2 DEF JobsFor, AnswersFor
<1>. HIDE DEF A, J, h
<1>4. /\ Cardinality(Places(jobs, J)) = Cardinality(Places(Tail(jobs), J)) + (IF h \in J THEN 1 ELSE 0)
      /\ Cardinality(Places(Tail(jobs), J)) \in Nat
  BY <1>1, PlacesTail, PlacesFinite DEF h
<1>5. /\ Given(n, withId) = Cardinality(Places(written, A)) + Cardinality(Places(jobs, J))
      /\ Cardinality(Places(written, A)) \in Nat
  BY GivenType DEF A, J
<1>6. CASE h.ticks = 1 /\ written' = Append(written, h.answer) /\ jobs' = Tail(jobs)
  <2>1. written' \in Seq(Answer) /\ jobs' \in Seq(Job)
    BY <1>1, <1>2, <1>6, AppendProperties
  <2>2. Given(n, withId)' = Cardinality(Places(written', A)) + Cardinality(Places(jobs', J))
    BY <2>1, GivenNext DEF A, J
  <2>3. Cardinality(Places(written', A)) = Cardinality(Places(written, A)) + (IF h.answer \in A THEN 1 ELSE 0)
    BY <1>2, <1>6, PlacesAppend
  <2>. QED
    BY <1>3, <1>4, <1>5, <1>6, <2>1, <2>2, <2>3
<1>7. CASE h.ticks > 1 /\ written' = written /\ jobs' = Append(Tail(jobs), [h EXCEPT !.ticks = @ - 1])
  <2>. DEFINE g == [h EXCEPT !.ticks = @ - 1]
  <2>1. g \in Job /\ g.answer = h.answer
    BY <1>1, <1>2, <1>7 DEF Job
  <2>2. g \in J <=> h \in J
    BY <1>1, <2>1 DEF J, JobsFor
  <2>. HIDE DEF g
  <2>3. jobs' = Append(Tail(jobs), g)
    BY <1>7 DEF g
  <2>4. written' \in Seq(Answer) /\ jobs' \in Seq(Job)
    BY <1>1, <1>7, <2>1, <2>3, AppendProperties
  <2>5. Given(n, withId)' = Cardinality(Places(written, A)) + Cardinality(Places(jobs', J))
    BY <1>7, <2>4, GivenNext DEF A, J
  <2>6. Cardinality(Places(jobs', J)) = Cardinality(Places(Tail(jobs), J)) + (IF g \in J THEN 1 ELSE 0)
    BY <1>1, <2>1, <2>3, PlacesAppend
  <2>. QED
    BY <1>4, <1>5, <2>2, <2>4, <2>5, <2>6
<1>. QED
  BY <1>6, <1>7 DEF RunJob, h

-----------------------------------------------------------------------------
(* The inductive invariant.                                                *)

\* The variables have their types, and the hasher its invariant.
McpTypes ==
  /\ IInv /\ IsFiniteSet(store)
  /\ lines \in Inputs
  /\ listening \in BOOLEAN /\ draining \in BOOLEAN
  /\ jobs \in Seq(Job) /\ written \in Seq(Answer)
  /\ flushed \in 0..Len(written)
  /\ process \in {"running", "closing", "exited", "killed"}
  /\ traces \in Seq(Sent) /\ Len(traces) <= TraceCapacity

\* A line is within the limit.
Fits(n) == lines[n].size <= MaxBuffer + 1

\* A line within the limit is never cut: either all of it is consumed, or nothing.
Uncut == \A n \in Sent : Fits(n) /\ EndAt(n - 1) < Consumed => Handled(n)

\* Between data events the buffer holds no newline and is within the limit.
Quiet == ~draining => Len(buffer) <= MaxBuffer /\ \A i \in 1..Len(buffer) : ~EndsLine(buffer[i])

\* The answers a line within the limit gets for its kind.
AsAsked(n) ==
  /\ Given(n, TRUE)  = IF lines[n].kind \in {"blank", "malformed", "notification"} THEN 0 ELSE 1
  /\ Given(n, FALSE) = IF lines[n].kind = "malformed" THEN 1 ELSE 0

\* A line has no answer by its id before it is handled and at most one after; within
\* the limit, it has no other before, and what it asked for after.
Counted ==
  \A n \in Sent :
    /\ Given(n, TRUE) <= 1
    /\ ~Handled(n) => Given(n, TRUE) = 0
    /\ Fits(n) /\ ~Handled(n) => Given(n, FALSE) = 0
    /\ Fits(n) /\ Handled(n) => AsAsked(n)

\* Answers by id are of handled lines, and a marker's block has been registered.
Told ==
  \A a \in Answers :
    /\ a \in Answer /\ a.line \in Sent
    /\ a.id => Handled(a.line)
    /\ a.result = "marker" => a.id /\ lines[a.line].kind = "optimize" /\ lines[a.line].arg \in store

\* The job at one place will be written before the one at another.
Sooner(a, i, b, j) == a.ticks < b.ticks \/ (a.ticks = b.ticks /\ i < j)

\* The answers of tools wait in the order of their lines, behind those written,
\* but for what may overtake the error of a call that throws.
InOrder ==
  /\ \A i \in 1..Len(jobs) :
       /\ jobs[i].answer.id
       /\ IsTool(jobs[i].answer.line) /\ ~Throws(jobs[i].answer.line) => jobs[i].ticks <= 3
  /\ \A i, j \in 1..Len(jobs) :
       (i # j /\ IsTool(jobs[i].answer.line) /\ IsTool(jobs[j].answer.line))
         => /\ jobs[i].answer.line # jobs[j].answer.line
            /\ jobs[i].answer.line < jobs[j].answer.line
                 => \/ Sooner(jobs[i], i, jobs[j], j)
                    \/ MayOvertake(jobs[j].answer.line, jobs[i].answer.line)
  /\ \A i \in 1..Len(written), j \in 1..Len(jobs) :
       (written[i].id /\ IsTool(written[i].line) /\ IsTool(jobs[j].answer.line))
         => \/ written[i].line < jobs[j].answer.line
            \/ MayOvertake(written[i].line, jobs[j].answer.line)
  /\ ToolAnswersInOrder

\* A process that has exited has nothing left to say.
Left == process = "exited" => ~draining /\ jobs = <<>> /\ flushed = Len(written)

\* The inductive invariant.
McpInv ==
  /\ McpTypes /\ InStream /\ Uncut /\ Quiet
  /\ Counted /\ Told /\ InOrder /\ MarkersRestore /\ Left

-----------------------------------------------------------------------------
(* Taking a line out of the buffer.                                        *)

\* The line goes from the unhandled to the handled ones.
TakesLine(n) ==
  /\ n \in Sent /\ ~Handled(n)
  /\ lines' = lines
  /\ InStream' /\ Uncut'
  /\ \A m \in Sent : Handled(m)' <=> Handled(m) \/ m = n

\* What handling a line of some kind does.
Answering(n, kind) ==
  \/ kind = "optimize" /\ Optimize(n)
  \/ kind = "rehydrate" /\ Rehydrate(n)
  \/ /\ kind \in {"list", "unknown", "badBudget"}
     /\ Enqueue(n, IF kind = "list" THEN "ok" ELSE "error")
     /\ UNCHANGED <<hasher, traces>>
  \/ Reject(n, kind)

\* The loop takes the next line; within the limit it is whole.
LEMMA LineTaken ==
  ASSUME InStream, Uncut, HandleLine
  PROVE  \E n \in Sent : \E kind \in Kinds :
           /\ TakesLine(n) /\ Answering(n, kind)
           /\ kind = lines[n].kind \/ (kind \in {"malformed", "blank"} /\ ~Fits(n))
<1>1. PICK k \in 1..Len(buffer), n \in Sent :
        /\ buffer[k] = <<n, lines[n].size>> /\ \A i \in 1..(k - 1) : ~EndsLine(buffer[i])
        /\ buffer' = SubSeq(buffer, k + 1, Len(buffer))
        /\ \E kind \in IF buffer[1] = <<n, 1>> THEN {lines[n].kind} ELSE {"malformed", "blank"} :
             Answering(n, kind)
  BY DEF HandleLine, Answering
<1>2. /\ lines \in Seq(Line) /\ lines' = lines /\ unread' = unread /\ draining
  BY DEF HandleLine, InStream, stream
<1>3. /\ Consumed \in Nat /\ Got \in Nat /\ Got = Consumed + Len(buffer) /\ Got <= Len(Parts)
      /\ Len(buffer) \in Nat /\ Len(Parts) \in Nat
  <2>1. Consumed \in Nat /\ Got \in Nat /\ Got = Consumed + Len(buffer) /\ Got <= Len(Parts)
    BY <1>1, StreamEnds
  <2>2. buffer \in Seq(Nat \X Nat)
    BY DEF InStream
  <2>3. Len(buffer) \in Nat
    BY <2>2
  <2>4. Len(Parts) \in Nat
    BY <1>2, PartAt
  <2>. QED
    BY <2>1, <2>3, <2>4
<1>4. k \in 0..Len(buffer) /\ k - 1 \in 0..Len(buffer) /\ k \in Nat /\ k >= 1 /\ 1 \in 1..Len(buffer)
  BY <1>3
<1>5. /\ InStream' /\ Consumed' = Consumed + k /\ \A m : EndAt(m)' = EndAt(m)
      /\ Sent' = Sent
  BY <1>1, <1>2, <1>4, DropKeepsStream DEF EndAt, Sent
<1>6. /\ EndAt(n) = Consumed + k /\ EndAt(n) \in Nat /\ EndAt(n - 1) \in Nat
      /\ EndAt(n) = EndAt(n - 1) + lines[n].size /\ lines[n].size \in Nat /\ lines[n].size >= 1
  <2>1. buffer[k] = Parts[Consumed + k]
    BY DEF InStream
  <2>2. Consumed + k \in 1..Len(Parts)
    BY <1>3, <1>4
  <2>. QED
    BY <1>1, <1>2, <2>1, <2>2, LastPart, PartAt, SplitType
<1>7. ~Handled(n)
  BY <1>3, <1>4, <1>6 DEF Handled
<1>8. Sent \subseteq Nat /\ \A m \in Sent : m >= 1 /\ (m # 1 => m - 1 \in Sent)
  BY <1>2 DEF Sent
<1>9. ASSUME NEW m \in Sent, m < n PROVE EndAt(m) < EndAt(n) /\ EndAt(m) \in Nat
  <2>1. EndAt(m) <= EndAt(n - 1) /\ EndAt(m) \in Nat
    BY <1>2, <1>9, EndsRise, PartAt
  <2>. QED
    BY <1>6, <2>1
<1>10. ASSUME NEW m \in Sent, n < m
       PROVE  /\ EndAt(n) <= EndAt(m - 1) /\ EndAt(m - 1) < EndAt(m)
              /\ EndAt(m) \in Nat /\ EndAt(m - 1) \in Nat
  <2>1. EndAt(n) <= EndAt(m - 1)
    BY <1>2, <1>10, EndsRise
  <2>2. EndAt(m) \in Nat /\ EndAt(m - 1) \in Nat /\ EndAt(m) = EndAt(m - 1) + lines[m].size
    BY <1>2, PartAt
  <2>3. lines[m].size \in Nat /\ lines[m].size >= 1
    BY <1>2, SplitType
  <2>. QED
    BY <2>1, <2>2, <2>3
<1>11. ASSUME NEW m \in Sent, m < n PROVE Handled(m)
  <2>1. EndAt(m) <= Consumed + (k - 1)
    BY <1>3, <1>4, <1>6, <1>9, <1>11
  <2>. QED
    BY <1>1, <1>4, <2>1, NoEndBetween
<1>12. ASSUME NEW m \in Sent PROVE Handled(m)' <=> Handled(m) \/ m = n
  <2>1. Handled(m)' <=> EndAt(m) <= EndAt(n)
    BY <1>5, <1>6 DEF Handled
  <2>2. CASE m < n
    BY <1>6, <1>9, <1>11, <2>1, <2>2
  <2>3. CASE m = n
    BY <1>6, <2>1, <2>3
  <2>4. CASE n < m
    <3>1. EndAt(n) < EndAt(m) /\ EndAt(m) \in Nat
      BY <1>6, <1>10, <2>4
    <3>2. ~Handled(m)
      BY <1>3, <1>4, <1>6, <3>1 DEF Handled
    <3>. QED
      BY <1>6, <2>1, <2>4, <3>1, <3>2
  <2>. QED
    BY <1>8, <2>2, <2>3, <2>4
<1>13. Uncut'
  <2>. SUFFICES ASSUME NEW m \in Sent, EndAt(m - 1) < EndAt(n) PROVE Handled(m)'
    BY <1>2, <1>5, <1>6 DEF Uncut, Fits
  <2>1. ~(n < m)
    BY <1>6, <1>10
  <2>2. m < n \/ m = n
    BY <1>8, <2>1
  <2>. QED
    BY <1>11, <1>12, <2>2
<1>14. ASSUME Fits(n) PROVE buffer[1] = <<n, 1>>
  <2>1. ~(EndAt(n - 1) < Consumed)
    BY <1>7, <1>14 DEF Uncut
  <2>2. EndAt(n - 1) <= Consumed
    <3>1. CASE n = 1
      <4>1. EndAt(n - 1) = 0
        BY <1>2, <3>1, PartAt
      <4>. QED
        BY <1>3, <4>1
    <3>2. CASE n # 1
      <4>1. n - 1 \in Sent /\ n - 1 < n
        BY <1>8, <3>2
      <4>. QED
        BY <1>11, <4>1 DEF Handled
    <3>. QED
      BY <3>1, <3>2
  <2>3. EndAt(n - 1) = Consumed
    BY <1>3, <1>6, <2>1, <2>2
  <2>4. Parts[EndAt(n - 1) + 1] = <<n, 1>>
    <3>1. 1 \in 1..lines[n].size
      BY <1>6
    <3>. QED
      BY <1>2, <3>1, PartAt
  <2>. QED
    BY <1>4, <2>3, <2>4 DEF InStream
<1>15. PICK kind \in IF buffer[1] = <<n, 1>> THEN {lines[n].kind} ELSE {"malformed", "blank"} : Answering(n, kind)
  BY <1>1
<1>16. lines[n].kind \in Kinds
  <2>1. lines[n] \in Line
    BY <1>2 DEF Sent
  <2>. QED
    BY <2>1 DEF Line
<1>17. kind \in Kinds
  BY <1>15, <1>16 DEF Kinds
<1>18. kind = lines[n].kind \/ (kind \in {"malformed", "blank"} /\ ~Fits(n))
  BY <1>14, <1>15
<1>19. TakesLine(n)
  BY <1>2, <1>5, <1>7, <1>12, <1>13 DEF TakesLine
<1>. QED
  BY <1>15, <1>17, <1>18, <1>19

\* Handled lines come first.
LEMMA HandledFirst ==
  ASSUME InStream, NEW m \in Sent, NEW n \in Sent, Handled(n), m <= n
  PROVE  Handled(m)
<1>1. lines \in Seq(Line) /\ Consumed \in Nat /\ m \in Nat /\ n \in Nat
  BY DEF InStream, Sent
<1>2. CASE m = n
  BY <1>2
<1>3. CASE m < n
  <2>1. EndAt(m) <= EndAt(n - 1) /\ EndAt(m) \in Nat /\ EndAt(n - 1) \in Nat /\ EndAt(n) \in Nat
        /\ EndAt(n) = EndAt(n - 1) + lines[n].size /\ lines[n].size \in Nat
    BY <1>1, <1>3, EndsRise, PartAt, SplitType
  <2>. QED
    BY <1>1, <2>1 DEF Handled
<1>. QED
  BY <1>1, <1>2, <1>3

-----------------------------------------------------------------------------
(* Answering a line.                                                       *)

\* A tool, or another request that is answered by the microtask queue.
AnswerQueued(n, kind, a) ==
  /\ a \in Answer /\ a.line = n /\ a.id = TRUE
  /\ kind \in {"optimize", "rehydrate", "list", "unknown", "badBudget"}
  /\ \E t \in 1..4 : /\ jobs' = Append(jobs, [ticks |-> t, answer |-> a])
                     /\ kind \in {"optimize", "rehydrate"} => t = 3
                     /\ kind = "badBudget" => t = 4
  /\ written' = written
  /\ a.result = "marker" => kind = "optimize" /\ lines[n].arg \in store'
  /\ kind = "rehydrate" => a.result = Resolve(lines[n].arg) /\ store' = store

\* A line that is no request to a handler.
AnswerWritten(n, kind, a) ==
  /\ a \in Answer /\ a.line = n /\ a.result = "error"
  /\ kind \in {"malformed", "badVersion", "badMethod"}
  /\ a.id = (kind # "malformed")
  /\ jobs' = jobs
  /\ written' = Append(written, a)

\* A line that asks for nothing.
Unanswered(kind) ==
  kind \in {"blank", "notification"} /\ jobs' = jobs /\ written' = written

\* The arguments of tool calls are what the tools are about.
LEMMA LineArgs ==
  ASSUME lines \in Inputs, NEW n \in Sent
  PROVE  /\ lines \in Seq(Line) /\ lines[n] \in Line /\ n \in Nat
         /\ lines[n].kind = "optimize" => lines[n].arg \in Hashes
         /\ lines[n].kind = "rehydrate" => lines[n].arg \in Refs
<1>1. lines \in Seq(Line)
  BY McpAssumption
<1>2. lines[n] \in Line /\ n \in Nat
  BY <1>1 DEF Sent
<1>. QED
  BY <1>1, <1>2, McpAssumption DEF Sent

\* A lookup gives a block or nothing.
LEMMA ResolveType ==
  ASSUME IInv, NEW key \in Hashes \cup Refs
  PROVE  Resolve(key) \in Hashes \cup {None}
<1>1. store \subseteq Hashes /\ prefixIndex \in [Refs -> Hashes \cup {None, Ambiguous}]
  BY DEF IInv
<1>2. CASE key \in store
  BY <1>1, <1>2 DEF Resolve
<1>3. CASE key \notin store
  BY <1>1, <1>3 DEF Resolve
<1>. QED
  BY <1>2, <1>3

\* The microtasks an answer waits for.
LEMMA TicksType ==
  ASSUME NEW kind
  PROVE  /\ Ticks(kind) \in 1..4
         /\ kind \in {"optimize", "rehydrate"} => Ticks(kind) = 3
         /\ kind = "badBudget" => Ticks(kind) = 4
BY DEF Ticks

\* The trace store stays within its capacity.
LEMMA TracedType ==
  ASSUME NEW S, NEW kept \in Seq(S), NEW n \in S, Len(kept) <= TraceCapacity
  PROVE  Traced(Append(kept, n)) \in Seq(S) /\ Len(Traced(Append(kept, n))) <= TraceCapacity
<1>. DEFINE t == Append(kept, n)
<1>1. TraceCapacity \in Nat
  BY McpAssumption
<1>2. t \in Seq(S) /\ Len(t) = Len(kept) + 1 /\ t # <<>> /\ Len(kept) \in Nat
  OBVIOUS
<1>. HIDE DEF t
<1>3. Tail(t) \in Seq(S) /\ Len(Tail(t)) = Len(t) - 1
  BY <1>2
<1>4. Traced(t) \in Seq(S) /\ Len(Traced(t)) <= TraceCapacity
  BY <1>1, <1>2, <1>3 DEF Traced
<1>. QED
  BY <1>4 DEF t

\* An answer queued by a request handler.
LEMMA EnqueueShape ==
  ASSUME NEW n \in Nat, NEW r \in {"error", "ok", "marker", "original"} \cup Hashes \cup {None},
         Enqueue(n, r),
         NEW kind, kind = lines[n].kind, kind \in {"optimize", "rehydrate", "list", "unknown", "badBudget"},
         r = "marker" => kind = "optimize" /\ lines[n].arg \in store',
         kind = "rehydrate" => r = Resolve(lines[n].arg) /\ store' = store
  PROVE  AnswerQueued(n, kind, [line |-> n, id |-> TRUE, result |-> r])
<1>. DEFINE a == [line |-> n, id |-> TRUE, result |-> r]
            t == Ticks(lines[n].kind)
<1>1. a \in Answer /\ a.line = n /\ a.id = TRUE /\ a.result = r
  BY DEF Answer
<1>2. /\ t \in 1..4
      /\ kind \in {"optimize", "rehydrate"} => t = 3
      /\ kind = "badBudget" => t = 4
  BY TicksType
<1>3. jobs' = Append(jobs, [ticks |-> t, answer |-> a]) /\ written' = written
  BY DEF Enqueue
<1>. HIDE DEF a, t
<1>4. AnswerQueued(n, kind, a)
  BY <1>1, <1>2, <1>3 DEF AnswerQueued
<1>. QED
  BY <1>4 DEF a

\* Whatever a line is, it is answered in one of three ways, and the blocks are as
\* before or one more.
LEMMA AnsweringShape ==
  ASSUME McpTypes, NEW n \in Sent, NEW kind \in Kinds, Answering(n, kind),
         kind = lines[n].kind \/ kind \in {"malformed", "blank"}
  PROVE  /\ IInv' /\ IsFiniteSet(store') /\ store \subseteq store'
         /\ traces' \in Seq(Sent) /\ Len(traces') <= TraceCapacity
         /\ \/ \E a \in Answer : AnswerQueued(n, kind, a)
            \/ \E a \in Answer : AnswerWritten(n, kind, a)
            \/ Unanswered(kind)
<1>1. /\ lines[n] \in Line /\ n \in Nat
      /\ lines[n].kind = "optimize" => lines[n].arg \in Hashes
      /\ lines[n].kind = "rehydrate" => lines[n].arg \in Refs
  BY LineArgs DEF McpTypes
<1>2. IInv /\ IsFiniteSet(store) /\ traces \in Seq(Sent) /\ Len(traces) <= TraceCapacity
  BY DEF McpTypes
<1>. DEFINE Results == {"error", "ok", "marker", "original"} \cup Hashes \cup {None}
<1>3. \A r \in Results : [line |-> n, id |-> TRUE, result |-> r] \in Answer
  BY <1>1 DEF Answer
<1>4. ASSUME UNCHANGED hasher
      PROVE  IInv' /\ IsFiniteSet(store') /\ store \subseteq store' /\ store' = store
  BY <1>2, <1>4 DEF hasher, vars, IInv, Exact, Sharing
<1>5. CASE kind = "optimize" /\ Optimize(n)
  <2>1. lines[n].arg \in Hashes /\ kind = lines[n].kind
    BY <1>1, <1>5
  <2>2. traces' \in Seq(Sent) /\ Len(traces') <= TraceCapacity
    <3>1. traces' = Traced(Append(traces, n))
      BY <1>5 DEF Optimize
    <3>. QED
      BY <1>2, <3>1, TracedType
  <2>3. CASE RegisterBlock(lines[n].arg) /\ (Enqueue(n, "marker") \/ Enqueue(n, "original"))
    <3>1. IInv'
      BY <1>2, <2>1, <2>3, RegisterExact
    <3>2. store' = store \cup {lines[n].arg}
      BY <2>3 DEF RegisterBlock
    <3>3. IsFiniteSet(store')
      BY <1>2, <3>2, FS_AddElement
    <3>4. \E r \in {"marker", "original"} : AnswerQueued(n, kind, [line |-> n, id |-> TRUE, result |-> r])
      BY <1>1, <1>5, <2>1, <2>3, <3>2, EnqueueShape
    <3>. QED
      BY <1>3, <2>2, <3>1, <3>2, <3>3, <3>4
  <2>4. CASE UNCHANGED hasher /\ Enqueue(n, "original")
    <3>1. AnswerQueued(n, kind, [line |-> n, id |-> TRUE, result |-> "original"])
      BY <1>1, <1>5, <2>1, <2>4, EnqueueShape
    <3>. QED
      BY <1>3, <1>4, <2>2, <2>4, <3>1
  <2>. QED
    BY <1>5, <2>3, <2>4 DEF Optimize
<1>6. CASE kind = "rehydrate" /\ Rehydrate(n)
  <2>1. lines[n].arg \in Refs /\ kind = lines[n].kind
    BY <1>1, <1>6
  <2>. DEFINE r == Resolve(lines[n].arg)
  <2>2. r \in Hashes \cup {None} /\ r # "marker"
    BY <1>2, <2>1, ResolveType, McpAssumption
  <2>3. Enqueue(n, r) /\ UNCHANGED hasher /\ traces' = traces
    BY <1>6 DEF Rehydrate
  <2>4. r = Resolve(lines[n].arg) /\ store' = store
    BY <1>4, <2>3
  <2>. HIDE DEF r
  <2>5. r \in Results
    BY <2>2
  <2>6. AnswerQueued(n, kind, [line |-> n, id |-> TRUE, result |-> r])
    BY <1>1, <1>6, <2>1, <2>2, <2>3, <2>4, <2>5, EnqueueShape
  <2>. QED
    BY <1>2, <1>3, <1>4, <2>3, <2>5, <2>6
<1>7. CASE /\ kind \in {"list", "unknown", "badBudget"}
           /\ Enqueue(n, IF kind = "list" THEN "ok" ELSE "error")
           /\ UNCHANGED <<hasher, traces>>
  <2>. DEFINE r == IF kind = "list" THEN "ok" ELSE "error"
  <2>1. r \in Results /\ r # "marker" /\ Enqueue(n, r) /\ kind = lines[n].kind
        /\ kind \in {"list", "unknown", "badBudget"} /\ kind # "rehydrate"
    BY <1>7
  <2>. HIDE DEF r
  <2>2. AnswerQueued(n, kind, [line |-> n, id |-> TRUE, result |-> r])
    BY <1>1, <2>1, EnqueueShape
  <2>. QED
    BY <1>2, <1>3, <1>4, <1>7, <2>1, <2>2
<1>8. CASE Reject(n, kind)
  <2>1. UNCHANGED <<hasher, traces>>
    BY <1>8 DEF Reject
  <2>2. ASSUME NEW withId \in BOOLEAN, Write(n, withId), kind \in {"malformed", "badVersion", "badMethod"},
               withId = (kind # "malformed")
        PROVE  \E a \in Answer : AnswerWritten(n, kind, a)
    <3>. DEFINE a == [line |-> n, id |-> withId, result |-> "error"]
    <3>1. a \in Answer /\ a.line = n /\ a.id = withId /\ a.result = "error"
      BY <1>1 DEF Answer
    <3>2. written' = Append(written, a) /\ jobs' = jobs
      BY <2>2 DEF Write
    <3>. HIDE DEF a
    <3>3. AnswerWritten(n, kind, a)
      BY <2>2, <3>1, <3>2 DEF AnswerWritten
    <3>. QED
      BY <3>1, <3>3
  <2>3. CASE kind = "malformed" /\ Write(n, FALSE)
    <3>1. \E a \in Answer : AnswerWritten(n, kind, a)
      BY <2>2, <2>3
    <3>. QED
      BY <1>2, <1>4, <2>1, <3>1
  <2>4. CASE kind \in {"badVersion", "badMethod"} /\ Write(n, TRUE)
    <3>1. \E a \in Answer : AnswerWritten(n, kind, a)
      BY <2>2, <2>4
    <3>. QED
      BY <1>2, <1>4, <2>1, <3>1
  <2>5. CASE kind \in {"blank", "notification"} /\ UNCHANGED <<jobs, written>>
    BY <1>2, <1>4, <2>1, <2>5 DEF Unanswered
  <2>. QED
    BY <1>8, <2>3, <2>4, <2>5 DEF Reject
<1>. QED
  BY <1>5, <1>6, <1>7, <1>8 DEF Answering

-----------------------------------------------------------------------------
(* What a step adds to the answers.                                        *)

\* An answer queued is the only one added.
LEMMA AnswersQueued ==
  ASSUME McpTypes, NEW n \in Sent, NEW kind, NEW a, AnswerQueued(n, kind, a)
  PROVE  /\ Answers' = Answers \cup {a}
         /\ jobs' \in Seq(Job) /\ written' \in Seq(Answer)
         /\ \E t \in 1..4 : /\ [ticks |-> t, answer |-> a] \in Job
                             /\ jobs' = Append(jobs, [ticks |-> t, answer |-> a])
<1>1. jobs \in Seq(Job) /\ written \in Seq(Answer) /\ a \in Answer /\ written' = written
  BY DEF McpTypes, AnswerQueued
<1>2. PICK t \in 1..4 : jobs' = Append(jobs, [ticks |-> t, answer |-> a])
  BY DEF AnswerQueued
<1>. DEFINE j == [ticks |-> t, answer |-> a]
<1>3. j \in Job /\ j.answer = a
  BY <1>1 DEF Job
<1>. HIDE DEF j, Job
<1>4. jobs' = Append(jobs, j)
  BY <1>2 DEF j
<1>5. ToSet(jobs') = ToSet(jobs) \cup {j}
  BY <1>1, <1>3, <1>4, ToSetAppend
<1>6. Answers' = Answers \cup {a}
  BY <1>1, <1>3, <1>5 DEF Answers
<1>7. jobs' \in Seq(Job)
  BY <1>1, <1>3, <1>4, AppendProperties
<1>. QED
  BY <1>1, <1>2, <1>3, <1>4, <1>6, <1>7 DEF j

\* So is an answer written at once.
LEMMA AnswersWritten ==
  ASSUME McpTypes, NEW a \in Answer, jobs' = jobs, written' = Append(written, a)
  PROVE  Answers' = Answers \cup {a} /\ jobs' \in Seq(Job) /\ written' \in Seq(Answer)
<1>1. jobs \in Seq(Job) /\ written \in Seq(Answer)
  BY DEF McpTypes
<1>2. ToSet(written') = ToSet(written) \cup {a}
  BY <1>1, ToSetAppend
<1>3. Answers' = Answers \cup {a}
  BY <1>2 DEF Answers
<1>. QED
  BY <1>1, <1>3, AppendProperties

\* A turn of the microtask queue adds none and loses none.
LEMMA AnswersRun ==
  ASSUME McpTypes, RunJob
  PROVE  Answers' = Answers
<1>. DEFINE h == Head(jobs)
<1>1. jobs \in Seq(Job) /\ written \in Seq(Answer) /\ jobs # <<>> /\ h \in Job /\ Tail(jobs) \in Seq(Job)
  BY DEF McpTypes, RunJob
<1>2. h.answer \in Answer /\ h.ticks \in 1..4
  BY <1>1 DEF Job
<1>3. ToSet(jobs) = ToSet(Tail(jobs)) \cup {h}
  BY <1>1, ToSetTail
<1>. DEFINE R == {job.answer : job \in ToSet(Tail(jobs))}
<1>4. Answers = ToSet(written) \cup R \cup {h.answer}
  BY <1>3 DEF Answers
<1>. HIDE DEF h
<1>5. CASE h.ticks = 1 /\ written' = Append(written, h.answer) /\ jobs' = Tail(jobs)
  <2>1. ToSet(written') = ToSet(written) \cup {h.answer}
    BY <1>1, <1>2, <1>5, ToSetAppend
  <2>2. Answers' = ToSet(written') \cup R
    BY <1>5 DEF Answers
  <2>. QED
    BY <1>4, <2>1, <2>2
<1>6. CASE h.ticks > 1 /\ written' = written /\ jobs' = Append(Tail(jobs), [h EXCEPT !.ticks = @ - 1])
  <2>. DEFINE g == [h EXCEPT !.ticks = @ - 1]
  <2>1. g \in Job /\ g.answer = h.answer
    BY <1>1, <1>2, <1>6 DEF Job
  <2>. DEFINE tl == Tail(jobs)
  <2>2. jobs' = Append(tl, g) /\ tl \in Seq(Job) /\ R = {job.answer : job \in ToSet(tl)}
    BY <1>1, <1>6
  <2>. HIDE DEF g, tl, R, Job
  <2>4. ToSet(jobs') = ToSet(tl) \cup {g}
    BY <2>1, <2>2, ToSetAppend
  <2>3. Answers' = ToSet(written) \cup R \cup {h.answer}
    BY <1>6, <2>1, <2>2, <2>4 DEF Answers
  <2>. QED
    BY <1>4, <2>3
<1>. QED
  BY <1>5, <1>6 DEF RunJob, h

-----------------------------------------------------------------------------
(* Counting the answers of a line.                                         *)

\* A line that is handled gets what its kind asks for, the others nothing new.
LEMMA LineKeepsCounted ==
  ASSUME McpInv, NEW n, TakesLine(n), NEW kind \in Kinds,
         \/ \E a \in Answer : AnswerQueued(n, kind, a)
         \/ \E a \in Answer : AnswerWritten(n, kind, a)
         \/ Unanswered(kind),
         kind = lines[n].kind \/ (kind \in {"malformed", "blank"} /\ ~Fits(n))
  PROVE  Counted'
<1>1. /\ written \in Seq(Answer) /\ jobs \in Seq(Job) /\ n \in Sent /\ ~Handled(n) /\ lines' = lines
      /\ McpTypes
      /\ \A m \in Sent : Handled(m)' <=> Handled(m) \/ m = n
  BY DEF McpInv, McpTypes, TakesLine
<1>2. \A m \in Sent, w \in BOOLEAN : Given(m, w) \in Nat
  BY <1>1, GivenType
<1>. DEFINE up(w) == \/ w = TRUE /\ kind \notin {"malformed", "blank", "notification"}
                     \/ w = FALSE /\ kind = "malformed"
<1>3. ASSUME NEW m \in Sent, NEW w \in BOOLEAN
      PROVE  Given(m, w)' = Given(m, w) + (IF m = n /\ up(w) THEN 1 ELSE 0)
  <2>1. CASE \E a \in Answer : AnswerQueued(n, kind, a)
    <3>1. PICK a \in Answer : AnswerQueued(n, kind, a)
      BY <2>1
    <3>2. PICK t \in 1..4 : LET j == [ticks |-> t, answer |-> a] IN j \in Job /\ jobs' = Append(jobs, j)
      BY <1>1, <3>1, AnswersQueued
    <3>. DEFINE j == [ticks |-> t, answer |-> a]
    <3>3. j \in Job /\ jobs' = Append(jobs, j) /\ j.answer = a /\ written' = written
          /\ a.line = n /\ a.id = TRUE /\ kind \in {"optimize", "rehydrate", "list", "unknown", "badBudget"}
      BY <3>1, <3>2 DEF AnswerQueued
    <3>. HIDE DEF j
    <3>4. Given(m, w)' = Given(m, w) + (IF a.line = m /\ a.id = w THEN 1 ELSE 0)
      BY <1>1, <3>3, GivenQueued
    <3>5. (a.line = m /\ a.id = w) <=> (m = n /\ up(w))
      BY <3>3
    <3>. QED
      BY <3>4, <3>5
  <2>2. CASE \E a \in Answer : AnswerWritten(n, kind, a)
    <3>1. PICK a \in Answer : AnswerWritten(n, kind, a)
      BY <2>2
    <3>2. /\ jobs' = jobs /\ written' = Append(written, a) /\ a.line = n /\ a.id = (kind # "malformed")
          /\ kind \in {"malformed", "badVersion", "badMethod"}
      BY <3>1 DEF AnswerWritten
    <3>3. Given(m, w)' = Given(m, w) + (IF a.line = m /\ a.id = w THEN 1 ELSE 0)
      BY <1>1, <3>2, GivenWritten
    <3>4. (a.line = m /\ a.id = w) <=> (m = n /\ up(w))
      <4>1. CASE kind = "malformed"
        <5>1. a.id = FALSE
          BY <3>2, <4>1
        <5>. QED
          BY <3>2, <4>1, <5>1
      <4>2. CASE kind # "malformed"
        <5>1. a.id = TRUE
          BY <3>2, <4>2
        <5>. QED
          BY <3>2, <4>2, <5>1
      <4>. QED
        BY <4>1, <4>2
    <3>. QED
      BY <3>3, <3>4
  <2>3. CASE Unanswered(kind)
    <3>1. jobs' = jobs /\ written' = written /\ ~up(w)
      BY <2>3 DEF Unanswered
    <3>2. Given(m, w)' = Given(m, w)
      BY <3>1 DEF Given
    <3>3. Given(m, w) \in Nat /\ \A x \in Nat : x + 0 = x
      BY <1>2
    <3>. HIDE DEF up
    <3>. QED
      BY <3>1, <3>2, <3>3
  <2>. QED
    BY <2>1, <2>2, <2>3
<1>4. /\ Given(n, TRUE) = 0
      /\ Fits(n) => Given(n, FALSE) = 0 /\ kind = lines[n].kind
  BY <1>1 DEF McpInv, Counted
<1>5. /\ up(TRUE) <=> kind \notin {"malformed", "blank", "notification"}
      /\ up(FALSE) <=> kind = "malformed"
  OBVIOUS
<1>. HIDE DEF up
<1>6. ASSUME NEW m \in Sent, NEW w \in BOOLEAN
      PROVE  /\ m # n \/ ~up(w) => Given(m, w)' = Given(m, w)
             /\ m = n /\ up(w) => Given(m, w)' = Given(m, w) + 1
  <2>. DEFINE x == Given(m, w)
              y == Given(m, w)'
  <2>1. x \in Nat /\ y = x + (IF m = n /\ up(w) THEN 1 ELSE 0)
    BY <1>2, <1>3
  <2>. HIDE DEF x, y
  <2>2. /\ m # n \/ ~up(w) => y = x
        /\ m = n /\ up(w) => y = x + 1
    BY <2>1
  <2>. QED
    BY <2>2 DEF x, y
<1>0. 0 + 1 = 1
  OBVIOUS
<1>7. n \in Sent /\ TRUE \in BOOLEAN /\ FALSE \in BOOLEAN
  BY <1>1
<1>8. Given(n, TRUE)' = IF kind \in {"malformed", "blank", "notification"} THEN 0 ELSE 1
  <2>1. CASE up(TRUE)
    <3>1. Given(n, TRUE)' = Given(n, TRUE) + 1
      BY <1>6, <1>7, <2>1
    <3>2. Given(n, TRUE)' = 1
      BY <1>0, <1>4, <3>1, Zenon
    <3>. QED
      BY <1>5, <2>1, <3>2
  <2>2. CASE ~up(TRUE)
    <3>1. Given(n, TRUE)' = Given(n, TRUE)
      BY <1>6, <1>7, <2>2
    <3>. QED
      BY <1>4, <1>5, <2>2, <3>1
  <2>. QED
    BY <2>1, <2>2
<1>9. ASSUME Fits(n) PROVE Given(n, FALSE)' = IF kind = "malformed" THEN 1 ELSE 0
  <2>1. CASE up(FALSE)
    <3>1. Given(n, FALSE)' = Given(n, FALSE) + 1
      BY <1>6, <1>7, <2>1
    <3>2. Given(n, FALSE)' = 1
      BY <1>0, <1>4, <1>9, <3>1, Zenon
    <3>. QED
      BY <1>5, <2>1, <3>2
  <2>2. CASE ~up(FALSE)
    <3>1. Given(n, FALSE)' = Given(n, FALSE)
      BY <1>6, <1>7, <2>2
    <3>. QED
      BY <1>4, <1>5, <1>9, <2>2, <3>1
  <2>. QED
    BY <2>1, <2>2
<1>10. ASSUME NEW m \in Sent
       PROVE  /\ Given(m, TRUE)' <= 1
              /\ ~Handled(m)' => Given(m, TRUE)' = 0
              /\ Fits(m) /\ ~Handled(m)' => Given(m, FALSE)' = 0
              /\ Fits(m) /\ Handled(m)' => AsAsked(m)'
  <2>1. CASE m # n
    <3>1. Given(m, TRUE)' = Given(m, TRUE) /\ Given(m, FALSE)' = Given(m, FALSE)
      BY <1>6, <1>7, <2>1
    <3>2. Handled(m)' <=> Handled(m)
      BY <1>1, <2>1
    <3>3. /\ Given(m, TRUE) <= 1
          /\ ~Handled(m) => Given(m, TRUE) = 0
          /\ Fits(m) /\ ~Handled(m) => Given(m, FALSE) = 0
          /\ Fits(m) /\ Handled(m) => AsAsked(m)
      BY DEF McpInv, Counted
    <3>4. AsAsked(m)' <=> AsAsked(m)
      BY <1>1, <3>1 DEF AsAsked
    <3>. QED
      BY <3>1, <3>2, <3>3, <3>4
  <2>2. CASE m = n
    <3>1. Handled(m)'
      BY <1>1, <2>2
    <3>2. Given(m, TRUE)' <= 1
      <4>1. \A x : x = (IF kind \in {"malformed", "blank", "notification"} THEN 0 ELSE 1) => x <= 1
        OBVIOUS
      <4>. QED
        BY <1>8, <2>2, <4>1, Zenon
    <3>3. ASSUME Fits(m) PROVE AsAsked(m)'
      <4>1. lines'[m].kind = kind
        BY <1>1, <1>4, <2>2, <3>3
      <4>2. AsAsked(n)'
        BY <1>8, <1>9, <2>2, <3>3, <4>1 DEF AsAsked
      <4>. QED
        BY <2>2, <4>2
    <3>. QED
      BY <3>1, <3>2, <3>3
  <2>. QED
    BY <2>1, <2>2
<1>11. Sent' = Sent /\ \A m : Fits(m)' <=> Fits(m)
  BY <1>1 DEF Sent, Fits
<1>. QED
  BY <1>10, <1>11 DEF Counted

\* What an answer a step has added, and the ones before it, say remains true.
LEMMA LineKeepsTold ==
  ASSUME McpInv, NEW n, TakesLine(n), NEW kind \in Kinds,
         \/ \E a \in Answer : AnswerQueued(n, kind, a)
         \/ \E a \in Answer : AnswerWritten(n, kind, a)
         \/ Unanswered(kind),
         kind = lines[n].kind \/ (kind \in {"malformed", "blank"} /\ ~Fits(n)),
         store \subseteq store'
  PROVE  Told'
<1>1. /\ n \in Sent /\ lines' = lines /\ McpTypes /\ Sent' = Sent
      /\ \A m \in Sent : Handled(m)' <=> Handled(m) \/ m = n
  BY DEF McpInv, TakesLine, Sent
<1>2. \E b \in Answer : /\ Answers' = Answers \/ Answers' = Answers \cup {b}
                        /\ b.line = n
                        /\ b.result = "marker" => b.id /\ lines[n].kind = "optimize" /\ lines[n].arg \in store'
  <2>1. CASE \E a \in Answer : AnswerQueued(n, kind, a)
    <3>1. PICK a \in Answer : AnswerQueued(n, kind, a)
      BY <2>1
    <3>2. Answers' = Answers \cup {a}
      BY <1>1, <3>1, AnswersQueued
    <3>. QED
      BY <3>1, <3>2 DEF AnswerQueued
  <2>2. CASE \E a \in Answer : AnswerWritten(n, kind, a)
    <3>1. PICK a \in Answer : AnswerWritten(n, kind, a)
      BY <2>2
    <3>2. Answers' = Answers \cup {a}
      BY <1>1, <3>1, AnswersWritten DEF AnswerWritten
    <3>. QED
      BY <3>1, <3>2 DEF AnswerWritten
  <2>3. CASE Unanswered(kind)
    <3>. DEFINE b == [line |-> n, id |-> TRUE, result |-> "error"]
    <3>1. n \in Nat
      BY <1>1, LineArgs DEF McpTypes
    <3>2. b \in Answer /\ b.line = n /\ b.result # "marker"
      BY <3>1 DEF Answer
    <3>3. Answers' = Answers
      BY <2>3 DEF Unanswered, Answers
    <3>. QED
      BY <3>2, <3>3
  <2>. QED
    BY <2>1, <2>2, <2>3
<1>3. PICK b \in Answer : /\ Answers' = Answers \/ Answers' = Answers \cup {b}
                          /\ b.line = n
                          /\ b.result = "marker" => b.id /\ lines[n].kind = "optimize" /\ lines[n].arg \in store'
  BY <1>2
<1>4. ASSUME NEW a \in Answers'
      PROVE  /\ a \in Answer /\ a.line \in Sent
             /\ a.id => Handled(a.line)'
             /\ a.result = "marker" => a.id /\ lines[a.line].kind = "optimize" /\ lines[a.line].arg \in store'
  <2>1. CASE a \in Answers
    BY <1>1, <2>1 DEF McpInv, Told
  <2>2. CASE a = b
    BY <1>1, <1>3, <2>2
  <2>. QED
    BY <1>3, <2>1, <2>2
<1>. QED
  BY <1>1, <1>4 DEF Told

\* A line taken now comes after those answered by their id.
LEMMA TakenLast ==
  ASSUME InStream, Told, NEW n \in Sent, ~Handled(n), NEW a \in Answers, a.id
  PROVE  a.line < n
<1>1. a.line \in Sent /\ Handled(a.line)
  BY DEF Told
<1>2. ~(n <= a.line)
  BY <1>1, HandledFirst
<1>. QED
  BY <1>1, <1>2 DEF Sent, InStream

\* A tool's answer is queued behind those of the tools called before.
LEMMA LineKeepsOrder ==
  ASSUME McpInv, NEW n, TakesLine(n), NEW kind \in Kinds,
         \/ \E a \in Answer : AnswerQueued(n, kind, a)
         \/ \E a \in Answer : AnswerWritten(n, kind, a)
         \/ Unanswered(kind),
         kind = lines[n].kind \/ (kind \in {"malformed", "blank"} /\ ~Fits(n))
  PROVE  InOrder'
<1>1. /\ n \in Sent /\ ~Handled(n) /\ lines' = lines /\ McpTypes /\ InStream /\ Told /\ InOrder
      /\ jobs \in Seq(Job) /\ written \in Seq(Answer)
      /\ \A m : IsTool(m)' = IsTool(m) /\ Throws(m)' = Throws(m)
      /\ \A m, k : MayOvertake(m, k)' = MayOvertake(m, k)
  BY DEF McpInv, McpTypes, TakesLine, IsTool, Throws, MayOvertake
<1>2. ASSUME NEW i \in 1..Len(jobs)
      PROVE  jobs[i].answer \in Answers /\ jobs[i].ticks \in 1..4
  <2>1. jobs[i] \in Job /\ jobs[i] \in ToSet(jobs)
    BY <1>1 DEF ToSet
  <2>2. jobs[i].ticks \in 1..4
    BY <2>1 DEF Job
  <2>. QED
    BY <2>1, <2>2 DEF Answers
<1>3. \A i \in 1..Len(written) : written[i] \in Answers
  BY <1>1 DEF Answers, ToSet
<1>4. \A a \in Answers : a.id => a.line < n
  BY <1>1, TakenLast
<1>5. n \in Nat /\ \A a \in Answers : a.line \in Nat
  BY <1>1, LineArgs DEF McpTypes, Told
<1>6. CASE \E a \in Answer : AnswerQueued(n, kind, a)
  <2>1. PICK a \in Answer : AnswerQueued(n, kind, a)
    BY <1>6
  <2>2. a.line = n /\ a.id = TRUE /\ written' = written /\ kind \in {"optimize", "rehydrate", "list", "unknown", "badBudget"}
    BY <2>1 DEF AnswerQueued
  <2>3. kind = lines[n].kind
    BY <2>2
  <2>4. PICK t \in 1..4 : /\ jobs' = Append(jobs, [ticks |-> t, answer |-> a])
                          /\ kind \in {"optimize", "rehydrate"} => t = 3
                          /\ kind = "badBudget" => t = 4
    BY <2>1 DEF AnswerQueued
  <2>. DEFINE j == [ticks |-> t, answer |-> a]
  <2>5. /\ jobs' = Append(jobs, j) /\ j.answer = a /\ j.ticks = t
        /\ IsTool(n) => t = IF Throws(n) THEN 4 ELSE 3
    BY <2>3, <2>4 DEF IsTool, Throws
  <2>. HIDE DEF j
  <2>6. /\ Len(jobs) \in Nat /\ Len(jobs') = Len(jobs) + 1 /\ jobs'[Len(jobs) + 1] = j
        /\ \A i \in 1..Len(jobs) : jobs'[i] = jobs[i]
    BY <1>1, <2>5
  <2>7. \A i \in 1..Len(jobs') : i \in 1..Len(jobs) \/ i = Len(jobs) + 1
    BY <2>6
  <2>8. \A i \in 1..Len(jobs') :
          /\ jobs'[i].answer.id
          /\ IsTool(jobs'[i].answer.line) /\ ~Throws(jobs'[i].answer.line) => jobs'[i].ticks <= 3
    <3>1. \A i \in 1..Len(jobs) :
            /\ jobs[i].answer.id
            /\ IsTool(jobs[i].answer.line) /\ ~Throws(jobs[i].answer.line) => jobs[i].ticks <= 3
      BY <1>1 DEF InOrder
    <3>2. j.answer.id /\ (IsTool(j.answer.line) /\ ~Throws(j.answer.line) => j.ticks <= 3)
      BY <2>2, <2>5
    <3>. QED
      BY <2>6, <2>7, <3>1, <3>2
  <2>9. ASSUME NEW i \in 1..Len(jobs)
        PROVE  /\ jobs[i].answer.line < n /\ jobs[i].answer.line \in Nat
               /\ IsTool(n) /\ IsTool(jobs[i].answer.line)
                    => \/ Sooner(jobs[i], i, j, Len(jobs) + 1)
                       \/ MayOvertake(n, jobs[i].answer.line)
    <3>1. jobs[i].answer.id /\ jobs[i].answer \in Answers /\ jobs[i].ticks \in 1..4
      BY <1>1, <1>2 DEF InOrder
    <3>2. jobs[i].answer.line < n /\ jobs[i].answer.line \in Nat
      BY <1>4, <1>5, <3>1
    <3>3. i < Len(jobs) + 1
      BY <2>6
    <3>4. ASSUME IsTool(n), IsTool(jobs[i].answer.line), ~MayOvertake(n, jobs[i].answer.line)
          PROVE  jobs[i].ticks < j.ticks \/ jobs[i].ticks = j.ticks
      <4>1. CASE Throws(n)
        <5>1. j.ticks = 4
          BY <2>5, <3>4, <4>1
        <5>. QED
          BY <3>1, <5>1
      <4>2. CASE ~Throws(n)
        <5>1. j.ticks = 3
          BY <2>5, <3>4, <4>2
        <5>2. ~Throws(jobs[i].answer.line)
          BY <3>4, <4>2 DEF MayOvertake
        <5>3. jobs[i].ticks <= 3
          BY <1>1, <3>4, <5>2 DEF InOrder
        <5>. QED
          BY <3>1, <5>1, <5>3
      <4>. QED
        BY <4>1, <4>2
    <3>. QED
      BY <3>2, <3>3, <3>4 DEF Sooner
  <2>10. ASSUME NEW i \in 1..Len(jobs'), NEW k \in 1..Len(jobs'), i # k,
                IsTool(jobs'[i].answer.line), IsTool(jobs'[k].answer.line)
         PROVE  /\ jobs'[i].answer.line # jobs'[k].answer.line
                /\ jobs'[i].answer.line < jobs'[k].answer.line
                     => \/ Sooner(jobs'[i], i, jobs'[k], k)
                        \/ MayOvertake(jobs'[k].answer.line, jobs'[i].answer.line)
    <3>1. CASE i \in 1..Len(jobs) /\ k \in 1..Len(jobs)
      BY <1>1, <2>6, <2>10, <3>1 DEF InOrder
    <3>2. CASE i \in 1..Len(jobs) /\ k = Len(jobs) + 1
      <4>1. jobs'[i] = jobs[i] /\ jobs'[k] = j /\ j.answer.line = n /\ IsTool(n)
        BY <2>2, <2>5, <2>6, <2>10, <3>2
      <4>2. /\ jobs[i].answer.line < n /\ jobs[i].answer.line \in Nat /\ n \in Nat
            /\ Sooner(jobs[i], i, j, k) \/ MayOvertake(n, jobs[i].answer.line)
        BY <1>5, <2>9, <2>10, <3>2, <4>1
      <4>3. jobs[i].answer.line # n
        BY <4>2
      <4>. QED
        BY <4>1, <4>2, <4>3
    <3>3. CASE i = Len(jobs) + 1 /\ k \in 1..Len(jobs)
      <4>1. jobs'[k] = jobs[k] /\ jobs'[i].answer.line = n
        BY <2>2, <2>5, <2>6, <3>3
      <4>2. jobs[k].answer.line < n /\ jobs[k].answer.line \in Nat /\ n \in Nat
        BY <1>5, <2>9, <3>3
      <4>3. jobs[k].answer.line # n /\ ~(n < jobs[k].answer.line)
        BY <4>2
      <4>. QED
        BY <4>1, <4>3
    <3>. QED
      BY <2>7, <2>10, <3>1, <3>2, <3>3
  <2>11. ASSUME NEW i \in 1..Len(written), NEW k \in 1..Len(jobs'),
                written[i].id, IsTool(written[i].line), IsTool(jobs'[k].answer.line)
         PROVE  \/ written[i].line < jobs'[k].answer.line
                \/ MayOvertake(written[i].line, jobs'[k].answer.line)
    <3>1. CASE k \in 1..Len(jobs)
      BY <1>1, <2>6, <2>11, <3>1 DEF InOrder
    <3>2. CASE k = Len(jobs) + 1
      <4>1. jobs'[k].answer.line = n
        BY <2>2, <2>5, <2>6, <3>2
      <4>. QED
        BY <1>3, <1>4, <2>11, <4>1
    <3>. QED
      BY <2>7, <3>1, <3>2
  <2>12. ToolAnswersInOrder'
    BY <1>1, <2>2 DEF InOrder, ToolAnswersInOrder
  <2>. QED
    BY <1>1, <2>2, <2>8, <2>10, <2>11, <2>12 DEF InOrder
<1>7. CASE \E a \in Answer : AnswerWritten(n, kind, a)
  <2>1. PICK a \in Answer : AnswerWritten(n, kind, a)
    BY <1>7
  <2>2. jobs' = jobs /\ written' = Append(written, a) /\ a.line = n
    BY <2>1 DEF AnswerWritten
  <2>3. a.id => ~IsTool(a.line)
    BY <2>1 DEF AnswerWritten, IsTool
  <2>4. /\ Len(written) \in Nat /\ Len(written') = Len(written) + 1 /\ written'[Len(written) + 1] = a
        /\ \A i \in 1..Len(written) : written'[i] = written[i]
    BY <1>1, <2>2
  <2>5. \A i \in 1..Len(written') : written'[i].id /\ IsTool(written'[i].line) => i \in 1..Len(written)
    BY <2>3, <2>4
  <2>6. ToolAnswersInOrder'
    BY <1>1, <2>4, <2>5 DEF InOrder, ToolAnswersInOrder
  <2>7. ASSUME NEW i \in 1..Len(written'), NEW k \in 1..Len(jobs),
               written'[i].id, IsTool(written'[i].line), IsTool(jobs[k].answer.line)
        PROVE  \/ written'[i].line < jobs[k].answer.line
               \/ MayOvertake(written'[i].line, jobs[k].answer.line)
    BY <1>1, <2>4, <2>5, <2>7 DEF InOrder
  <2>. QED
    BY <1>1, <2>2, <2>6, <2>7 DEF InOrder
<1>8. CASE Unanswered(kind)
  BY <1>1, <1>8 DEF Unanswered, InOrder, ToolAnswersInOrder
<1>. QED
  BY <1>6, <1>7, <1>8

-----------------------------------------------------------------------------
(* Markers.                                                                *)

\* The ref of a registered block finds it, or nothing when others have it too.
LEMMA ResolveShared ==
  ASSUME IInv, IsFiniteSet(store), NEW h \in store
  PROVE  \/ Resolve(RefOf[h]) = h
         \/ Resolve(RefOf[h]) = None /\ Cardinality({g \in store : RefOf[g] = RefOf[h]}) > 1
<1>. DEFINE ref == RefOf[h]
<1>1. /\ h \in Hashes /\ ref \in Refs /\ ref \notin store /\ h # Ambiguous /\ h \in Sharing(ref)
      /\ Exact(ref)
  BY HasherAssumption DEF IInv, Sharing
<1>. HIDE DEF ref
<1>2. CASE \E g \in Hashes : Sharing(ref) = {g} /\ prefixIndex[ref] = g
  <2>1. prefixIndex[ref] = h
    BY <1>1, <1>2
  <2>. QED
    BY <1>1, <2>1 DEF Resolve, ref
<1>3. CASE (\E f, g \in Sharing(ref) : f # g) /\ prefixIndex[ref] = Ambiguous
  <2>1. Resolve(ref) = None
    BY <1>1, <1>3 DEF Resolve
  <2>2. PICK f \in Sharing(ref), g \in Sharing(ref) : f # g
    BY <1>3
  <2>3. IsFiniteSet({f}) /\ Cardinality({f}) = 1
    BY FS_Singleton
  <2>4. IsFiniteSet({f} \cup {g}) /\ Cardinality({f} \cup {g}) = 2
    <3>1. Cardinality({f} \cup {g}) = 1 + 1 /\ IsFiniteSet({f} \cup {g})
      BY <2>2, <2>3, FS_AddElement
    <3>. QED
      BY <3>1
  <2>5. IsFiniteSet(Sharing(ref)) /\ Cardinality(Sharing(ref)) \in Nat
    <3>1. Sharing(ref) \subseteq store
      BY DEF Sharing
    <3>. QED
      BY <3>1, FS_Subset, FS_CardinalityType
  <2>6. Cardinality({f} \cup {g}) <= Cardinality(Sharing(ref))
    BY <2>2, <2>5, FS_Subset
  <2>7. Cardinality(Sharing(ref)) > 1
    BY <2>4, <2>5, <2>6
  <2>. QED
    BY <2>1, <2>7 DEF Sharing, ref
<1>. QED
  BY <1>1, <1>2, <1>3 DEF Exact

\* More blocks share a ref after others have been registered.
LEMMA SharedGrows ==
  ASSUME IsFiniteSet(store'), store \subseteq store', NEW ref,
         Cardinality({h \in store : RefOf[h] = ref}) > 1
  PROVE  Cardinality({h \in store' : RefOf[h] = ref}) > 1
<1>. DEFINE A == {h \in store : RefOf[h] = ref}
            B == {h \in store' : RefOf[h] = ref}
<1>1. B \subseteq store' /\ A \subseteq B
  OBVIOUS
<1>. HIDE DEF A, B
<1>2. IsFiniteSet(B)
  BY <1>1, FS_Subset
<1>3. IsFiniteSet(A) /\ Cardinality(A) <= Cardinality(B)
  BY <1>1, <1>2, FS_Subset
<1>4. Cardinality(A) \in Nat /\ Cardinality(B) \in Nat
  BY <1>2, <1>3, FS_CardinalityType
<1>5. Cardinality(A) > 1
  BY DEF A
<1>6. Cardinality(B) > 1
  BY <1>3, <1>4, <1>5
<1>. QED
  BY <1>6 DEF B

\* A rehydration answers with the block of an earlier marker, unless its ref has
\* become ambiguous.
LEMMA LineKeepsRestore ==
  ASSUME McpInv, NEW n, TakesLine(n), NEW kind \in Kinds,
         \/ \E a \in Answer : AnswerQueued(n, kind, a)
         \/ \E a \in Answer : AnswerWritten(n, kind, a)
         \/ Unanswered(kind),
         kind = lines[n].kind \/ (kind \in {"malformed", "blank"} /\ ~Fits(n)),
         store \subseteq store', IsFiniteSet(store')
  PROVE  MarkersRestore'
<1>1. /\ n \in Sent /\ ~Handled(n) /\ lines' = lines /\ McpTypes /\ InStream /\ Told /\ MarkersRestore
      /\ IInv /\ IsFiniteSet(store)
  BY DEF McpInv, McpTypes, TakesLine
<1>2. ASSUME NEW given \in Answers', NEW asked \in Answers',
             given.result = "marker",
             lines[asked.line].kind = "rehydrate", asked.id,
             given.line < asked.line,
             RefOf[lines[given.line].arg] = lines[asked.line].arg
      PROVE  \/ asked.result = lines[given.line].arg
             \/ /\ asked.result = None
                /\ Cardinality({h \in store' : RefOf[h] = lines[asked.line].arg}) > 1
  <2>1. ASSUME asked \in Answers PROVE given \in Answers
    <3>1. asked.line < n /\ asked.line \in Nat /\ n \in Nat
      BY <1>1, <1>2, <2>1, TakenLast, LineArgs DEF McpTypes, Told
    <3>2. given \in Answers \/ given.line = n
      <4>1. CASE \E a \in Answer : AnswerQueued(n, kind, a)
        <5>1. PICK a \in Answer : AnswerQueued(n, kind, a)
          BY <4>1
        <5>2. Answers' = Answers \cup {a}
          BY <1>1, <5>1, AnswersQueued
        <5>3. a.line = n
          BY <5>1 DEF AnswerQueued
        <5>. QED
          BY <5>2, <5>3
      <4>2. CASE \E a \in Answer : AnswerWritten(n, kind, a)
        <5>1. PICK a \in Answer : AnswerWritten(n, kind, a)
          BY <4>2
        <5>. QED
          BY <1>1, <5>1, AnswersWritten DEF AnswerWritten
      <4>3. CASE Unanswered(kind)
        BY <4>3 DEF Unanswered, Answers
      <4>. QED
        BY <4>1, <4>2, <4>3
    <3>3. ~(n < asked.line)
      BY <3>1
    <3>. QED
      BY <1>2, <3>2, <3>3
  <2>2. CASE asked \in Answers
    <3>1. \/ asked.result = lines[given.line].arg
          \/ asked.result = None /\ Cardinality({h \in store : RefOf[h] = lines[asked.line].arg}) > 1
      BY <1>1, <1>2, <2>1, <2>2 DEF MarkersRestore
    <3>. QED
      BY <3>1, SharedGrows
  <2>3. CASE asked \notin Answers
    <3>1. CASE \E a \in Answer : AnswerQueued(n, kind, a)
      <4>1. PICK a \in Answer : AnswerQueued(n, kind, a)
        BY <3>1
      <4>2. Answers' = Answers \cup {a} /\ asked = a /\ a.line = n
        <5>1. Answers' = Answers \cup {a}
          BY <1>1, <4>1, AnswersQueued
        <5>2. a.line = n
          BY <4>1 DEF AnswerQueued
        <5>. QED
          BY <2>3, <5>1, <5>2
      <4>3. kind = "rehydrate"
        BY <1>2, <4>1, <4>2 DEF AnswerQueued
      <4>4. asked.result = Resolve(lines[n].arg) /\ store' = store
        BY <4>1, <4>2, <4>3 DEF AnswerQueued
      <4>5. n \in Nat /\ ~(n < n)
        BY <1>1, LineArgs DEF McpTypes
      <4>6. given \in Answers
        BY <1>2, <4>2, <4>5
      <4>7. lines[given.line].arg \in store
        BY <1>1, <1>2, <4>6 DEF Told
      <4>. QED
        BY <1>1, <1>2, <4>2, <4>4, <4>7, ResolveShared
    <3>2. CASE \E a \in Answer : AnswerWritten(n, kind, a)
      <4>1. PICK a \in Answer : AnswerWritten(n, kind, a)
        BY <3>2
      <4>2. Answers' = Answers \cup {a} /\ asked = a /\ a.line = n
        BY <1>1, <2>3, <4>1, AnswersWritten DEF AnswerWritten
      <4>3. kind # "malformed" /\ kind \in {"malformed", "badVersion", "badMethod"}
        BY <1>2, <4>1, <4>2 DEF AnswerWritten
      <4>. QED
        BY <1>2, <4>2, <4>3
    <3>3. CASE Unanswered(kind)
      BY <2>3, <3>3 DEF Unanswered, Answers
    <3>. QED
      BY <3>1, <3>2, <3>3
  <2>. QED
    BY <2>2, <2>3
<1>. QED
  BY <1>1, <1>2 DEF MarkersRestore

-----------------------------------------------------------------------------
(* Steps that handle no line.                                              *)

\* While neither the input nor the buffer changes, the same lines are handled.
LEMMA StreamFrame ==
  ASSUME InStream, lines' = lines, unread' = unread, buffer' = buffer
  PROVE  /\ InStream' /\ Consumed' = Consumed /\ Sent' = Sent
         /\ \A n : Handled(n)' = Handled(n) /\ Fits(n)' = Fits(n) /\ EndAt(n)' = EndAt(n)
         /\ Uncut' = Uncut
<1>1. Parts' = Parts /\ Got' = Got /\ Consumed' = Consumed /\ Sent' = Sent
  BY DEF Parts, Got, Consumed, Sent
<1>2. \A n : EndAt(n)' = EndAt(n) /\ Fits(n)' = Fits(n)
  BY DEF EndAt, Fits
<1>3. \A n : Handled(n)' = Handled(n)
  BY <1>1, <1>2 DEF Handled
<1>4. Uncut' = Uncut
  BY <1>1, <1>2, <1>3 DEF Uncut
<1>5. InStream'
  BY <1>1 DEF InStream
<1>. QED
  BY <1>1, <1>2, <1>3, <1>4, <1>5

\* While nothing is answered and no line is handled, what has been told remains so.
LEMMA AnswersFrame ==
  ASSUME McpInv, lines' = lines, jobs' = jobs, written' = written, UNCHANGED hasher,
         \A n \in Sent : Handled(n)' = Handled(n)
  PROVE  Counted' /\ Told' /\ InOrder' /\ MarkersRestore' /\ IInv' /\ store' = store
<1>1. Sent' = Sent /\ Answers' = Answers /\ store' = store /\ prefixIndex' = prefixIndex
  BY DEF Sent, Answers, hasher, vars
<1>2. \A n, w : Given(n, w)' = Given(n, w)
  BY DEF Given
<1>3. /\ \A n : /\ Fits(n)' = Fits(n) /\ AsAsked(n)' = AsAsked(n)
              /\ IsTool(n)' = IsTool(n) /\ Throws(n)' = Throws(n)
      /\ \A m, n : MayOvertake(m, n)' = MayOvertake(m, n)
  BY <1>2 DEF Fits, AsAsked, IsTool, Throws, MayOvertake
<1>4. Counted'
  BY <1>1, <1>2, <1>3 DEF McpInv, Counted
<1>5. Told'
  BY <1>1 DEF McpInv, Told
<1>6. InOrder'
  BY <1>3 DEF McpInv, InOrder, ToolAnswersInOrder
<1>7. MarkersRestore'
  BY <1>1 DEF McpInv, MarkersRestore
<1>8. IInv'
  BY <1>1 DEF McpInv, McpTypes, IInv, Exact, Sharing
<1>. QED
  BY <1>1, <1>4, <1>5, <1>6, <1>7, <1>8

\* Receiving a chunk handles nothing yet.
LEMMA DataKeeps == ASSUME McpInv, Data PROVE McpInv'
<1>1. /\ lines' = lines /\ jobs' = jobs /\ written' = written /\ UNCHANGED hasher
      /\ listening' = listening /\ flushed' = flushed /\ process' = process /\ traces' = traces
      /\ draining' = TRUE /\ process # "exited"
  BY DEF Data, output, Alive
<1>2. InStream' /\ Consumed' = Consumed
  BY DataKeepsStream DEF McpInv
<1>3. Sent' = Sent /\ \A n : EndAt(n)' = EndAt(n) /\ Fits(n)' = Fits(n)
  BY <1>1 DEF Sent, EndAt, Fits
<1>4. \A n : Handled(n)' = Handled(n)
  BY <1>2, <1>3 DEF Handled
<1>5. Uncut'
  BY <1>2, <1>3, <1>4 DEF McpInv, Uncut
<1>6. Counted' /\ Told' /\ InOrder' /\ MarkersRestore' /\ IInv' /\ store' = store
  BY <1>1, <1>4, AnswersFrame
<1>7. McpTypes'
  BY <1>1, <1>3, <1>6 DEF McpInv, McpTypes
<1>8. Quiet' /\ Left'
  BY <1>1 DEF Quiet, Left
<1>. QED
  BY <1>2, <1>5, <1>6, <1>7, <1>8 DEF McpInv

\* A step that touches neither lines, nor buffer, nor answers.
LEMMA FrameKeeps ==
  ASSUME McpInv,
         UNCHANGED <<lines, unread, buffer, draining, jobs, written, traces, hasher>>,
         listening' \in BOOLEAN, flushed' \in 0..Len(written),
         process' \in {"running", "closing", "exited", "killed"}, Left'
  PROVE  McpInv'
<1>1. /\ lines' = lines /\ unread' = unread /\ buffer' = buffer /\ draining' = draining
      /\ jobs' = jobs /\ written' = written /\ traces' = traces /\ UNCHANGED hasher
  OBVIOUS
<1>2. /\ InStream' /\ Sent' = Sent
      /\ \A n : Handled(n)' = Handled(n)
      /\ Uncut' = Uncut
  BY <1>1, StreamFrame DEF McpInv
<1>3. Counted' /\ Told' /\ InOrder' /\ MarkersRestore' /\ IInv' /\ store' = store
  BY <1>1, <1>2, AnswersFrame
<1>4. McpTypes'
  BY <1>1, <1>2, <1>3 DEF McpInv, McpTypes
<1>5. Quiet'
  BY <1>1 DEF McpInv, Quiet, EndsLine
<1>. QED
  BY <1>2, <1>3, <1>4, <1>5 DEF McpInv

\* The end of the input.
LEMMA EndInputKeeps == ASSUME McpInv, EndInput PROVE McpInv'
<1>1. Left'
  BY DEF EndInput, Idle, Alive, output, Left
<1>. QED
  BY <1>1, FrameKeeps DEF EndInput, output, McpInv, McpTypes

\* A signal does not end the process as exited.
LEMMA SignalKeeps == ASSUME McpInv, Signal PROVE McpInv'
<1>1. Left'
  BY DEF Signal, Left
<1>2. process' \in {"running", "closing", "exited", "killed"}
  BY DEF Signal
<1>. QED
  BY <1>1, <1>2, FrameKeeps DEF Signal, McpInv, McpTypes

\* The operating system takes what has been written, in order.
LEMMA FlushKeeps == ASSUME McpInv, Flush PROVE McpInv'
<1>1. Left'
  BY DEF Flush, Idle, Alive, Left
<1>2. flushed' \in 0..Len(written)
  <2>1. flushed \in 0..Len(written) /\ written \in Seq(Answer)
    BY DEF McpInv, McpTypes
  <2>2. Len(written) \in Nat
    BY <2>1
  <2>. QED
    BY <2>1, <2>2 DEF Flush
<1>. QED
  BY <1>1, <1>2, FrameKeeps DEF Flush, stream, McpInv, McpTypes

\* The exit waits for the queue and the output to be empty.
LEMMA ExitKeeps == ASSUME McpInv, Exit PROVE McpInv'
<1>1. Left'
  BY DEF Exit, Idle, Drained, Left
<1>. QED
  BY <1>1, FrameKeeps DEF Exit, stream, McpInv, McpTypes

\* Running out of patience kills.
LEMMA CapExpiresKeeps == ASSUME McpInv, CapExpires PROVE McpInv'
<1>1. Left'
  BY DEF CapExpires, Left
<1>. QED
  BY <1>1, FrameKeeps DEF CapExpires, stream, McpInv, McpTypes

-----------------------------------------------------------------------------
(* The microtask queue.                                                    *)

\* A turn of the queue keeps the tools' answers in order: the one at its head is
\* due first, and one put back behind the others with a tick less stays behind
\* those of earlier lines, which are due at least a tick before it.
LEMMA RunKeepsOrder ==
  ASSUME McpInv, RunJob
  PROVE  InOrder'
<1>. DEFINE h == Head(jobs)
<1>1. /\ jobs \in Seq(Job) /\ written \in Seq(Answer) /\ jobs # <<>> /\ lines' = lines
      /\ InOrder /\ \A m : IsTool(m)' = IsTool(m) /\ Throws(m)' = Throws(m)
      /\ \A m, k : MayOvertake(m, k)' = MayOvertake(m, k)
  BY DEF McpInv, McpTypes, RunJob, stream, IsTool, Throws, MayOvertake
<1>2. /\ Len(jobs) \in Nat /\ Len(jobs) >= 1 /\ h = jobs[1] /\ 1 \in 1..Len(jobs)
      /\ \A i \in 1..Len(jobs) : jobs[i] \in Job
  BY <1>1
<1>3. ASSUME NEW i \in 1..Len(jobs)
      PROVE  jobs[i].ticks \in 1..4 /\ jobs[i].answer \in Answer /\ jobs[i].answer.line \in Nat
  <2>1. jobs[i].ticks \in 1..4 /\ jobs[i].answer \in Answer
    BY <1>2 DEF Job
  <2>. QED
    BY <2>1 DEF Answer
<1>. DEFINE tl == Tail(jobs)
<1>4. /\ Len(tl) = Len(jobs) - 1
      /\ \A i \in 1..(Len(jobs) - 1) : tl[i] = jobs[i + 1]
  BY <1>1, <1>2
<1>5. tl \in Seq(Job)
  BY <1>1
<1>. HIDE DEF h, tl, Job
<1>. DEFINE tool(i) == IsTool(jobs[i].answer.line)
            line(i) == jobs[i].answer.line
            over(i, j) == MayOvertake(line(i), line(j))
<1>6. ASSUME NEW i \in 1..Len(jobs), NEW j \in 1..Len(jobs), i # j, tool(i), tool(j)
      PROVE  /\ line(i) # line(j)
             /\ line(i) < line(j) => \/ jobs[i].ticks < jobs[j].ticks
                                     \/ jobs[i].ticks = jobs[j].ticks /\ i < j
                                     \/ over(j, i)
  BY <1>1, <1>6 DEF InOrder, Sooner
<1>7. \A i \in 1..Len(jobs) : jobs[i].answer.id /\ (tool(i) /\ ~Throws(line(i)) => jobs[i].ticks <= 3)
  BY <1>1 DEF InOrder
<1>8. \A i \in 1..Len(written), j \in 1..Len(jobs) :
        (written[i].id /\ IsTool(written[i].line) /\ tool(j))
           => written[i].line < line(j) \/ MayOvertake(written[i].line, line(j))
  BY <1>1 DEF InOrder
<1>9. CASE h.ticks = 1 /\ written' = Append(written, h.answer) /\ jobs' = tl
  <2>1. /\ Len(jobs') = Len(jobs) - 1
        /\ \A i \in 1..Len(jobs') : jobs'[i] = jobs[i + 1] /\ i + 1 \in 1..Len(jobs)
    BY <1>2, <1>4, <1>9
  <2>2. /\ Len(written) \in Nat /\ Len(written') = Len(written) + 1
        /\ written'[Len(written) + 1] = h.answer
        /\ \A i \in 1..Len(written) : written'[i] = written[i]
    BY <1>1, <1>9
  <2>3. \A i \in 1..Len(jobs') :
          /\ jobs'[i].answer.id
          /\ IsTool(jobs'[i].answer.line) /\ ~Throws(jobs'[i].answer.line) => jobs'[i].ticks <= 3
    BY <1>7, <2>1
  <2>4. ASSUME NEW i \in 1..Len(jobs'), NEW j \in 1..Len(jobs'), i # j,
               IsTool(jobs'[i].answer.line), IsTool(jobs'[j].answer.line)
        PROVE  /\ jobs'[i].answer.line # jobs'[j].answer.line
               /\ jobs'[i].answer.line < jobs'[j].answer.line
                    => \/ Sooner(jobs'[i], i, jobs'[j], j)
                       \/ MayOvertake(jobs'[j].answer.line, jobs'[i].answer.line)
    <3>1. /\ i + 1 \in 1..Len(jobs) /\ j + 1 \in 1..Len(jobs) /\ i + 1 # j + 1
          /\ (i + 1 < j + 1 => i < j)
      BY <1>2, <2>1, <2>4
    <3>2. /\ line(i + 1) # line(j + 1)
          /\ line(i + 1) < line(j + 1) =>
               \/ jobs[i + 1].ticks < jobs[j + 1].ticks
               \/ (jobs[i + 1].ticks = jobs[j + 1].ticks /\ i + 1 < j + 1)
               \/ over(j + 1, i + 1)
      BY <1>6, <2>1, <2>4, <3>1
    <3>. QED
      BY <2>1, <3>1, <3>2 DEF Sooner
  <2>5. ASSUME NEW j \in 1..Len(jobs'), IsTool(h.answer.line), IsTool(jobs'[j].answer.line)
        PROVE  \/ h.answer.line < jobs'[j].answer.line
               \/ MayOvertake(h.answer.line, jobs'[j].answer.line)
    <3>1. /\ j + 1 \in 1..Len(jobs) /\ j + 1 # 1 /\ ~(j + 1 < 1)
          /\ jobs'[j] = jobs[j + 1] /\ h = jobs[1]
      BY <1>2, <2>1
    <3>2. ~(line(j + 1) < line(1)) \/ over(1, j + 1)
      <4>1. jobs[j + 1].ticks \in 1..4 /\ jobs[1].ticks = 1
        BY <1>2, <1>3, <1>9, <3>1
      <4>2. ~(jobs[j + 1].ticks < jobs[1].ticks)
        BY <4>1
      <4>. QED
        BY <1>2, <1>6, <2>5, <3>1, <4>2
    <3>3. line(j + 1) # line(1) /\ line(j + 1) \in Nat /\ line(1) \in Nat
      BY <1>2, <1>3, <1>6, <2>5, <3>1
    <3>4. line(1) < line(j + 1) \/ over(1, j + 1)
      BY <3>2, <3>3
    <3>. QED
      BY <3>1, <3>4
  <2>6. ASSUME NEW i \in 1..Len(written'), NEW j \in 1..Len(jobs'),
               written'[i].id, IsTool(written'[i].line), IsTool(jobs'[j].answer.line)
        PROVE  \/ written'[i].line < jobs'[j].answer.line
               \/ MayOvertake(written'[i].line, jobs'[j].answer.line)
    <3>1. CASE i \in 1..Len(written)
      BY <1>8, <2>1, <2>2, <2>6, <3>1
    <3>2. CASE i = Len(written) + 1
      BY <2>2, <2>5, <2>6, <3>2
    <3>. QED
      BY <2>2, <3>1, <3>2
  <2>7. ASSUME NEW i \in 1..Len(written'), NEW j \in 1..Len(written'), i < j,
               written'[i].id, written'[j].id, IsTool(written'[i].line), IsTool(written'[j].line)
        PROVE  \/ written'[i].line < written'[j].line
               \/ MayOvertake(written'[i].line, written'[j].line)
    <3>1. i \in 1..Len(written)
      BY <2>2, <2>7
    <3>2. CASE j \in 1..Len(written)
      BY <1>1, <2>2, <2>7, <3>1, <3>2 DEF InOrder, ToolAnswersInOrder
    <3>3. CASE j = Len(written) + 1
      <4>1. written'[j] = jobs[1].answer /\ written'[i] = written[i]
        BY <1>2, <2>2, <3>1, <3>3
      <4>2. 1 \in 1..Len(jobs) /\ tool(1)
        BY <1>2, <2>7, <4>1
      <4>. QED
        BY <1>8, <2>7, <3>1, <4>1, <4>2
    <3>. QED
      BY <2>2, <3>2, <3>3
  <2>8. ToolAnswersInOrder'
    BY <1>1, <2>7 DEF ToolAnswersInOrder
  <2>. QED
    BY <1>1, <2>3, <2>4, <2>6, <2>8 DEF InOrder
<1>10. CASE h.ticks > 1 /\ written' = written /\ jobs' = Append(tl, [h EXCEPT !.ticks = @ - 1])
  <2>. DEFINE g == [h EXCEPT !.ticks = @ - 1]
  <2>1. g.answer = h.answer /\ g.ticks = h.ticks - 1 /\ h.ticks \in 1..4
    BY <1>2, <1>3 DEF Job
  <2>. HIDE DEF g
  <2>2. jobs' = Append(tl, g)
    BY <1>10 DEF g
  <2>3. /\ Len(jobs') = Len(jobs) /\ jobs'[Len(jobs)] = g
        /\ \A i \in 1..(Len(jobs) - 1) : jobs'[i] = jobs[i + 1]
    <3>1. Len(tl) \in Nat /\ Len(tl) + 1 = Len(jobs)
      BY <1>2, <1>4
    <3>2. /\ Len(Append(tl, g)) = Len(tl) + 1 /\ Append(tl, g)[Len(tl) + 1] = g
          /\ \A i \in 1..Len(tl) : Append(tl, g)[i] = tl[i]
      BY <1>5
    <3>. QED
      BY <1>4, <2>2, <3>1, <3>2
  <2>4. ASSUME NEW i \in 1..Len(jobs')
        PROVE  \/ /\ i \in 1..(Len(jobs) - 1) /\ i + 1 \in 1..Len(jobs) /\ i < Len(jobs)
                  /\ jobs'[i] = jobs[i + 1]
               \/ /\ i = Len(jobs) /\ jobs'[i] = g /\ jobs'[i].answer = jobs[1].answer
    <3>1. CASE i = Len(jobs)
      BY <1>2, <2>1, <2>3, <3>1
    <3>2. CASE i # Len(jobs)
      <4>1. i \in 1..(Len(jobs) - 1) /\ i + 1 \in 1..Len(jobs) /\ i < Len(jobs)
        BY <1>2, <2>3, <3>2
      <4>. QED
        BY <2>3, <4>1
    <3>. QED
      BY <3>1, <3>2
  <2>5. ASSUME NEW i \in 1..Len(jobs')
        PROVE  /\ jobs'[i].answer.id
               /\ IsTool(jobs'[i].answer.line) /\ ~Throws(jobs'[i].answer.line) => jobs'[i].ticks <= 3
    <3>1. CASE i \in 1..(Len(jobs) - 1) /\ i + 1 \in 1..Len(jobs) /\ jobs'[i] = jobs[i + 1]
      BY <1>7, <3>1
    <3>2. CASE jobs'[i] = g /\ jobs'[i].answer = jobs[1].answer
      BY <1>2, <1>7, <2>1, <3>2
    <3>. QED
      BY <2>4, <3>1, <3>2
  <2>6. ASSUME NEW i \in 1..Len(jobs'), NEW j \in 1..Len(jobs'), i # j,
               IsTool(jobs'[i].answer.line), IsTool(jobs'[j].answer.line)
        PROVE  /\ jobs'[i].answer.line # jobs'[j].answer.line
               /\ jobs'[i].answer.line < jobs'[j].answer.line
                    => \/ Sooner(jobs'[i], i, jobs'[j], j)
                       \/ MayOvertake(jobs'[j].answer.line, jobs'[i].answer.line)
    <3>1. CASE i # Len(jobs) /\ j # Len(jobs)
      <4>1. /\ i + 1 \in 1..Len(jobs) /\ j + 1 \in 1..Len(jobs)
            /\ jobs'[i] = jobs[i + 1] /\ jobs'[j] = jobs[j + 1]
        BY <2>4, <3>1
      <4>2. i + 1 # j + 1 /\ (i + 1 < j + 1 => i < j)
        BY <1>2, <2>3, <2>6
      <4>3. /\ line(i + 1) # line(j + 1)
            /\ line(i + 1) < line(j + 1) =>
                 \/ jobs[i + 1].ticks < jobs[j + 1].ticks
                 \/ (jobs[i + 1].ticks = jobs[j + 1].ticks /\ i + 1 < j + 1)
                 \/ over(j + 1, i + 1)
        BY <1>6, <2>6, <4>1, <4>2
      <4>. QED
        BY <4>1, <4>2, <4>3 DEF Sooner
    <3>2. CASE i # Len(jobs) /\ j = Len(jobs)
      <4>1. /\ i + 1 \in 1..Len(jobs) /\ i + 1 # 1 /\ ~(i + 1 < 1) /\ i < j
            /\ jobs'[i] = jobs[i + 1] /\ jobs'[j] = g /\ jobs'[j].answer = jobs[1].answer
        BY <1>2, <2>4, <2>6, <3>2
      <4>2. /\ line(i + 1) # line(1)
            /\ line(i + 1) < line(1) => jobs[i + 1].ticks < jobs[1].ticks \/ over(1, i + 1)
        BY <1>2, <1>6, <2>6, <4>1
      <4>3. jobs[i + 1].ticks \in 1..4 /\ g.ticks = jobs[1].ticks - 1 /\ jobs[1].ticks \in 1..4
        BY <1>2, <1>3, <2>1, <4>1
      <4>4. jobs[i + 1].ticks < jobs[1].ticks => jobs[i + 1].ticks < g.ticks \/ jobs[i + 1].ticks = g.ticks
        BY <4>3
      <4>. QED
        BY <4>1, <4>2, <4>4 DEF Sooner
    <3>3. CASE i = Len(jobs) /\ j # Len(jobs)
      <4>1. /\ j + 1 \in 1..Len(jobs) /\ j + 1 # 1
            /\ jobs'[j] = jobs[j + 1] /\ jobs'[i] = g /\ jobs'[i].answer = jobs[1].answer
        BY <1>2, <2>4, <2>6, <3>3
      <4>2. /\ line(1) # line(j + 1)
            /\ line(1) < line(j + 1) => \/ jobs[1].ticks < jobs[j + 1].ticks
                                        \/ jobs[1].ticks = jobs[j + 1].ticks
                                        \/ over(j + 1, 1)
        BY <1>2, <1>6, <2>6, <4>1
      <4>3. jobs[j + 1].ticks \in 1..4 /\ g.ticks = jobs[1].ticks - 1 /\ jobs[1].ticks \in 1..4
        BY <1>2, <1>3, <2>1, <4>1
      <4>4. jobs[1].ticks < jobs[j + 1].ticks \/ jobs[1].ticks = jobs[j + 1].ticks => g.ticks < jobs[j + 1].ticks
        BY <4>3
      <4>. QED
        BY <4>1, <4>2, <4>4 DEF Sooner
    <3>. QED
      BY <2>6, <3>1, <3>2, <3>3
  <2>7. ASSUME NEW i \in 1..Len(written), NEW j \in 1..Len(jobs'),
               written[i].id, IsTool(written[i].line), IsTool(jobs'[j].answer.line)
        PROVE  \/ written[i].line < jobs'[j].answer.line
               \/ MayOvertake(written[i].line, jobs'[j].answer.line)
    BY <1>2, <1>8, <2>4, <2>7
  <2>8. ToolAnswersInOrder'
    BY <1>1, <1>10 DEF InOrder, ToolAnswersInOrder
  <2>. QED
    BY <1>1, <1>10, <2>5, <2>6, <2>7, <2>8 DEF InOrder
<1>. QED
  BY <1>9, <1>10 DEF RunJob, h, tl

\* A turn of the queue.
LEMMA RunKeeps == ASSUME McpInv, RunJob PROVE McpInv'
<1>1. /\ lines' = lines /\ unread' = unread /\ buffer' = buffer /\ draining' = draining
      /\ listening' = listening /\ flushed' = flushed /\ process' = process /\ traces' = traces
      /\ UNCHANGED hasher /\ process # "exited"
      /\ McpTypes /\ written \in Seq(Answer) /\ jobs \in Seq(Job)
  BY DEF RunJob, stream, output, Alive, McpInv, McpTypes
<1>2. /\ InStream' /\ Sent' = Sent /\ \A n : Handled(n)' = Handled(n) /\ Fits(n)' = Fits(n)
      /\ Uncut' = Uncut
  BY <1>1, StreamFrame DEF McpInv
<1>3. written' \in Seq(Answer) /\ jobs' \in Seq(Job) /\ \A n, w : Given(n, w)' = Given(n, w)
  BY <1>1, GivenRun
<1>4. Answers' = Answers
  BY <1>1, AnswersRun
<1>5. store' = store /\ prefixIndex' = prefixIndex
  BY <1>1 DEF hasher, vars
<1>6. Counted'
  <2>1. \A n : AsAsked(n)' = AsAsked(n)
    BY <1>1, <1>3 DEF AsAsked
  <2>. QED
    BY <1>2, <1>3, <2>1 DEF McpInv, Counted
<1>7. Told'
  BY <1>1, <1>2, <1>4, <1>5 DEF McpInv, Told
<1>8. MarkersRestore'
  BY <1>1, <1>4, <1>5 DEF McpInv, MarkersRestore
<1>9. IInv'
  BY <1>5 DEF McpInv, McpTypes, IInv, Exact, Sharing
<1>10. flushed' \in 0..Len(written')
  <2>1. Len(written) \in Nat /\ (Len(written') = Len(written) \/ Len(written') = Len(written) + 1)
    BY <1>1 DEF RunJob
  <2>2. flushed \in 0..Len(written)
    BY <1>1 DEF McpTypes
  <2>. QED
    BY <1>1, <2>1, <2>2
<1>11. McpTypes'
  BY <1>1, <1>2, <1>3, <1>5, <1>9, <1>10 DEF McpTypes
<1>12. Quiet' /\ Left'
  BY <1>1 DEF McpInv, Quiet, Left, EndsLine
<1>. QED
  BY <1>2, <1>6, <1>7, <1>8, <1>11, <1>12, RunKeepsOrder DEF McpInv

-----------------------------------------------------------------------------
(* The end of a data event, and a line.                                    *)

\* Dropping an unfinished line that is over the limit handles no line, and cuts none
\* that is within it: what is dropped is the beginning of one line only.
LEMMA DropHandlesNone ==
  ASSUME InStream, Uncut, lines' = lines, unread' = unread, buffer' = <<>>,
         \A i \in 1..Len(buffer) : ~EndsLine(buffer[i]), Len(buffer) > MaxBuffer
  PROVE  /\ InStream' /\ Uncut' /\ Sent' = Sent
         /\ \A n \in Sent : Handled(n)' = Handled(n)
         /\ Last(buffer)[1] \in Sent /\ ~Fits(Last(buffer)[1])
<1>1. lines \in Seq(Line) /\ buffer \in Seq(Nat \X Nat) /\ Len(buffer) \in Nat /\ MaxBuffer \in Nat
  BY McpAssumption DEF InStream
<1>2. Len(buffer) \in 0..Len(buffer) /\ buffer' = SubSeq(buffer, Len(buffer) + 1, Len(buffer))
  BY <1>1
<1>3. InStream' /\ Consumed' = Consumed + Len(buffer)
  BY <1>2, DropKeepsStream
<1>4. Sent' = Sent /\ \A n : EndAt(n)' = EndAt(n) /\ Fits(n)' = Fits(n)
  BY DEF Sent, EndAt, Fits
<1>5. Consumed \in Nat /\ Sent \subseteq Nat /\ \A n \in Sent : n >= 1 /\ (n # 1 => n - 1 \in Sent)
  BY <1>1 DEF InStream, Sent
<1>6. ASSUME NEW n \in Sent
      PROVE  /\ EndAt(n) \in Nat /\ EndAt(n - 1) \in Nat /\ EndAt(n) = EndAt(n - 1) + lines[n].size
             /\ lines[n].size \in Nat
  BY <1>1, PartAt, SplitType
<1>7. ASSUME NEW n \in Sent PROVE Handled(n)' = Handled(n)
  <2>1. Handled(n)' <=> EndAt(n) <= Consumed + Len(buffer)
    BY <1>3, <1>4 DEF Handled
  <2>2. Handled(n) => EndAt(n) <= Consumed + Len(buffer)
    BY <1>1, <1>5, <1>6 DEF Handled
  <2>3. EndAt(n) <= Consumed + Len(buffer) => Handled(n)
    BY <1>2, NoEndBetween
  <2>4. Handled(n)' \in BOOLEAN /\ Handled(n) \in BOOLEAN
    BY DEF Handled
  <2>. QED
    BY <2>1, <2>2, <2>3, <2>4
<1>8. Uncut'
  <2>. SUFFICES ASSUME NEW n \in Sent, Fits(n), EndAt(n - 1) < Consumed + Len(buffer), ~Handled(n)
                PROVE  FALSE
    BY <1>3, <1>4, <1>7 DEF Uncut
  <2>1. ~(EndAt(n - 1) < Consumed)
    BY DEF Uncut
  <2>2. EndAt(n - 1) <= Consumed
    <3>1. CASE n = 1
      BY <1>1, <1>5, <3>1, PartAt
    <3>2. CASE n # 1
      <4>1. n - 1 \in Sent
        BY <1>5, <3>2
      <4>2. EndAt(n - 1) <= Consumed + Len(buffer)
        BY <1>1, <1>5, <1>6
      <4>3. Handled(n - 1)
        BY <1>2, <4>1, <4>2, NoEndBetween
      <4>. QED
        BY <4>3 DEF Handled
    <3>. QED
      BY <3>1, <3>2
  <2>3. ~(EndAt(n) <= Consumed + Len(buffer))
    BY <1>2, NoEndBetween
  <2>4. lines[n].size <= MaxBuffer + 1
    BY DEF Fits
  <2>5. \A e, s, c, l, k \in Nat : ~(e < c) /\ e <= c /\ s <= k + 1 /\ l > k => e + s <= c + l
    OBVIOUS
  <2>6. EndAt(n - 1) + lines[n].size <= Consumed + Len(buffer)
    BY <1>1, <1>5, <1>6, <2>1, <2>2, <2>4, <2>5
  <2>. QED
    BY <1>6, <2>3, <2>6
<1>9. Last(buffer)[1] \in Sent /\ ~Fits(Last(buffer)[1])
  <2>1. Len(buffer) \in 1..Len(buffer) /\ Last(buffer) = buffer[Len(buffer)]
    BY <1>1 DEF Last
  <2>2. buffer[Len(buffer)] = Parts[Consumed + Len(buffer)]
    BY <2>1 DEF InStream
  <2>3. Consumed + Len(buffer) \in 1..Len(Parts)
    <3>1. Len(Parts) \in Nat /\ Len(unread) \in Nat
      BY <1>1, PartAt DEF InStream
    <3>2. Consumed + Len(buffer) = Len(Parts) - Len(unread)
      <4>. DEFINE x == Len(Parts)
                  y == Len(unread)
                  z == Len(buffer)
      <4>1. x \in Nat /\ y \in Nat /\ z \in Nat /\ Consumed = (x - y) - z
        BY <1>1, <3>1 DEF Consumed, Got
      <4>. HIDE DEF x, y, z
      <4>2. Consumed + z = x - y
        BY <4>1
      <4>. QED
        BY <4>2 DEF x, y, z
    <3>. QED
      BY <1>1, <1>5, <3>1, <3>2
  <2>4. PICK n \in Sent : \E p \in 1..lines[n].size :
          Consumed + Len(buffer) = EndAt(n - 1) + p /\ Parts[Consumed + Len(buffer)] = <<n, p>>
    BY <1>1, <2>3, PartOf
  <2>5. PICK p \in 1..lines[n].size :
          Consumed + Len(buffer) = EndAt(n - 1) + p /\ Parts[Consumed + Len(buffer)] = <<n, p>>
    BY <2>4
  <2>6. Last(buffer) = <<n, p>> /\ Last(buffer)[1] = n
    BY <2>1, <2>2, <2>5
  <2>7. p # lines[n].size
    <3>1. ~EndsLine(<<n, p>>)
      BY <2>1, <2>6
    <3>. QED
      BY <3>1 DEF EndsLine
  <2>8. ~(EndAt(n) <= Consumed + Len(buffer)) /\ EndAt(n - 1) < Consumed + Len(buffer)
    BY <1>6, <2>5, <2>7
  <2>9. ~Handled(n)' /\ EndAt(n - 1)' < Consumed'
    BY <1>3, <1>4, <2>8 DEF Handled
  <2>10. ~Fits(n)
    BY <1>3, <1>4, <1>8, <2>8, <2>9 DEF Uncut
  <2>. QED
    BY <2>6, <2>10
<1>. QED
  BY <1>3, <1>4, <1>7, <1>8, <1>9

\* The end of a data event.
LEMMA EndDrainKeeps == ASSUME McpInv, EndDrain PROVE McpInv'
<1>1. /\ lines' = lines /\ unread' = unread /\ draining' = FALSE /\ draining
      /\ listening' = listening /\ flushed' = flushed /\ process' = process /\ traces' = traces
      /\ UNCHANGED hasher
      /\ \A i \in 1..Len(buffer) : ~EndsLine(buffer[i])
  BY DEF EndDrain, stream, output
<1>2. process # "exited" /\ Left'
  BY <1>1 DEF McpInv, Left
<1>3. /\ McpTypes /\ written \in Seq(Answer) /\ jobs \in Seq(Job) /\ InStream /\ Uncut /\ Told
      /\ flushed \in 0..Len(written) /\ Len(written) \in Nat
  BY DEF McpInv, McpTypes
<1>4. CASE Len(buffer) <= MaxBuffer /\ UNCHANGED <<buffer, written, jobs>>
  <2>1. /\ InStream' /\ Sent' = Sent /\ \A n : Handled(n)' = Handled(n) /\ Fits(n)' = Fits(n)
        /\ Uncut' = Uncut
    BY <1>1, <1>3, <1>4, StreamFrame
  <2>2. Counted' /\ Told' /\ InOrder' /\ MarkersRestore' /\ IInv' /\ store' = store
    BY <1>1, <1>4, <2>1, AnswersFrame
  <2>3. McpTypes'
    BY <1>1, <1>3, <1>4, <2>1, <2>2 DEF McpTypes
  <2>4. Quiet'
    BY <1>1, <1>4 DEF Quiet, EndsLine
  <2>. QED
    BY <1>2, <1>3, <2>1, <2>2, <2>3, <2>4 DEF McpInv
<1>5. CASE Len(buffer) > MaxBuffer /\ buffer' = <<>> /\ Write(Last(buffer)[1], FALSE)
  <2>. DEFINE n == Last(buffer)[1]
  <2>1. /\ InStream' /\ Uncut' /\ Sent' = Sent
        /\ \A m \in Sent : Handled(m)' = Handled(m)
        /\ n \in Sent /\ ~Fits(n)
    BY <1>1, <1>3, <1>5, DropHandlesNone
  <2>. HIDE DEF n
  <2>. DEFINE a == [line |-> n, id |-> FALSE, result |-> "error"]
  <2>2. n \in Nat
    BY <1>3, <2>1, LineArgs DEF McpTypes
  <2>3. a \in Answer /\ a.line = n /\ a.id = FALSE /\ a.result = "error"
    BY <2>2 DEF Answer
  <2>4. jobs' = jobs /\ written' = Append(written, a)
    BY <1>5 DEF Write, n
  <2>. HIDE DEF a
  <2>5. Answers' = Answers \cup {a} /\ written' \in Seq(Answer)
    BY <1>3, <2>3, <2>4, AnswersWritten
  <2>6. store' = store /\ prefixIndex' = prefixIndex
    BY <1>1 DEF hasher, vars
  <2>7. Told'
    BY <1>1, <1>3, <2>1, <2>3, <2>5, <2>6 DEF Told
  <2>8. ASSUME NEW m \in Sent, NEW w \in BOOLEAN, m # n \/ w = TRUE
        PROVE  Given(m, w)' = Given(m, w)
    <3>. DEFINE x == Given(m, w)
                y == Given(m, w)'
    <3>1. y = x + (IF a.line = m /\ a.id = w THEN 1 ELSE 0) /\ x \in Nat
      BY <1>3, <2>3, <2>4, GivenWritten, GivenType
    <3>2. ~(a.line = m /\ a.id = w)
      BY <2>3, <2>8
    <3>. HIDE DEF x, y
    <3>3. y = x
      BY <3>1, <3>2
    <3>. QED
      BY <3>3 DEF x, y
  <2>9. Counted'
    <3>1. ASSUME NEW m \in Sent
          PROVE  /\ Given(m, TRUE)' <= 1
                 /\ ~Handled(m)' => Given(m, TRUE)' = 0
                 /\ Fits(m) /\ ~Handled(m)' => Given(m, FALSE)' = 0
                 /\ Fits(m) /\ Handled(m)' => AsAsked(m)'
      <4>1. /\ Given(m, TRUE) <= 1
            /\ ~Handled(m) => Given(m, TRUE) = 0
            /\ Fits(m) /\ ~Handled(m) => Given(m, FALSE) = 0
            /\ Fits(m) /\ Handled(m) => AsAsked(m)
        BY DEF McpInv, Counted
      <4>2. Given(m, TRUE)' = Given(m, TRUE)
        BY <2>8
      <4>3. Fits(m) => Given(m, FALSE)' = Given(m, FALSE)
        BY <2>1, <2>8
      <4>4. Fits(m) => (AsAsked(m)' <=> AsAsked(m))
        BY <1>1, <4>2, <4>3 DEF AsAsked
      <4>. QED
        BY <2>1, <4>1, <4>2, <4>3, <4>4
    <3>2. \A m : Fits(m)' <=> Fits(m)
      BY <1>1 DEF Fits
    <3>. QED
      BY <2>1, <3>1, <3>2 DEF Counted
  <2>10. InOrder'
    <3>1. /\ Len(written) \in Nat /\ Len(written') = Len(written) + 1 /\ written'[Len(written) + 1] = a
          /\ \A i \in 1..Len(written) : written'[i] = written[i]
      BY <1>3, <2>4
    <3>2. \A i \in 1..Len(written') : written'[i].id => i \in 1..Len(written)
      BY <2>3, <3>1
    <3>3. /\ \A m : IsTool(m)' = IsTool(m) /\ Throws(m)' = Throws(m)
          /\ \A m, k : MayOvertake(m, k)' = MayOvertake(m, k)
      BY <1>1 DEF IsTool, Throws, MayOvertake
    <3>4. ToolAnswersInOrder'
      BY <3>1, <3>2, <3>3 DEF McpInv, InOrder, ToolAnswersInOrder
    <3>5. ASSUME NEW i \in 1..Len(written'), NEW k \in 1..Len(jobs),
                 written'[i].id, IsTool(written'[i].line), IsTool(jobs[k].answer.line)
          PROVE  \/ written'[i].line < jobs[k].answer.line
                 \/ MayOvertake(written'[i].line, jobs[k].answer.line)
      BY <3>1, <3>2, <3>5 DEF McpInv, InOrder
    <3>. QED
      BY <2>4, <3>3, <3>4, <3>5 DEF McpInv, InOrder
  <2>11. MarkersRestore'
    <3>1. \A b \in Answers' : b \in Answers \/ (b.result # "marker" /\ ~b.id)
      BY <2>3, <2>5
    <3>2. MarkersRestore
      BY DEF McpInv
    <3>. QED
      BY <1>1, <2>6, <3>1, <3>2 DEF MarkersRestore
  <2>12. McpTypes'
    <3>1. IInv'
      BY <2>6 DEF McpInv, McpTypes, IInv, Exact, Sharing
    <3>2. flushed' \in 0..Len(written')
      <4>1. Len(written') = Len(written) + 1
        BY <1>3, <2>4
      <4>. QED
        BY <1>1, <1>3, <4>1
    <3>. QED
      BY <1>1, <1>3, <2>1, <2>4, <2>5, <2>6, <3>1, <3>2 DEF McpTypes
  <2>13. Quiet'
    <3>1. Len(buffer') = 0 /\ MaxBuffer \in Nat
      BY <1>5, McpAssumption
    <3>. QED
      BY <1>5, <3>1 DEF Quiet
  <2>. QED
    BY <1>2, <2>1, <2>7, <2>9, <2>10, <2>11, <2>12, <2>13 DEF McpInv
<1>. QED
  BY <1>4, <1>5 DEF EndDrain

\* A line.
LEMMA LineKeeps == ASSUME McpInv, HandleLine PROVE McpInv'
<1>1. /\ draining /\ draining' = draining /\ listening' = listening /\ lines' = lines
      /\ flushed' = flushed /\ process' = process
  BY DEF HandleLine, stream, output
<1>2. PICK n \in Sent : \E kind \in Kinds :
        /\ TakesLine(n) /\ Answering(n, kind)
        /\ kind = lines[n].kind \/ (kind \in {"malformed", "blank"} /\ ~Fits(n))
  BY LineTaken DEF McpInv
<1>3. PICK kind \in Kinds :
        /\ TakesLine(n) /\ Answering(n, kind)
        /\ kind = lines[n].kind \/ (kind \in {"malformed", "blank"} /\ ~Fits(n))
  BY <1>2
<1>4. /\ IInv' /\ IsFiniteSet(store') /\ store \subseteq store'
      /\ traces' \in Seq(Sent) /\ Len(traces') <= TraceCapacity
      /\ \/ \E a \in Answer : AnswerQueued(n, kind, a)
         \/ \E a \in Answer : AnswerWritten(n, kind, a)
         \/ Unanswered(kind)
  BY <1>3, AnsweringShape DEF McpInv
<1>5. Counted' /\ Told' /\ InOrder' /\ MarkersRestore'
  BY <1>3, <1>4, LineKeepsCounted, LineKeepsTold, LineKeepsOrder, LineKeepsRestore
<1>6. McpTypes /\ written \in Seq(Answer) /\ jobs \in Seq(Job) /\ flushed \in 0..Len(written)
  BY DEF McpInv, McpTypes
<1>7. /\ jobs' \in Seq(Job) /\ written' \in Seq(Answer)
      /\ written' = written \/ \E a \in Answer : written' = Append(written, a)
  <2>1. CASE \E a \in Answer : AnswerQueued(n, kind, a)
    <3>1. PICK a \in Answer : AnswerQueued(n, kind, a)
      BY <2>1
    <3>. QED
      BY <1>6, <3>1, AnswersQueued DEF AnswerQueued
  <2>2. CASE \E a \in Answer : AnswerWritten(n, kind, a)
    <3>1. PICK a \in Answer : AnswerWritten(n, kind, a)
      BY <2>2
    <3>. QED
      BY <1>6, <3>1, AnswersWritten DEF AnswerWritten
  <2>3. CASE Unanswered(kind)
    BY <1>6, <2>3 DEF Unanswered
  <2>. QED
    BY <1>4, <2>1, <2>2, <2>3
<1>8. flushed' \in 0..Len(written')
  <2>1. Len(written) \in Nat /\ (Len(written') = Len(written) \/ Len(written') = Len(written) + 1)
    BY <1>6, <1>7
  <2>. QED
    BY <1>1, <1>6, <2>1
<1>9. Sent' = Sent
  BY <1>1 DEF Sent
<1>10. McpTypes'
  BY <1>1, <1>4, <1>6, <1>7, <1>8, <1>9 DEF McpTypes
<1>11. InStream' /\ Uncut'
  BY <1>3 DEF TakesLine
<1>12. Quiet' /\ Left'
  BY <1>1 DEF McpInv, Quiet, Left
<1>. QED
  BY <1>5, <1>10, <1>11, <1>12 DEF McpInv

-----------------------------------------------------------------------------
(* The invariant.                                                          *)

\* When the process starts nothing has been received, and nothing said.
LEMMA McpStart == McpInit => McpInv
<1>. SUFFICES ASSUME McpInit PROVE McpInv
  OBVIOUS
<1>1. /\ lines \in Inputs /\ unread = Parts /\ buffer = <<>> /\ jobs = <<>> /\ written = <<>>
      /\ flushed = 0 /\ process = "running" /\ traces = <<>> /\ store = {}
      /\ listening \in BOOLEAN /\ draining = FALSE
  BY DEF McpInit, Init, Parts
<1>2. lines \in Seq(Line) /\ TraceCapacity \in Nat /\ MaxBuffer \in Nat
  BY <1>1, McpAssumption
<1>3. Parts \in Seq(Nat \X Nat) /\ Len(Parts) \in Nat
  BY <1>2, PartAt
<1>4. Got = 0 /\ Consumed = 0 /\ Len(buffer) = 0
  <2>1. Len(buffer) = 0
    BY <1>1
  <2>2. Got = 0
    BY <1>1, <1>3 DEF Got
  <2>. QED
    BY <2>1, <2>2 DEF Consumed
<1>5. InStream
  <2>1. buffer \in Seq(Nat \X Nat) /\ unread \in Seq(Nat \X Nat)
    BY <1>1, <1>3
  <2>2. \A i \in 1..Len(unread) : unread[i] = Parts[Got + i]
    <3>1. \A i \in 1..Len(unread) : Got + i = i
      BY <1>4
    <3>. QED
      BY <1>1, <3>1
  <2>. QED
    BY <1>2, <1>4, <2>1, <2>2 DEF InStream
<1>6. \A n \in Sent : ~Handled(n) /\ ~(EndAt(n - 1) < Consumed)
  <2>. SUFFICES ASSUME NEW n \in Sent PROVE ~Handled(n) /\ ~(EndAt(n - 1) < Consumed)
    OBVIOUS
  <2>1. EndAt(n) \in 1..Len(Parts) /\ EndAt(n - 1) \in Nat
    BY <1>2, LastPart, PartAt
  <2>. QED
    BY <1>3, <1>4, <2>1 DEF Handled
<1>7. \A n, w : Given(n, w) = 0
  <2>. SUFFICES ASSUME NEW n, NEW w PROVE Given(n, w) = 0
    OBVIOUS
  <2>1. written \in Seq(Answer) /\ jobs \in Seq(Job)
    BY <1>1
  <2>2. Places(written, AnswersFor(n, w)) = {} /\ Places(jobs, JobsFor(n, w)) = {}
    BY <1>1 DEF Places
  <2>3. Given(n, w) = 0 + 0
    BY <2>1, <2>2, GivenType, FS_EmptySet
  <2>. QED
    BY <2>3
<1>8. Counted
  <2>1. \A x : x = 0 => x <= 1
    OBVIOUS
  <2>2. \A n : Given(n, TRUE) <= 1
    BY <1>7, <2>1, Zenon
  <2>. QED
    BY <1>6, <1>7, <2>2 DEF Counted
<1>9. Answers = {}
  BY <1>1 DEF Answers, ToSet
<1>10. McpTypes
  <2>1. IInv
    BY InitExact DEF McpInit
  <2>2. IsFiniteSet(store)
    BY <1>1, FS_EmptySet
  <2>3. jobs \in Seq(Job) /\ written \in Seq(Answer) /\ Len(written) = 0 /\ traces \in Seq(Sent) /\ Len(traces) = 0
    BY <1>1
  <2>4. flushed \in 0..Len(written) /\ Len(traces) <= TraceCapacity
    BY <1>1, <1>2, <2>3
  <2>5. process \in {"running", "closing", "exited", "killed"} /\ draining \in BOOLEAN
    BY <1>1
  <2>. HIDE DEF Job
  <2>. QED
    BY <1>1, <2>1, <2>2, <2>3, <2>4, <2>5 DEF McpTypes
<1>11. Len(jobs) = 0 /\ Len(written) = 0
  BY <1>1
<1>12. InOrder
  BY <1>11 DEF InOrder, ToolAnswersInOrder
<1>13. Quiet /\ Left /\ Uncut /\ Told /\ MarkersRestore
  BY <1>1, <1>2, <1>4, <1>6, <1>9 DEF Quiet, Left, Uncut, Told, MarkersRestore
<1>. QED
  BY <1>5, <1>8, <1>10, <1>12, <1>13 DEF McpInv

\* It holds in every reachable state.
LEMMA McpInvariant == McpSpec => []McpInv
<1>1. McpInit => McpInv
  BY McpStart
<1>2. McpInv /\ [McpNext]_mcpVars => McpInv'
  <2>. SUFFICES ASSUME McpInv, [McpNext]_mcpVars PROVE McpInv'
    OBVIOUS
  <2>1. CASE Data
    BY <2>1, DataKeeps
  <2>2. CASE HandleLine
    BY <2>2, LineKeeps
  <2>3. CASE EndDrain
    BY <2>3, EndDrainKeeps
  <2>4. CASE RunJob
    BY <2>4, RunKeeps
  <2>5. CASE EndInput
    BY <2>5, EndInputKeeps
  <2>6. CASE Signal
    BY <2>6, SignalKeeps
  <2>7. CASE Flush
    BY <2>7, FlushKeeps
  <2>8. CASE Exit
    BY <2>8, ExitKeeps
  <2>9. CASE CapExpires
    BY <2>9, CapExpiresKeeps
  <2>10. CASE UNCHANGED mcpVars
    <3>1. /\ UNCHANGED <<lines, unread, buffer, draining, jobs, written, traces, hasher>>
          /\ listening' = listening /\ flushed' = flushed /\ process' = process
      BY <2>10 DEF mcpVars, hasher
    <3>2. Left'
      BY <3>1 DEF McpInv, Left
    <3>. QED
      BY <3>1, <3>2, FrameKeeps DEF McpInv, McpTypes
  <2>. QED
    BY <2>1, <2>2, <2>3, <2>4, <2>5, <2>6, <2>7, <2>8, <2>9, <2>10 DEF McpNext
<1>. QED
  BY <1>1, <1>2, PTL DEF McpSpec

-----------------------------------------------------------------------------
\* The state of the server is what it is declared to be: in particular every buffered
\* part is a part of a line that was sent, the trace store is within its capacity, and
\* outside a data event the buffer is within its limit and holds no complete line.
THEOREM McpTypeCorrect == McpSpec => []McpTypeOK
<1>1. McpInv => McpTypeOK
  <2>. SUFFICES ASSUME McpInv PROVE McpTypeOK
    OBVIOUS
  <2>1. /\ McpTypes /\ InStream /\ Quiet /\ lines \in Seq(Line)
        /\ unread \in Seq(Nat \X Nat) /\ buffer \in Seq(Nat \X Nat)
        /\ Len(unread) \in Nat /\ Len(buffer) \in Nat
    BY DEF McpInv, InStream
  <2>2. TypeOK
    BY IndexType DEF McpInv, McpTypes
  <2>3. /\ Consumed \in Nat /\ Got = Consumed + Len(buffer) /\ Len(Parts) = Got + Len(unread)
        /\ Len(Parts) \in Nat
    <3>1. Len(Parts) \in Nat
      BY <2>1, PartAt
    <3>. DEFINE x == Len(Parts)
                y == Len(unread)
                z == Len(buffer)
    <3>2. x \in Nat /\ y \in Nat /\ z \in Nat /\ (x - y) - z \in Nat /\ Got = x - y /\ Consumed = (x - y) - z
      BY <2>1, <3>1 DEF InStream, Consumed, Got
    <3>. HIDE DEF x, y, z
    <3>3. Consumed \in Nat /\ Got = Consumed + z /\ x = Got + y
      BY <3>2
    <3>. QED
      BY <3>1, <3>3 DEF x, y, z
  <2>4. ASSUME NEW i \in 1..Len(Parts) PROVE Parts[i][1] \in Sent /\ Parts[i][2] \in 1..lines[Parts[i][1]].size
    BY <2>1, PartOf
  <2>5. ASSUME NEW part \in ToSet(buffer) \cup ToSet(unread)
        PROVE  part[1] \in Sent /\ part[2] \in 1..lines[part[1]].size
    <3>1. CASE part \in ToSet(buffer)
      <4>1. PICK i \in 1..Len(buffer) : part = buffer[i]
        BY <2>1, <3>1 DEF ToSet
      <4>2. Consumed + i \in 1..Len(Parts)
        BY <2>1, <2>3
      <4>3. part = Parts[Consumed + i]
        BY <2>1, <4>1 DEF InStream
      <4>. QED
        BY <2>4, <4>2, <4>3
    <3>2. CASE part \in ToSet(unread)
      <4>1. PICK i \in 1..Len(unread) : part = unread[i]
        BY <2>1, <3>2 DEF ToSet
      <4>2. Got + i \in 1..Len(Parts)
        BY <2>1, <2>3
      <4>3. part = Parts[Got + i]
        BY <2>1, <4>1 DEF InStream
      <4>. QED
        BY <2>4, <4>2, <4>3
    <3>. QED
      BY <3>1, <3>2
  <2>6. jobs \in Seq([ticks : 1..4, answer : Answer])
    <3>1. Job \subseteq [ticks : 1..4, answer : Answer]
      BY DEF Job
    <3>2. jobs \in Seq(Job)
      BY <2>1 DEF McpTypes
    <3>. DEFINE S == [ticks : 1..4, answer : Answer]
    <3>3. Job \subseteq S
      BY <3>1
    <3>. HIDE DEF Job, S
    <3>4. Len(jobs) \in Nat /\ jobs \in [1..Len(jobs) -> S]
      BY <3>2, <3>3
    <3>5. jobs \in Seq(S)
      BY <3>4
    <3>. QED
      BY <3>5 DEF S
  <2>7. ToSet(traces) \subseteq 1..Len(lines)
    <3>1. traces \in Seq(Sent)
      BY <2>1 DEF McpTypes
    <3>. QED
      BY <3>1 DEF ToSet, Sent
  <2>8. ~draining => Len(buffer) <= MaxBuffer /\ ~\E i \in 1..Len(buffer) : EndsLine(buffer[i])
    BY <2>1 DEF Quiet
  <2>. QED
    BY <2>1, <2>2, <2>5, <2>6, <2>7, <2>8 DEF McpTypeOK, McpTypes
<1>. QED
  BY <1>1, McpInvariant, PTL

\* However the input is cut into chunks and whatever lines are over the limit, every
\* line within the limit is answered once if it asks for it and never otherwise, and
\* none is answered twice by its id.
THEOREM LinesAnsweredOnce == McpSpec => []AnsweredOnce
<1>1. McpInv => AnsweredOnce
  <2>. SUFFICES ASSUME McpInv, NEW n \in Sent
                PROVE  /\ Given(n, TRUE) <= 1
                       /\ Received(n) /\ <<n, lines[n].size>> \notin ToSet(buffer) => AsAsked(n)
    BY DEF AnsweredOnce, AsAsked
  <2>1. Received(n) /\ <<n, lines[n].size>> \notin ToSet(buffer) => Fits(n) /\ Handled(n)
    BY StreamEnds DEF McpInv, Received, Fits
  <2>. QED
    BY <2>1 DEF McpInv, Counted
<1>. QED
  BY <1>1, McpInvariant, PTL

\* However many tool calls are pipelined, their answers are written in the order of
\* the calls.
THEOREM ToolsAnsweredInOrder == McpSpec => []ToolAnswersInOrder
<1>1. McpInv => ToolAnswersInOrder
  BY DEF McpInv, InOrder
<1>. QED
  BY <1>1, McpInvariant, PTL

\* A marker given out stands for its block in every later rehydration, whatever blocks
\* collide with it in between.
THEOREM MarkersAreRestored == McpSpec => []MarkersRestore
<1>1. McpInv => MarkersRestore
  BY DEF McpInv
<1>. QED
  BY <1>1, McpInvariant, PTL

\* A process that exits by itself has delivered an answer to every request within the
\* limit that it received.
THEOREM ExitDelivers == McpSpec => []ExitLosesNothing
<1>1. McpInv => ExitLosesNothing
  <2>. SUFFICES ASSUME McpInv, process = "exited", NEW n \in Sent, Received(n),
                       lines[n].kind \notin {"blank", "notification"}
                PROVE  \E i \in 1..flushed : written[i].line = n
    BY DEF ExitLosesNothing
  <2>1. /\ ~draining /\ jobs = <<>> /\ flushed = Len(written)
        /\ written \in Seq(Answer) /\ jobs \in Seq(Job) /\ buffer \in Seq(Nat \X Nat)
        /\ \A i \in 1..Len(buffer) : ~EndsLine(buffer[i])
    BY DEF McpInv, McpTypes, InStream, Left, Quiet
  <2>2. <<n, lines[n].size>> \notin ToSet(buffer)
    <3>1. EndsLine(<<n, lines[n].size>>)
      BY DEF EndsLine
    <3>2. DOMAIN buffer = 1..Len(buffer)
      BY <2>1
    <3>3. ToSet(buffer) = {buffer[i] : i \in 1..Len(buffer)}
      BY <3>2 DEF ToSet
    <3>. QED
      BY <2>1, <3>1, <3>3
  <2>3. Fits(n) /\ Handled(n)
    BY <2>2, StreamEnds DEF McpInv, Received, Fits
  <2>4. AsAsked(n)
    BY <2>3 DEF McpInv, Counted
  <2>5. \E w \in BOOLEAN : Given(n, w) = 1
    <3>1. CASE lines[n].kind = "malformed"
      BY <2>4, <3>1 DEF AsAsked
    <3>2. CASE lines[n].kind # "malformed"
      <4>1. Given(n, TRUE) = 1
        BY <2>4, <3>2 DEF AsAsked
      <4>. QED
        BY <4>1
    <3>. QED
      BY <3>1, <3>2
  <2>6. PICK w \in BOOLEAN : Given(n, w) = 1
    BY <2>5
  <2>7. Places(jobs, JobsFor(n, w)) = {}
    BY <2>1 DEF Places
  <2>8. Places(written, AnswersFor(n, w)) # {}
    <3>. SUFFICES ASSUME Places(written, AnswersFor(n, w)) = {} PROVE FALSE
      OBVIOUS
    <3>1. Given(n, w) = 0 + 0
      BY <2>1, <2>7, GivenType, FS_EmptySet
    <3>. QED
      BY <2>6, <3>1
  <2>. QED
    BY <2>1, <2>8 DEF Places, AnswersFor
<1>. QED
  BY <1>1, McpInvariant, PTL
=============================================================================

------------------------- MODULE GatewayTurnProofs -------------------------
(***************************************************************************)
(* First the session store, for every number of sessions, cache size and   *)
(* time to live: its types, its two capacities, what an eviction costs,    *)
(* and what a recorded turn can count on.  Its step lemmas are about       *)
(* StoreStep, the actions of the store without the bound on the length of  *)
(* a turn, so that they hold whoever calls the store.                      *)
(*                                                                         *)
(* Then the turn of a chat request, for every payload: a marker refers to  *)
(* a message that is there, what goes out was validated, and a message     *)
(* goes only if an earlier turn of the same session carried it.  The steps *)
(* of requests are steps of the store, which therefore keeps with them     *)
(* what is proved of it first.                                             *)
(***************************************************************************)
EXTENDS GatewayTurn, TLAPS, SequenceTheorems, FiniteSetTheorems, WellFoundedInduction

-----------------------------------------------------------------------------
\* Every nonempty set of natural numbers has a least element.
LEMMA LeastNat ==
  ASSUME NEW T, T \subseteq Nat, T # {}
  PROVE  \E m \in T : \A n \in T : m <= n
<1>. DEFINE R == OpToRel(<, Nat)
<1>1. IsWellFoundedOn(R, Nat)
  BY NatLessThanWellFounded
<1>2. PICK m \in T : \A n \in T : <<n, m>> \notin R
  <2>. HIDE DEF R
  <2>. QED
    BY <1>1, WFMin
<1>3. \A n \in T : ~ (n < m)
  BY <1>2 DEF OpToRel
<1>. QED
  BY <1>3

-----------------------------------------------------------------------------
(* The caches.                                                             *)

\* The part of a sequence from one place to another.
LEMMA SubSeqIs ==
  ASSUME NEW S, NEW s, NEW m \in Int, NEW n \in Int, \A i \in m..n : s[i] \in S
  PROVE  /\ SubSeq(s, m, n) \in Seq(S)
         /\ Len(SubSeq(s, m, n)) = IF m <= n THEN n - m + 1 ELSE 0
         /\ \A i \in 1..(n - m + 1) : SubSeq(s, m, n)[i] = s[m + i - 1]
<1>1. SubSeq(s, m, n) \in Seq(S) /\ Len(SubSeq(s, m, n)) = IF m <= n THEN n - m + 1 ELSE 0
  BY SubSeqProperties, Zenon
<1>2. \A i \in 1..(n - m + 1) : SubSeq(s, m, n)[i] = s[m + i - 1]
  OBVIOUS
<1>. QED
  BY <1>1, <1>2

\* Deleting a key closes the gap it leaves.
LEMMA RemoveFirstIs ==
  ASSUME NEW S, NEW keys \in Seq(S), NEW k, k \in ToSet(keys)
  PROVE  \E j \in 1..Len(keys) :
           /\ keys[j] = k
           /\ RemoveFirst(keys, k) \in Seq(S)
           /\ Len(RemoveFirst(keys, k)) = Len(keys) - 1
           /\ \A i \in 1..(Len(keys) - 1) :
                RemoveFirst(keys, k)[i] = IF i < j THEN keys[i] ELSE keys[i + 1]
<1>. DEFINE I == {i \in 1..Len(keys) : keys[i] = k}
            j == Min(I)
            kept == RemoveAt(keys, j)
            first == SubSeq(keys, 1, j - 1)
            rest == SubSeq(keys, j + 1, Len(keys))
<1>1. I \subseteq Nat /\ I # {}
  BY DEF ToSet
<1>2. j \in I
  <2>1. \E m \in I : \A n \in I : m <= n
    <3>. HIDE DEF I
    <3>. QED
      BY <1>1, LeastNat
  <2>. QED
    BY <2>1 DEF Min
<1>3. RemoveFirst(keys, k) = kept
  BY <1>1 DEF RemoveFirst, SelectInSeq
<1>4. j \in 1..Len(keys) /\ Len(keys) \in Nat /\ keys[j] = k
  BY <1>2
<1>. HIDE DEF j
<1>5. first \in Seq(S) /\ Len(first) = j - 1 /\ \A i \in 1..(j - 1) : first[i] = keys[i]
  <2>. DEFINE lo == 1
              hi == j - 1
  <2>1. lo \in Int /\ hi \in Int /\ \A i \in lo..hi : keys[i] \in S
    BY <1>4
  <2>. HIDE DEF lo, hi
  <2>2. /\ SubSeq(keys, lo, hi) \in Seq(S)
        /\ Len(SubSeq(keys, lo, hi)) = IF lo <= hi THEN hi - lo + 1 ELSE 0
        /\ \A i \in 1..(hi - lo + 1) : SubSeq(keys, lo, hi)[i] = keys[lo + i - 1]
    BY <2>1, SubSeqIs
  <2>. QED
    BY <1>4, <2>2 DEF lo, hi
<1>6. /\ rest \in Seq(S) /\ Len(rest) = Len(keys) - j
      /\ \A i \in 1..(Len(keys) - j) : rest[i] = keys[j + i]
  <2>. DEFINE lo == j + 1
              hi == Len(keys)
  <2>1. lo \in Int /\ hi \in Int /\ \A i \in lo..hi : keys[i] \in S
    BY <1>4
  <2>. HIDE DEF lo, hi
  <2>2. /\ SubSeq(keys, lo, hi) \in Seq(S)
        /\ Len(SubSeq(keys, lo, hi)) = IF lo <= hi THEN hi - lo + 1 ELSE 0
        /\ \A i \in 1..(hi - lo + 1) : SubSeq(keys, lo, hi)[i] = keys[lo + i - 1]
    BY <2>1, SubSeqIs
  <2>. QED
    BY <1>4, <2>2 DEF lo, hi
<1>7. kept = first \o rest
  BY DEF RemoveAt
<1>. HIDE DEF first, rest, kept
<1>8. /\ kept \in Seq(S) /\ Len(kept) = Len(first) + Len(rest)
      /\ \A i \in 1..(Len(first) + Len(rest)) :
           kept[i] = IF i <= Len(first) THEN first[i] ELSE rest[i - Len(first)]
  BY <1>5, <1>6, <1>7, ConcatProperties, Zenon
<1>9. Len(kept) = Len(keys) - 1
  BY <1>4, <1>5, <1>6, <1>8
<1>10. ASSUME NEW i \in 1..(Len(keys) - 1)
       PROVE  kept[i] = IF i < j THEN keys[i] ELSE keys[i + 1]
  <2>1. i \in 1..(Len(first) + Len(rest)) /\ i \in Nat
    BY <1>4, <1>5, <1>6
  <2>2. CASE i < j
    BY <1>4, <1>5, <1>8, <2>1, <2>2
  <2>3. CASE ~(i < j)
    <3>1. kept[i] = rest[i - (j - 1)] /\ i - (j - 1) \in 1..(Len(keys) - j)
      BY <1>4, <1>5, <1>8, <2>1, <2>3
    <3>2. rest[i - (j - 1)] = keys[j + (i - (j - 1))] /\ j + (i - (j - 1)) = i + 1
      BY <1>4, <1>6, <3>1
    <3>. QED
      BY <2>3, <3>1, <3>2
  <2>. QED
    BY <2>2, <2>3
<1>. QED
  BY <1>3, <1>4, <1>8, <1>9, <1>10

\* A key that is used moves to the young end, and those after it close up: in the
\* words of TouchIs, j is where it was, one past the end if it was not there.
LEMMA TouchIs ==
  ASSUME NEW keys \in Seq(Hashes), NEW h \in Hashes
  PROVE  LET t == Touch(keys, h)
         IN /\ t \in Seq(Hashes)
            /\ \E j \in 1..(Len(keys) + 1) :
                 /\ j <= Len(keys) => keys[j] = h /\ Len(t) = Len(keys)
                 /\ j = Len(keys) + 1 => h \notin ToSet(keys) /\ Len(t) = Len(keys) + 1
                 /\ \A i \in 1..(Len(t) - 1) : t[i] = IF i < j THEN keys[i] ELSE keys[i + 1]
            /\ t[Len(t)] = h
<1>. DEFINE t == Touch(keys, h)
            r == RemoveFirst(keys, h)
<1>0. Len(keys) \in Nat
  OBVIOUS
<1>1. CASE h \in ToSet(keys)
  <2>1. PICK j \in 1..Len(keys) :
          /\ keys[j] = h
          /\ r \in Seq(Hashes)
          /\ Len(r) = Len(keys) - 1
          /\ \A i \in 1..(Len(keys) - 1) : r[i] = IF i < j THEN keys[i] ELSE keys[i + 1]
    <3>. DEFINE S == Hashes
    <3>1. keys \in Seq(S) /\ h \in ToSet(keys)
      BY <1>1
    <3>. HIDE DEF S, t
    <3>2. \E j \in 1..Len(keys) :
            /\ keys[j] = h
            /\ r \in Seq(S)
            /\ Len(r) = Len(keys) - 1
            /\ \A i \in 1..(Len(keys) - 1) : r[i] = IF i < j THEN keys[i] ELSE keys[i + 1]
      BY <3>1, RemoveFirstIs
    <3>. QED
      BY <3>2 DEF S
  <2>. HIDE DEF r
  <2>2. t = Append(r, h)
    BY DEF Touch, r
  <2>3. /\ t \in Seq(Hashes) /\ Len(t) = Len(keys) /\ t[Len(keys)] = h
        /\ \A i \in 1..(Len(keys) - 1) : t[i] = r[i]
    BY <1>0, <2>1, <2>2, AppendProperties
  <2>. HIDE DEF t
  <2>4. j \in 1..(Len(keys) + 1) /\ j <= Len(keys) /\ j # Len(keys) + 1
    BY <1>0, <2>1
  <2>5. \A i \in 1..(Len(t) - 1) : t[i] = IF i < j THEN keys[i] ELSE keys[i + 1]
    BY <2>1, <2>3
  <2>6. t[Len(t)] = h /\ Len(t) = Len(keys) /\ keys[j] = h
    BY <2>1, <2>3
  <2>. QED
    BY <2>3, <2>4, <2>5, <2>6 DEF t
<1>2. CASE h \notin ToSet(keys)
  <2>1. r = keys
    BY <1>2 DEF RemoveFirst, ToSet
  <2>2. t = Append(keys, h)
    BY <2>1 DEF Touch
  <2>3. /\ t \in Seq(Hashes) /\ Len(t) = Len(keys) + 1 /\ t[Len(keys) + 1] = h
        /\ \A i \in 1..Len(keys) : t[i] = keys[i]
    BY <2>2, AppendProperties
  <2>. HIDE DEF t
  <2>4. \A i \in 1..(Len(t) - 1) : i < Len(keys) + 1 /\ t[i] = keys[i]
    BY <1>0, <2>3
  <2>5. Len(keys) + 1 \in 1..(Len(keys) + 1) /\ ~(Len(keys) + 1 <= Len(keys))
    BY <1>0
  <2>. QED
    BY <1>2, <2>3, <2>4, <2>5 DEF t
<1>. QED
  BY <1>1, <1>2

\* Moving a hash to the end of a cache.
LEMMA TouchType ==
  ASSUME NEW keys \in Seq(Hashes), NEW h \in Hashes
  PROVE  /\ Touch(keys, h) \in Seq(Hashes)
         /\ h \in ToSet(keys) => Len(Touch(keys, h)) = Len(keys)
<1>. DEFINE t == Touch(keys, h)
<1>1. t \in Seq(Hashes) /\ \E j \in 1..(Len(keys) + 1) :
        /\ j <= Len(keys) => Len(t) = Len(keys)
        /\ j = Len(keys) + 1 => h \notin ToSet(keys)
  BY TouchIs
<1>2. Len(keys) \in Nat
  OBVIOUS
<1>. HIDE DEF t
<1>. QED
  BY <1>1, <1>2 DEF t

\* The oldest keys go, and no more of them than the cap asks for.
LEMMA CappedIs ==
  ASSUME NEW keys \in Seq(Hashes), NEW cap \in Nat
  PROVE  LET c == Capped(keys, cap)
         IN /\ c \in Seq(Hashes) /\ Len(c) <= cap
            /\ \E d \in 0..Len(keys) :
                 /\ Len(c) = Len(keys) - d /\ (d > 0 => Len(c) = cap)
                 /\ \A i \in 1..Len(c) : c[i] = keys[i + d]
<1>. DEFINE c == Capped(keys, cap)
<1>0. Len(keys) \in Nat
  OBVIOUS
<1>1. CASE Len(keys) > cap
  <2>. DEFINE d == Len(keys) - cap
              lo == d + 1
              hi == Len(keys)
  <2>1. /\ lo \in Int /\ hi \in Int
        /\ \A i \in lo..hi : keys[i] \in Hashes
    BY <1>1
  <2>2. c = SubSeq(keys, lo, hi)
    BY <1>1 DEF Capped
  <2>. HIDE DEF lo, hi, c
  <2>3. /\ SubSeq(keys, lo, hi) \in Seq(Hashes)
        /\ Len(SubSeq(keys, lo, hi)) = IF lo <= hi THEN hi - lo + 1 ELSE 0
        /\ \A i \in 1..(hi - lo + 1) : SubSeq(keys, lo, hi)[i] = keys[lo + i - 1]
    BY <2>1, SubSeqIs
  <2>4. d \in 0..Len(keys) /\ lo = d + 1 /\ hi = Len(keys) /\ hi - lo + 1 = cap
    BY <1>0, <1>1 DEF lo, hi
  <2>5. c \in Seq(Hashes) /\ Len(c) = cap
    BY <1>0, <1>1, <2>2, <2>3, <2>4
  <2>6. \A i \in 1..cap : c[i] = keys[i + d]
    <3>. SUFFICES ASSUME NEW i \in 1..cap PROVE c[i] = keys[i + d]
      OBVIOUS
    <3>1. lo + i - 1 = i + d
      BY <1>0, <2>4
    <3>. QED
      BY <2>2, <2>3, <2>4, <3>1
  <2>7. Len(c) = Len(keys) - d /\ Len(c) <= cap
    BY <1>0, <1>1, <2>5
  <2>. HIDE DEF d
  <2>. QED
    BY <2>4, <2>5, <2>6, <2>7 DEF c
<1>2. CASE ~ (Len(keys) > cap)
  <2>1. c = keys /\ Len(c) <= cap
    BY <1>0, <1>2 DEF Capped
  <2>2. 0 \in 0..Len(keys) /\ \A i \in 1..Len(keys) : keys[i] = keys[i + 0]
    BY <1>0
  <2>. HIDE DEF c
  <2>3. Len(c) = Len(keys) - 0 /\ ~(0 > 0)
    BY <1>0, <2>1
  <2>. QED
    BY <2>1, <2>2, <2>3 DEF c
<1>. QED
  BY <1>1, <1>2

\* Dropping the oldest hashes of a cache.
LEMMA CappedType ==
  ASSUME NEW keys \in Seq(Hashes), NEW cap \in Nat
  PROVE  /\ Capped(keys, cap) \in Seq(Hashes)
         /\ Len(Capped(keys, cap)) <= cap
BY CappedIs

\* What is used and then capped stays within the cap.
LEMMA CacheType ==
  ASSUME NEW keys \in Seq(Hashes), NEW h \in Hashes, NEW cap \in Nat
  PROVE  /\ Capped(Touch(keys, h), cap) \in Seq(Hashes)
         /\ Len(Capped(Touch(keys, h), cap)) <= cap
BY TouchType, CappedType

\* Dropping the sessions that expired.
LEMMA PrunedType ==
  ASSUME NEW store, IsStore(store), NEW t \in Nat
  PROVE  /\ IsStore(Pruned(store, t))
         /\ DOMAIN Pruned(store, t) \subseteq DOMAIN store
         /\ \A id \in DOMAIN Pruned(store, t) : Pruned(store, t)[id] = store[id]
BY DEF IsStore, Pruned, Sub

\* Dropping the sessions over the limit.
LEMMA EvictedType ==
  ASSUME NEW store, IsStore(store)
  PROVE  /\ IsStore(Evicted(store))
         /\ DOMAIN Evicted(store) \subseteq DOMAIN store
         /\ \A id \in DOMAIN Evicted(store) : Evicted(store)[id] = store[id]
BY DEF IsStore, Evicted, Sub

\* A new session.
LEMMA FreshType ==
  ASSUME NEW t \in Nat, NEW k \in Nat
  PROVE  /\ Fresh(t, k) \in Session
         /\ Fresh(t, k).content = <<>> /\ Fresh(t, k).seen = <<>>
BY EmptySeq DEF Fresh, Session

\* Opening a session keeps every other one it does not delete as it was, and the
\* caches of the one it opens, if that one was there.
LEMMA OpenedType ==
  ASSUME NEW store, IsStore(store), NEW sid \in SessionIds, NEW t \in Nat, NEW k \in Nat
  PROVE  LET opened == Opened(store, sid, t, k)
         IN /\ IsStore(opened)
            /\ sid \in DOMAIN opened
            /\ \A id \in DOMAIN opened :
                 \/ id = sid /\ Creates(store, sid, t) /\ opened[id] = Fresh(t, k)
                 \/ /\ id \in DOMAIN store /\ (id = sid => ~Creates(store, sid, t))
                    /\ opened[id].content = store[id].content
                    /\ opened[id].seen = store[id].seen
                    /\ opened[id].serial = store[id].serial
<1>. DEFINE kept == Pruned(store, t)
            room == IF Cardinality(DOMAIN kept) >= MaxSessions THEN Evicted(kept) ELSE kept
<1>1. IsStore(kept) /\ \A id \in DOMAIN kept : id \in DOMAIN store /\ kept[id] = store[id]
  BY PrunedType
<1>2. IsStore(room) /\ \A id \in DOMAIN room : id \in DOMAIN store /\ room[id] = store[id]
  <2>. HIDE DEF kept
  <2>. QED
    BY <1>1, EvictedType
<1>3. CASE sid \in DOMAIN kept
  <2>1. Opened(store, sid, t, k) = [kept EXCEPT ![sid].lastActive = t]
    BY <1>3 DEF Opened
  <2>. HIDE DEF kept
  <2>. DEFINE opened == [kept EXCEPT ![sid].lastActive = t]
  <2>2. kept[sid] \in Session
    BY <1>1, <1>3 DEF IsStore
  <2>3. /\ opened[sid] \in Session
        /\ opened[sid].content = kept[sid].content
        /\ opened[sid].seen = kept[sid].seen
        /\ opened[sid].serial = kept[sid].serial
    BY <1>3, <2>2 DEF Session
  <2>4. /\ DOMAIN opened = DOMAIN kept
        /\ \A id \in DOMAIN kept \ {sid} : opened[id] = kept[id]
        /\ opened = [id \in DOMAIN kept |-> opened[id]]
    OBVIOUS
  <2>. HIDE DEF opened
  <2>5. IsStore(opened)
    BY <1>1, <2>3, <2>4 DEF IsStore
  <2>6. \A id \in DOMAIN opened :
          /\ id \in DOMAIN store
          /\ opened[id].content = store[id].content
          /\ opened[id].seen = store[id].seen
          /\ opened[id].serial = store[id].serial
    BY <1>1, <2>3, <2>4
  <2>7. Opened(store, sid, t, k) = opened
    BY <2>1 DEF opened
  <2>8. ~Creates(store, sid, t)
    BY <1>3 DEF Creates, kept
  <2>. QED
    BY <1>3, <2>4, <2>5, <2>6, <2>7, <2>8
<1>4. CASE sid \notin DOMAIN kept
  <2>1. Opened(store, sid, t, k)
          = [id \in DOMAIN room \cup {sid} |-> IF id = sid THEN Fresh(t, k) ELSE room[id]]
    BY <1>4 DEF Opened
  <2>2. Creates(store, sid, t)
    BY <1>4 DEF Creates
  <2>. HIDE DEF room
  <2>. QED
    BY <1>2, <2>1, <2>2, FreshType DEF IsStore
<1>. QED
  BY <1>3, <1>4

\* Storing a block opens its session and caches it there.
LEMMA StoredType ==
  ASSUME NEW store, IsStore(store), NEW sid \in SessionIds, NEW h \in Hashes,
         NEW t \in Nat, NEW k \in Nat
  PROVE  LET stored == Stored(store, sid, h, t, k)
             opened == Opened(store, sid, t, k)
         IN /\ IsStore(stored)
            /\ DOMAIN stored = DOMAIN opened
            /\ stored[sid].seen = Capped(Touch(opened[sid].seen, h), MaxSeen)
            /\ stored[sid].content = Capped(Touch(opened[sid].content, h), MaxContent)
            /\ Len(stored[sid].seen) <= MaxSeen
            /\ Len(stored[sid].content) <= MaxContent
            /\ stored[sid].serial = opened[sid].serial
            /\ \A id \in DOMAIN stored \ {sid} : stored[id] = opened[id]
<1>. DEFINE opened == Opened(store, sid, t, k)
<1>. USE StoreAssumption DEF StoreAssumption
<1>1. IsStore(opened) /\ sid \in DOMAIN opened
  BY OpenedType
<1>. DEFINE seen == Capped(Touch(opened[sid].seen, h), MaxSeen)
            content == Capped(Touch(opened[sid].content, h), MaxContent)
<1>2. Stored(store, sid, h, t, k)
        = [opened EXCEPT ![sid].seen = seen, ![sid].content = content]
  BY DEF Stored
<1>. HIDE DEF opened
<1>3. opened[sid] \in Session
  BY <1>1 DEF IsStore
<1>4. /\ seen \in Seq(Hashes) /\ Len(seen) <= MaxSeen
      /\ content \in Seq(Hashes) /\ Len(content) <= MaxContent
  BY <1>3, CacheType DEF Session
<1>. HIDE DEF seen, content
<1>. DEFINE stored == [opened EXCEPT ![sid].seen = seen, ![sid].content = content]
<1>5. /\ stored[sid].seen = seen
      /\ stored[sid].content = content
      /\ stored[sid].serial = opened[sid].serial
      /\ stored[sid] \in Session
  BY <1>1, <1>3, <1>4 DEF IsStore, Session
<1>6. /\ DOMAIN stored = DOMAIN opened
      /\ \A id \in DOMAIN stored \ {sid} : stored[id] = opened[id]
      /\ IsStore(stored)
  BY <1>1, <1>5 DEF IsStore
<1>7. Stored(store, sid, h, t, k) = stored
  BY <1>2
<1>. HIDE DEF stored
<1>. QED
  BY <1>4, <1>5, <1>6, <1>7 DEF opened, seen, content

\* Storing touches the caches of a session, never which sessions there are.
LEMMA StoredDomain ==
  ASSUME NEW store, NEW sid, NEW h, NEW t, NEW k
  PROVE  DOMAIN Stored(store, sid, h, t, k) = DOMAIN Opened(store, sid, t, k)
BY DEF Stored

\* What recordTurn writes through the session object it holds stays inside a store.
LEMMA MarkedType ==
  ASSUME NEW store, IsStore(store), NEW sid \in SessionIds, NEW k \in Nat, NEW h \in Hashes
  PROVE  LET marked == MarkSeen(store, sid, k, h)
         IN /\ IsStore(marked)
            /\ DOMAIN marked = DOMAIN store
            /\ \A id \in DOMAIN store :
                 /\ marked[id].content = store[id].content
                 /\ marked[id].serial = store[id].serial
                 /\ marked[id].lastActive = store[id].lastActive
                 /\ id # sid \/ store[id].serial # k => marked[id] = store[id]
            /\ Holds(store, sid, k) => marked[sid].seen = Touch(store[sid].seen, h)
<1>1. CASE Holds(store, sid, k)
  <2>. DEFINE seen == Touch(store[sid].seen, h)
  <2>1. store[sid] \in Session /\ sid \in DOMAIN store
    BY <1>1 DEF Holds, IsStore
  <2>2. seen \in Seq(Hashes)
    BY <2>1, TouchType DEF Session
  <2>3. MarkSeen(store, sid, k, h) = [store EXCEPT ![sid].seen = seen]
    BY <1>1 DEF MarkSeen
  <2>. HIDE DEF seen
  <2>. QED
    <3>. DEFINE marked == [store EXCEPT ![sid].seen = seen]
    <3>1. IsStore(marked) /\ DOMAIN marked = DOMAIN store
      BY <2>1, <2>2 DEF IsStore, Session
    <3>2. /\ marked[sid].content = store[sid].content /\ marked[sid].serial = store[sid].serial
          /\ marked[sid].seen = seen /\ marked[sid].lastActive = store[sid].lastActive
      BY <2>1 DEF IsStore, Session
    <3>3. \A id \in DOMAIN store \ {sid} : marked[id] = store[id]
      OBVIOUS
    <3>4. store[sid].serial = k
      BY <1>1 DEF Holds
    <3>. HIDE DEF marked
    <3>. QED
      BY <2>3, <3>1, <3>2, <3>3, <3>4 DEF marked, seen
<1>2. CASE ~ Holds(store, sid, k)
  BY <1>2 DEF MarkSeen
<1>. QED
  BY <1>1, <1>2

\* Capping what a session has seen.
LEMMA CappedSeenType ==
  ASSUME NEW store, IsStore(store), NEW sid \in SessionIds, NEW k \in Nat
  PROVE  LET capped == CapSeen(store, sid, k)
         IN /\ IsStore(capped)
            /\ DOMAIN capped = DOMAIN store
            /\ \A id \in DOMAIN store :
                 /\ capped[id].content = store[id].content
                 /\ capped[id].serial = store[id].serial
                 /\ \/ capped[id].seen = store[id].seen
                    \/ Len(capped[id].seen) <= MaxSeen
                 /\ id # sid \/ store[id].serial # k => capped[id] = store[id]
            /\ Holds(store, sid, k) => /\ Len(capped[sid].seen) <= MaxSeen
                                       /\ capped[sid].seen = Capped(store[sid].seen, MaxSeen)
<1>. USE StoreAssumption DEF StoreAssumption
<1>1. CASE Holds(store, sid, k)
  <2>. DEFINE seen == Capped(store[sid].seen, MaxSeen)
  <2>1. store[sid] \in Session /\ sid \in DOMAIN store
    BY <1>1 DEF Holds, IsStore
  <2>2. seen \in Seq(Hashes) /\ Len(seen) <= MaxSeen
    BY <2>1, CappedType DEF Session
  <2>3. CapSeen(store, sid, k) = [store EXCEPT ![sid].seen = seen]
    BY <1>1 DEF CapSeen
  <2>. HIDE DEF seen
  <2>. QED
    <3>. DEFINE capped == [store EXCEPT ![sid].seen = seen]
    <3>1. IsStore(capped) /\ DOMAIN capped = DOMAIN store
      BY <2>1, <2>2 DEF IsStore, Session
    <3>2. /\ capped[sid].content = store[sid].content /\ capped[sid].serial = store[sid].serial
          /\ capped[sid].seen = seen
      BY <2>1 DEF IsStore, Session
    <3>3. \A id \in DOMAIN store \ {sid} : capped[id] = store[id]
      OBVIOUS
    <3>4. store[sid].serial = k
      BY <1>1 DEF Holds
    <3>. HIDE DEF capped
    <3>. QED
      BY <2>2, <2>3, <3>1, <3>2, <3>3, <3>4 DEF capped, seen
<1>2. CASE ~ Holds(store, sid, k)
  BY <1>2 DEF CapSeen, Holds
<1>. QED
  BY <1>1, <1>2

\* Counting a turn changes nothing else.
LEMMA CountedType ==
  ASSUME NEW s \in Session
  PROVE  LET counted == [s EXCEPT !.turnCount = @ + 1]
         IN /\ counted \in Session
            /\ counted.content = s.content /\ counted.seen = s.seen /\ counted.serial = s.serial
BY DEF Session

-----------------------------------------------------------------------------
(* Type correctness and the capacity of the caches.                        *)

\* The parts of a turn that is recording.
LEMMA RunningTurn ==
  ASSUME turn \in Turn, turn.phase = "recording"
  PROVE  /\ turn.sid \in SessionIds
         /\ turn.serial \in Nat
         /\ turn.done \in Seq(Block)
         /\ turn.todo \in Seq(Block)
         /\ turn = [phase |-> "recording", sid |-> turn.sid, serial |-> turn.serial,
                    done |-> turn.done, todo |-> turn.todo]
BY DEF Turn

\* Nobody records in the beginning.
LEMMA IdleType == Idle \in Turn /\ Idle.phase # "recording"
BY DEF Idle, Turn

\* A store without sessions.
LEMMA EmptyStore == IsStore([id \in {} |-> <<>>])
BY DEF IsStore

SeenWithin(store, id) == Len(store[id].seen) <= MaxSeen

\* Opening a session grows no cache.
LEMMA OpenedCaps ==
  ASSUME NEW store, IsStore(store), NEW sid \in SessionIds, NEW t \in Nat, NEW k \in Nat
  PROVE  \A id \in DOMAIN Opened(store, sid, t, k) :
           /\ \/ Len(Opened(store, sid, t, k)[id].content) <= MaxContent
              \/ id \in DOMAIN store /\ Opened(store, sid, t, k)[id].content = store[id].content
           /\ \/ SeenWithin(Opened(store, sid, t, k), id)
              \/ /\ id \in DOMAIN store
                 /\ Opened(store, sid, t, k)[id].seen = store[id].seen
                 /\ Opened(store, sid, t, k)[id].serial = store[id].serial
<1>. DEFINE opened == Opened(store, sid, t, k)
<1>1. \A id \in DOMAIN opened :
        \/ opened[id] = Fresh(t, k)
        \/ /\ id \in DOMAIN store
           /\ opened[id].content = store[id].content
           /\ opened[id].seen = store[id].seen
           /\ opened[id].serial = store[id].serial
  BY OpenedType
<1>2. Len(Fresh(t, k).content) = 0 /\ Len(Fresh(t, k).seen) = 0
  BY FreshType
<1>. HIDE DEF opened
<1>3. \A id \in DOMAIN opened :
        /\ \/ Len(opened[id].content) <= MaxContent
           \/ id \in DOMAIN store /\ opened[id].content = store[id].content
        /\ \/ SeenWithin(opened, id)
           \/ /\ id \in DOMAIN store
              /\ opened[id].seen = store[id].seen
              /\ opened[id].serial = store[id].serial
  BY <1>1, <1>2, StoreAssumption DEF SeenWithin, StoreAssumption
<1>. QED
  BY <1>3 DEF opened

Safe == TypeOK /\ CacheCaps

\* What the store does whoever calls it, and however many blocks a turn has.
StoreStep ==
  \/ Tick
  \/ GetSession
  \/ Clear
  \/ \E sid \in SessionIds :
       \/ GetOrCreateSession(sid)
       \/ \E h \in Hashes : StoreContent(sid, h)
       \/ \E key \in Hashes \cup Refs : GetContent(sid, key)
       \/ \E blocks \in Seq(Block) : BeginRecordTurn(sid, blocks)
  \/ RecordBlock
  \/ EndRecordTurn

\* The steps of the store's own specification are steps of a store.
LEMMA NextIsStoreStep == [Next]_vars => [StoreStep]_vars
<1>1. BoundedSeq(Block, MaxBlocks) \subseteq Seq(Block)
  BY StoreAssumption, SeqDef DEF BoundedSeq, SeqOf, StoreAssumption
<1>. QED
  BY <1>1 DEF Next, StoreStep

\* The caps hold at first.
LEMMA InitSafe == Init => Safe
BY EmptyStore, IdleType DEF Init, Safe, TypeOK, CacheCaps, Live, IsStore

\* Any step of a store keeps them.
LEMMA StepSafe == Safe /\ [StoreStep]_vars => Safe'
<1>. SUFFICES ASSUME Safe, [StoreStep]_vars
             PROVE  Safe'
  OBVIOUS
<1>. USE DEF Safe, CacheCaps, Live
<1>0. now \in Nat /\ nextSerial \in Nat /\ IsStore(sessions) /\ turn \in Turn
  BY DEF TypeOK
<1>a. ASSUME Resting
      PROVE  \A id \in DOMAIN sessions :
               Len(sessions[id].content) <= MaxContent /\ SeenWithin(sessions, id)
  BY <1>a DEF Resting, SeenWithin
\* The four methods that open a session and then leave it, or write one block.
<1>b. ASSUME NEW sid \in SessionIds, Resting
      PROVE  LET opened == Opened(sessions, sid, now, nextSerial)
             IN /\ IsStore(opened)
                /\ sid \in DOMAIN opened
                /\ \A id \in DOMAIN opened :
                     Len(opened[id].content) <= MaxContent /\ SeenWithin(opened, id)
  <2>. DEFINE opened == Opened(sessions, sid, now, nextSerial)
  <2>1. IsStore(opened) /\ sid \in DOMAIN opened
    BY <1>0, OpenedType
  <2>2. \A id \in DOMAIN opened :
          /\ \/ Len(opened[id].content) <= MaxContent
             \/ id \in DOMAIN sessions /\ opened[id].content = sessions[id].content
          /\ \/ SeenWithin(opened, id)
             \/ /\ id \in DOMAIN sessions
                /\ opened[id].seen = sessions[id].seen
    BY <1>0, OpenedCaps
  <2>. HIDE DEF opened
  <2>3. \A id \in DOMAIN opened :
          Len(opened[id].content) <= MaxContent /\ SeenWithin(opened, id)
    BY <1>a, <1>b, <2>2 DEF SeenWithin
  <2>. QED
    BY <2>1, <2>3 DEF opened
<1>c. ASSUME NEW sid, Numbered(sessions, sid, now)
      PROVE  nextSerial' \in Nat
  BY <1>0, <1>c DEF Numbered
<1>1. CASE Tick
  BY <1>0, <1>1 DEF Tick, TypeOK, Holds
<1>2. CASE GetSession
  <2>1. /\ IsStore(sessions')
        /\ \A id \in DOMAIN sessions' : id \in DOMAIN sessions /\ sessions'[id] = sessions[id]
    BY <1>0, <1>2, PrunedType DEF GetSession
  <2>. QED
    BY <1>0, <1>2, <1>a, <2>1, IdleType DEF GetSession, TypeOK, SeenWithin
<1>3. CASE Clear
  BY <1>0, <1>3, EmptyStore, IdleType DEF Clear, TypeOK, IsStore
<1>4. ASSUME NEW sid \in SessionIds, GetOrCreateSession(sid)
      PROVE  Safe'
  BY <1>0, <1>4, <1>b, <1>c, IdleType DEF GetOrCreateSession, TypeOK, SeenWithin
<1>5. ASSUME NEW sid \in SessionIds, NEW h \in Hashes, StoreContent(sid, h)
      PROVE  Safe'
  <2>. DEFINE opened == Opened(sessions, sid, now, nextSerial)
  <2>1. /\ IsStore(sessions')
        /\ DOMAIN sessions' = DOMAIN opened
        /\ Len(sessions'[sid].seen) <= MaxSeen
        /\ Len(sessions'[sid].content) <= MaxContent
        /\ \A id \in DOMAIN sessions' \ {sid} : sessions'[id] = opened[id]
    BY <1>0, <1>5, StoredType DEF StoreContent
  <2>2. \A id \in DOMAIN opened :
          Len(opened[id].content) <= MaxContent /\ SeenWithin(opened, id)
    BY <1>b, <1>5 DEF StoreContent
  <2>3. nextSerial' \in Nat /\ now' \in Nat /\ turn' = Idle
    BY <1>0, <1>5, <1>c DEF StoreContent
  <2>. HIDE DEF opened
  <2>. QED
    BY <2>1, <2>2, <2>3, IdleType DEF TypeOK, SeenWithin
<1>6. ASSUME NEW sid \in SessionIds, NEW key \in Hashes \cup Refs, GetContent(sid, key)
      PROVE  Safe'
  <2>. DEFINE h == CHOOSE x \in Matching(sid, key) : TRUE
  <2>1. sid \in DOMAIN sessions /\ sessions[sid] \in Session
    BY <1>0, <1>6 DEF GetContent, IsStore
  <2>2. h \in Matching(sid, key)
    <3>0. Cardinality(Matching(sid, key)) = 1
      BY <1>6 DEF GetContent
    <3>1. Matching(sid, key) # {}
      BY <3>0, FS_EmptySet
    <3>. QED
      BY <3>1
  <2>3. h \in ToSet(sessions[sid].content)
    <3>. HIDE DEF h
    <3>. QED
      BY <2>2 DEF Matching
  <2>4. h \in Hashes
    <3>. HIDE DEF h
    <3>. QED
      BY <2>1, <2>3 DEF ToSet, Session
  <2>. DEFINE content == Touch(sessions[sid].content, h)
  <2>5. content \in Seq(Hashes) /\ Len(content) = Len(sessions[sid].content)
    <3>. HIDE DEF h
    <3>. QED
      BY <2>1, <2>3, <2>4, TouchType DEF Session
  <2>6. sessions' = [sessions EXCEPT ![sid].content = content]
    BY <1>6 DEF GetContent
  <2>7. turn' = Idle /\ now' = now /\ nextSerial' = nextSerial /\ Resting
    BY <1>6 DEF GetContent
  <2>. HIDE DEF content
  <2>8. IsStore(sessions')
    BY <1>0, <2>1, <2>5, <2>6 DEF IsStore, Session
  <2>9. \A id \in DOMAIN sessions' :
          Len(sessions'[id].content) <= MaxContent /\ SeenWithin(sessions', id)
    BY <1>0, <1>a, <2>1, <2>5, <2>6, <2>7 DEF SeenWithin, IsStore, Session
  <2>. QED
    BY <1>0, <2>7, <2>8, <2>9, IdleType DEF TypeOK, SeenWithin
<1>7. ASSUME NEW sid \in SessionIds, NEW blocks \in Seq(Block), BeginRecordTurn(sid, blocks)
      PROVE  Safe'
  <2>. DEFINE opened == Opened(sessions, sid, now, nextSerial)
  <2>1. /\ IsStore(opened)
        /\ sid \in DOMAIN opened
        /\ \A id \in DOMAIN opened :
             Len(opened[id].content) <= MaxContent /\ SeenWithin(opened, id)
    BY <1>b, <1>7 DEF BeginRecordTurn
  <2>2. /\ sessions' = [opened EXCEPT ![sid].turnCount = @ + 1]
        /\ turn' = [phase |-> "recording", sid |-> sid, serial |-> opened[sid].serial,
                    done |-> <<>>, todo |-> blocks]
        /\ now' = now
    BY <1>7 DEF BeginRecordTurn
  <2>3. nextSerial' \in Nat
    BY <1>7, <1>c DEF BeginRecordTurn
  <2>. HIDE DEF opened
  <2>5. opened[sid] \in Session
    BY <2>1 DEF IsStore
  <2>6. IsStore(sessions')
    <3>1. [opened[sid] EXCEPT !.turnCount = @ + 1] \in Session
      BY <2>5, CountedType
    <3>2. sessions' = [opened EXCEPT ![sid] = [opened[sid] EXCEPT !.turnCount = @ + 1]]
      BY <2>2
    <3>. QED
      BY <2>1, <3>1, <3>2 DEF IsStore
  <2>7. \A id \in DOMAIN sessions' :
          Len(sessions'[id].content) <= MaxContent /\ SeenWithin(sessions', id)
    BY <2>1, <2>2, <2>5 DEF SeenWithin, IsStore, Session
  <2>8. turn' \in Turn
    BY <2>2, <2>5 DEF Turn, Session
  <2>. QED
    BY <1>0, <2>2, <2>3, <2>6, <2>7, <2>8 DEF TypeOK, SeenWithin
<1>8. CASE RecordBlock
  <2>. DEFINE sid == turn.sid
              k == turn.serial
              block == Head(turn.todo)
              marked == MarkSeen(sessions, sid, k, block.hash)
  <2>1. /\ sid \in SessionIds /\ k \in Nat
        /\ turn.done \in Seq(Block) /\ turn.todo \in Seq(Block) /\ turn.todo # <<>>
    BY <1>0, <1>8, RunningTurn DEF RecordBlock
  <2>2. block \in Block /\ Tail(turn.todo) \in Seq(Block)
    BY <2>1, HeadTailProperties
  <2>3. turn' \in Turn /\ turn'.sid = sid /\ turn'.serial = k /\ turn'.phase = "recording"
    <3>1. turn' = [turn EXCEPT !.done = Append(@, block), !.todo = Tail(@)]
      BY <1>8 DEF RecordBlock
    <3>2. Append(turn.done, block) \in Seq(Block)
      BY <2>1, <2>2, AppendProperties
    <3>3. turn = [phase |-> "recording", sid |-> sid, serial |-> k,
                  done |-> turn.done, todo |-> turn.todo]
      BY <1>0, <1>8, RunningTurn DEF RecordBlock
    <3>4. turn' = [phase |-> "recording", sid |-> sid, serial |-> k,
                   done |-> Append(turn.done, block), todo |-> Tail(turn.todo)]
      <4>. HIDE DEF sid, k, block
      <4>1. PICK d, o : turn = [phase |-> "recording", sid |-> sid, serial |-> k,
                                done |-> d, todo |-> o]
        BY <3>3
      <4>2. turn.done = d /\ turn.todo = o
        BY <4>1
      <4>. QED
        BY <3>1, <4>1, <4>2
    <3>. HIDE DEF block, sid, k
    <3>. QED
      BY <2>1, <2>2, <3>2, <3>4 DEF Turn
  <2>4. /\ IsStore(marked)
        /\ DOMAIN marked = DOMAIN sessions
        /\ \A id \in DOMAIN sessions :
             /\ marked[id].content = sessions[id].content
             /\ marked[id].serial = sessions[id].serial
             /\ id # sid \/ sessions[id].serial # k => marked[id] = sessions[id]
    <3>. block.hash \in Hashes
      BY <2>2 DEF Block
    <3>. HIDE DEF block
    <3>. QED
      BY <1>0, <2>1, MarkedType
  \* Only the session the turn writes may be over the cap of seen.
  <2>5. \A id \in DOMAIN marked :
          /\ Len(marked[id].content) <= MaxContent
          /\ SeenWithin(marked, id) \/ (id = sid /\ marked[id].serial = k)
    <3>. HIDE DEF marked
    <3>. QED
      BY <2>4 DEF SeenWithin, Holds
  <2>6. CASE block.stored
    <3>. DEFINE opened == Opened(marked, sid, now, nextSerial)
    <3>1. /\ sessions' = Stored(marked, sid, block.hash, now, nextSerial)
          /\ Numbered(marked, sid, now) /\ now' = now
      BY <1>8, <2>6 DEF RecordBlock
    <3>. block.hash \in Hashes
      BY <2>2 DEF Block
    <3>. HIDE DEF marked, block
    <3>2. /\ IsStore(sessions')
          /\ DOMAIN sessions' = DOMAIN opened
          /\ Len(sessions'[sid].seen) <= MaxSeen
          /\ Len(sessions'[sid].content) <= MaxContent
          /\ \A id \in DOMAIN sessions' \ {sid} : sessions'[id] = opened[id]
      BY <1>0, <2>1, <2>4, <3>1, StoredType
    <3>3. \A id \in DOMAIN opened :
            /\ \/ Len(opened[id].content) <= MaxContent
               \/ id \in DOMAIN marked /\ opened[id].content = marked[id].content
            /\ \/ SeenWithin(opened, id)
               \/ /\ id \in DOMAIN marked
                  /\ opened[id].seen = marked[id].seen
                  /\ opened[id].serial = marked[id].serial
      BY <1>0, <2>1, <2>4, OpenedCaps
    <3>4. nextSerial' \in Nat
      BY <1>0, <3>1 DEF Numbered
    <3>. HIDE DEF opened
    <3>5. \A id \in DOMAIN sessions' :
            Len(sessions'[id].content) <= MaxContent /\ SeenWithin(sessions', id)
      BY <2>5, <3>2, <3>3 DEF SeenWithin
    <3>. QED
      BY <1>0, <2>3, <3>1, <3>2, <3>4, <3>5 DEF TypeOK, SeenWithin
  <2>7. CASE ~ block.stored
    <3>1. sessions' = marked /\ nextSerial' = nextSerial /\ now' = now
      BY <1>8, <2>7 DEF RecordBlock
    <3>. HIDE DEF marked, block
    <3>. QED
      BY <1>0, <2>3, <2>4, <2>5, <3>1 DEF TypeOK, SeenWithin, Holds
  <2>. QED
    BY <2>6, <2>7
<1>9. CASE EndRecordTurn
  <2>. DEFINE sid == turn.sid
              k == turn.serial
              capped == CapSeen(sessions, sid, k)
  <2>1. /\ sid \in SessionIds /\ k \in Nat
        /\ turn = [phase |-> "recording", sid |-> sid, serial |-> k,
                   done |-> turn.done, todo |-> turn.todo]
        /\ turn.done \in Seq(Block) /\ turn.todo \in Seq(Block)
    BY <1>0, <1>9, RunningTurn DEF EndRecordTurn
  <2>2. /\ IsStore(capped)
        /\ DOMAIN capped = DOMAIN sessions
        /\ \A id \in DOMAIN sessions :
             /\ capped[id].content = sessions[id].content
             /\ capped[id].serial = sessions[id].serial
             /\ \/ capped[id].seen = sessions[id].seen
                \/ Len(capped[id].seen) <= MaxSeen
        /\ Holds(sessions, sid, k) => Len(capped[sid].seen) <= MaxSeen
    BY <1>0, <2>1, CappedSeenType
  <2>3. /\ sessions' = capped /\ now' = now /\ nextSerial' = nextSerial
        /\ turn' = [turn EXCEPT !.phase = "recorded"]
    BY <1>9 DEF EndRecordTurn
  <2>4. turn' \in Turn
    BY <2>1, <2>3 DEF Turn
  <2>. HIDE DEF capped
  <2>5. \A id \in DOMAIN sessions' :
          Len(sessions'[id].content) <= MaxContent /\ SeenWithin(sessions', id)
    BY <2>2, <2>3 DEF SeenWithin, Holds
  <2>. QED
    BY <1>0, <2>2, <2>3, <2>4, <2>5 DEF TypeOK, SeenWithin
<1>10. CASE UNCHANGED vars
  BY <1>0, <1>10 DEF vars, TypeOK, Holds
<1>. QED
  BY <1>1, <1>2, <1>3, <1>4, <1>5, <1>6, <1>7, <1>8, <1>9, <1>10 DEF StoreStep

\* And so do the store's own steps.
LEMMA NextSafe == Safe /\ [Next]_vars => Safe'
BY StepSafe, NextIsStoreStep

\* Every session the store hands out is complete: identified, dated, its turns
\* counted, its two caches ordered sequences of hashes; and a recordTurn call in
\* progress names a session and blocks (session-store.ts:22-38, 80-115).
THEOREM TypeCorrect == Spec => []TypeOK
<1>1. Safe => TypeOK
  BY DEF Safe
<1>. QED
  BY <1>1, InitSafe, NextSafe, PTL DEF Spec

\* Neither cache of a session ever outgrows its cap, whatever is stored, looked
\* up or recorded (session-store.ts:120-139, 258-267), the seen set of a turn in
\* the middle of its recording excepted.
THEOREM CachesBounded == Spec => []CacheCaps
<1>1. Safe => CacheCaps
  BY DEF Safe
<1>. QED
  BY <1>1, InitSafe, NextSafe, PTL DEF Spec

-----------------------------------------------------------------------------
(* The number of sessions.  evictOldestSession finds a session to delete     *)
(* because ages are natural numbers and creation order breaks their ties; it *)
(* deletes it because no id is the empty one.                                *)

\* There is an oldest session to evict.
LEMMA OldestIsLive ==
  ASSUME NEW store, IsStore(store), DOMAIN store # {}
  PROVE  /\ Oldest(store) \in DOMAIN store
         /\ \A o \in DOMAIN store : Older(store[Oldest(store)], store[o])
<1>. DEFINE ages == {store[id].lastActive : id \in DOMAIN store}
<1>1. \A id \in DOMAIN store : store[id].lastActive \in Nat /\ store[id].serial \in Nat
  BY DEF IsStore, Session
<1>2. PICK age \in ages : \A a \in ages : age <= a
  <2>1. ages \subseteq Nat /\ ages # {}
    BY <1>1
  <2>. HIDE DEF ages
  <2>. QED
    BY <2>1, LeastNat
<1>. DEFINE serials == {store[id].serial : id \in {x \in DOMAIN store : store[x].lastActive = age}}
<1>3. PICK first \in serials : \A s \in serials : first <= s
  <2>1. serials \subseteq Nat /\ serials # {}
    BY <1>1
  <2>. HIDE DEF serials
  <2>. QED
    BY <2>1, LeastNat
<1>4. PICK id \in DOMAIN store : store[id].lastActive = age /\ store[id].serial = first
  OBVIOUS
<1>5. ASSUME NEW o \in DOMAIN store
      PROVE  Older(store[id], store[o])
  <2>1. age <= store[o].lastActive
    BY <1>2
  <2>2. store[o].lastActive = age => first <= store[o].serial
    BY <1>3
  <2>3. age \in Nat
    BY <1>1
  <2>. HIDE DEF ages, serials
  <2>. QED
    BY <1>1, <1>4, <2>1, <2>2, <2>3 DEF Older
<1>. QED
  BY <1>5 DEF Oldest

Limit == IF MaxSessions = 0 THEN 1 ELSE MaxSessions

\* Opening a session leaves no more than the limit.
LEMMA OpenedLimit ==
  ASSUME EmptyId \notin SessionIds,
         NEW store, IsStore(store), IsFiniteSet(DOMAIN store), Cardinality(DOMAIN store) <= Limit,
         NEW sid \in SessionIds, NEW t \in Nat, NEW k \in Nat
  PROVE  LET ids == DOMAIN Opened(store, sid, t, k)
         IN IsFiniteSet(ids) /\ Cardinality(ids) <= Limit
<1>. DEFINE kept == Pruned(store, t)
            room == IF Cardinality(DOMAIN kept) >= MaxSessions THEN Evicted(kept) ELSE kept
            K == DOMAIN kept
            R == DOMAIN room
<1>0. MaxSessions \in Nat
  BY StoreAssumption DEF StoreAssumption
<1>1. IsStore(kept) /\ K \subseteq DOMAIN store
  BY PrunedType
<1>2. IsFiniteSet(K) /\ Cardinality(K) \in Nat /\ Cardinality(K) <= Limit
  <2>1. IsFiniteSet(K) /\ Cardinality(K) <= Cardinality(DOMAIN store)
    BY <1>1, FS_Subset
  <2>2. Cardinality(K) \in Nat /\ Cardinality(DOMAIN store) \in Nat
    BY <2>1, FS_CardinalityType
  <2>. HIDE DEF K
  <2>. QED
    BY <1>0, <2>1, <2>2 DEF Limit
<1>3. CASE sid \in K
  <2>1. DOMAIN Opened(store, sid, t, k) = K
    BY <1>3 DEF Opened
  <2>. QED
    BY <1>2, <2>1
<1>4. CASE sid \notin K
  <2>1. DOMAIN Opened(store, sid, t, k) = R \cup {sid}
    BY <1>4 DEF Opened
  <2>2. IsFiniteSet(R) /\ Cardinality(R) \in Nat /\ Cardinality(R) <= Limit - 1
    <3>1. CASE Cardinality(K) < MaxSessions
      <4>1. R = K
        BY <1>0, <1>2, <3>1
      <4>. HIDE DEF R, K
      <4>. QED
        BY <1>0, <1>2, <3>1, <4>1 DEF Limit
    <3>2. CASE Cardinality(K) >= MaxSessions /\ K = {}
      <4>1. R = {}
        BY <3>2 DEF Evicted
      <4>2. Cardinality(R) = 0 /\ IsFiniteSet(R)
        BY <4>1, FS_EmptySet
      <4>. HIDE DEF R, K
      <4>. QED
        BY <1>0, <4>2 DEF Limit
    <3>3. CASE Cardinality(K) >= MaxSessions /\ K # {}
      <4>. DEFINE old == Oldest(kept)
      <4>1. old \in K /\ old # EmptyId
        BY <1>1, <3>3, OldestIsLive DEF IsStore
      <4>2. R = K \ {old}
        BY <3>3, <4>1 DEF Evicted, Sub
      <4>. HIDE DEF old, K, R
      <4>3. IsFiniteSet(R) /\ Cardinality(R) = Cardinality(K) - 1
        BY <1>2, <4>1, <4>2, FS_RemoveElement
      <4>4. Cardinality(R) \in Nat
        BY <4>3, FS_CardinalityType
      <4>. QED
        BY <1>0, <1>2, <4>3, <4>4 DEF Limit
    <3>. HIDE DEF K, R
    <3>. QED
      BY <1>0, <1>2, <3>1, <3>2, <3>3
  <2>. HIDE DEF R, K
  <2>3. IsFiniteSet(R \cup {sid})
        /\ Cardinality(R \cup {sid}) = IF sid \in R THEN Cardinality(R) ELSE Cardinality(R) + 1
    BY <2>2, FS_AddElement
  <2>. QED
    BY <1>0, <2>1, <2>2, <2>3 DEF Limit
<1>. QED
  BY <1>3, <1>4

Bounded == TypeOK /\ IsFiniteSet(Live) /\ Cardinality(Live) <= Limit

\* The limit on sessions holds at first.
LEMMA InitBounded == Init => Bounded
<1>. SUFFICES ASSUME Init PROVE Bounded
  OBVIOUS
<1>1. Live = {}
  BY DEF Init, Live
<1>2. IsFiniteSet(Live) /\ Cardinality(Live) = 0
  BY <1>1, FS_EmptySet
<1>3. TypeOK
  BY InitSafe DEF Safe
<1>. QED
  BY <1>2, <1>3, StoreAssumption DEF Bounded, Limit, StoreAssumption

\* Any step of a store keeps it.
LEMMA StepBounded ==
  ASSUME EmptyId \notin SessionIds, Safe, Bounded, [StoreStep]_vars
  PROVE  Bounded'
<1>1. TypeOK'
  BY StepSafe DEF Safe
<1>2. now \in Nat /\ nextSerial \in Nat /\ IsStore(sessions) /\ turn \in Turn
  BY DEF Bounded, TypeOK
<1>3. IsFiniteSet(DOMAIN sessions) /\ Cardinality(DOMAIN sessions) <= Limit
  BY DEF Bounded, Live
<1>. SUFFICES IsFiniteSet(DOMAIN sessions') /\ Cardinality(DOMAIN sessions') <= Limit
  BY <1>1 DEF Bounded, Live
<1>4. ASSUME DOMAIN sessions' \subseteq DOMAIN sessions
      PROVE  IsFiniteSet(DOMAIN sessions') /\ Cardinality(DOMAIN sessions') <= Limit
  <2>1. IsFiniteSet(DOMAIN sessions') /\ Cardinality(DOMAIN sessions') <= Cardinality(DOMAIN sessions)
    BY <1>3, <1>4, FS_Subset
  <2>2. Cardinality(DOMAIN sessions') \in Nat /\ Cardinality(DOMAIN sessions) \in Nat
    BY <1>3, <2>1, FS_CardinalityType
  <2>. QED
    BY <1>3, <2>1, <2>2, StoreAssumption DEF Limit, StoreAssumption
<1>5. ASSUME NEW store, IsStore(store), DOMAIN store = DOMAIN sessions, NEW sid \in SessionIds,
             DOMAIN sessions' = DOMAIN Opened(store, sid, now, nextSerial)
      PROVE  IsFiniteSet(DOMAIN sessions') /\ Cardinality(DOMAIN sessions') <= Limit
  BY <1>2, <1>3, <1>5, OpenedLimit
<1>6. CASE Tick \/ GetSession \/ Clear \/ UNCHANGED vars
  BY <1>2, <1>4, <1>6, PrunedType DEF Tick, GetSession, Clear, vars
<1>7. ASSUME NEW sid \in SessionIds, GetOrCreateSession(sid)
      PROVE  IsFiniteSet(DOMAIN sessions') /\ Cardinality(DOMAIN sessions') <= Limit
  BY <1>2, <1>5, <1>7 DEF GetOrCreateSession
<1>8. ASSUME NEW sid \in SessionIds, NEW h \in Hashes, StoreContent(sid, h)
      PROVE  IsFiniteSet(DOMAIN sessions') /\ Cardinality(DOMAIN sessions') <= Limit
  <2>1. DOMAIN sessions' = DOMAIN Opened(sessions, sid, now, nextSerial)
    <3>1. sessions' = Stored(sessions, sid, h, now, nextSerial)
      BY <1>8 DEF StoreContent
    <3>. QED
      BY <3>1, StoredDomain
  <2>. QED
    BY <1>2, <1>5, <2>1
<1>9. ASSUME NEW sid \in SessionIds, NEW key, GetContent(sid, key)
      PROVE  IsFiniteSet(DOMAIN sessions') /\ Cardinality(DOMAIN sessions') <= Limit
  <2>1. DOMAIN sessions' = DOMAIN sessions
    BY <1>9 DEF GetContent
  <2>. QED
    BY <1>4, <2>1
<1>10. ASSUME NEW sid \in SessionIds, NEW blocks, BeginRecordTurn(sid, blocks)
       PROVE  IsFiniteSet(DOMAIN sessions') /\ Cardinality(DOMAIN sessions') <= Limit
  <2>1. DOMAIN sessions' = DOMAIN Opened(sessions, sid, now, nextSerial)
    BY <1>10 DEF BeginRecordTurn
  <2>. QED
    BY <1>2, <1>5, <2>1
<1>11. CASE RecordBlock
  <2>. DEFINE block == Head(turn.todo)
              marked == MarkSeen(sessions, turn.sid, turn.serial, block.hash)
  <2>1. /\ turn.sid \in SessionIds /\ turn.serial \in Nat
        /\ turn.todo \in Seq(Block) /\ turn.todo # <<>>
    BY <1>2, <1>11, RunningTurn DEF RecordBlock
  <2>2. block.hash \in Hashes
    <3>1. block \in Block
      BY <2>1, HeadTailProperties
    <3>. HIDE DEF block
    <3>. QED
      BY <3>1 DEF Block
  <2>. HIDE DEF block
  <2>3. IsStore(marked) /\ DOMAIN marked = DOMAIN sessions
    BY <1>2, <2>1, <2>2, MarkedType
  <2>4. \/ sessions' = Stored(marked, turn.sid, block.hash, now, nextSerial)
        \/ sessions' = marked
    BY <1>11 DEF RecordBlock, block
  <2>. HIDE DEF marked
  <2>5. CASE sessions' = Stored(marked, turn.sid, block.hash, now, nextSerial)
    <3>1. DOMAIN sessions' = DOMAIN Opened(marked, turn.sid, now, nextSerial)
      BY <2>5, StoredDomain
    <3>. QED
      BY <1>5, <2>1, <2>3, <3>1
  <2>6. CASE sessions' = marked
    BY <1>4, <2>3, <2>6
  <2>. QED
    BY <2>4, <2>5, <2>6
<1>12. CASE EndRecordTurn
  <2>1. turn.sid \in SessionIds /\ turn.serial \in Nat
    BY <1>2, <1>12, RunningTurn DEF EndRecordTurn
  <2>2. DOMAIN sessions' = DOMAIN sessions
    BY <1>2, <1>12, <2>1, CappedSeenType DEF EndRecordTurn
  <2>. QED
    BY <1>4, <2>2
<1>. QED
  BY <1>6, <1>7, <1>8, <1>9, <1>10, <1>11, <1>12 DEF StoreStep

\* If no caller names a session by the empty string, the store never holds more
\* sessions than its cap (session-store.ts:49-75, 234-249): with the empty string
\* among the ids the cap fails, as the run SessionStoreEmptyId shows.
THEOREM SessionsBounded ==
  ASSUME EmptyId \notin SessionIds
  PROVE  Spec => []SessionCap
<1>1. Bounded => SessionCap
  BY DEF Bounded, SessionCap, Limit
<1>2. Init => Safe /\ Bounded
  BY InitSafe, InitBounded
<1>3. Safe /\ Bounded /\ [Next]_vars => (Safe /\ Bounded)'
  BY NextSafe, NextIsStoreStep, StepBounded
<1>. QED
  BY <1>1, <1>2, <1>3, PTL DEF Spec

-----------------------------------------------------------------------------
(* What an eviction costs.                                                 *)

\* A session that is not expired goes only to make room for one that was not in
\* the store at all: a session that comes back after its own expiry finds room.
LEMMA OpenedEvicts ==
  ASSUME EmptyId \notin SessionIds,
         NEW store, IsStore(store), IsFiniteSet(DOMAIN store), Cardinality(DOMAIN store) <= Limit,
         NEW sid \in SessionIds, NEW t \in Nat, NEW k \in Nat,
         NEW id \in DOMAIN store, id \notin DOMAIN Opened(store, sid, t, k), ~Expired(store[id], t)
  PROVE  /\ sid \notin DOMAIN store
         /\ \A o \in DOMAIN store : ~Expired(store[o], t) => Older(store[id], store[o])
<1>. DEFINE kept == Pruned(store, t)
            room == IF Cardinality(DOMAIN kept) >= MaxSessions THEN Evicted(kept) ELSE kept
            K == DOMAIN kept
            R == DOMAIN room
<1>0. MaxSessions \in Nat
  BY StoreAssumption
<1>1. /\ IsStore(kept) /\ K = {x \in DOMAIN store : ~Expired(store[x], t)}
      /\ \A x \in K : kept[x] = store[x]
  <2>1. K = {x \in DOMAIN store : ~Expired(store[x], t)}
    BY DEF Pruned, Sub
  <2>. QED
    BY <2>1, PrunedType
<1>2. id \in K
  BY <1>1
<1>3. sid \notin K /\ id \notin R
  <2>1. sid \in K => DOMAIN Opened(store, sid, t, k) = K
    BY DEF Opened
  <2>2. sid \notin K => DOMAIN Opened(store, sid, t, k) = R \cup {sid}
    BY DEF Opened
  <2>. HIDE DEF K, R
  <2>. QED
    BY <1>2, <2>1, <2>2
<1>4. Cardinality(K) >= MaxSessions
  BY <1>2, <1>3
<1>5. id = Oldest(kept)
  <2>1. R = DOMAIN Evicted(kept)
    BY <1>4
  <2>. HIDE DEF kept
  <2>. QED
    BY <1>2, <1>3, <2>1 DEF Evicted, Sub
<1>6. \A o \in K : Older(kept[id], kept[o])
  <2>. HIDE DEF kept
  <2>. QED
    BY <1>1, <1>2, <1>5, OldestIsLive
<1>. HIDE DEF kept, K, R
<1>7. sid \notin DOMAIN store
  <2>. SUFFICES ASSUME sid \in DOMAIN store PROVE FALSE
    OBVIOUS
  <2>1. K \cup {sid} \subseteq DOMAIN store
    BY <1>1
  <2>2. IsFiniteSet(K \cup {sid}) /\ Cardinality(K \cup {sid}) <= Cardinality(DOMAIN store)
    BY <2>1, FS_Subset
  <2>3. IsFiniteSet(K) /\ Cardinality(K) \in Nat /\ Cardinality(DOMAIN store) \in Nat
    BY <2>2, FS_Subset, FS_CardinalityType
  <2>4. Cardinality(K \cup {sid}) = Cardinality(K) + 1
    BY <1>3, <2>3, FS_AddElement
  <2>5. Cardinality(K) # 0
    BY <1>2, <2>3, FS_EmptySet
  <2>. QED
    BY <1>0, <1>4, <2>2, <2>3, <2>4, <2>5 DEF Limit
<1>. QED
  BY <1>1, <1>6, <1>7

\* What a step does to the sessions that leave the store.
Spares ==
  \A id \in Live \ Live' :
    \/ Expired(sessions[id], now)
    \/ /\ Live' \ Live # {}
       /\ \A o \in Live : ~Expired(sessions[o], now) => Older(sessions[id], sessions[o])

\* Any step of a store evicts the oldest only, except one that clears it.
LEMMA StepSpares ==
  ASSUME EmptyId \notin SessionIds, Safe, Bounded, [StoreStep]_vars
  PROVE  Clear \/ Spares
<1>1. now \in Nat /\ nextSerial \in Nat /\ IsStore(sessions) /\ turn \in Turn
  BY DEF Bounded, TypeOK
<1>2. IsFiniteSet(DOMAIN sessions) /\ Cardinality(DOMAIN sessions) <= Limit
  BY DEF Bounded, Live
<1>3. ASSUME DOMAIN sessions \subseteq DOMAIN sessions' PROVE Spares
  BY <1>3 DEF Spares, Live
\* A store that differs from the sessions in their caches only.
<1>4. ASSUME NEW store, IsStore(store), DOMAIN store = DOMAIN sessions,
             \A id \in DOMAIN sessions : /\ store[id].lastActive = sessions[id].lastActive
                                         /\ store[id].serial = sessions[id].serial,
             NEW sid \in SessionIds, DOMAIN sessions' = DOMAIN Opened(store, sid, now, nextSerial)
      PROVE  Spares
  <2>1. sid \in DOMAIN sessions'
    BY <1>1, <1>4, OpenedType
  <2>2. ASSUME NEW id \in DOMAIN sessions, id \notin DOMAIN sessions', ~Expired(sessions[id], now)
        PROVE  /\ sid \notin DOMAIN sessions
               /\ \A o \in DOMAIN sessions :
                    ~Expired(sessions[o], now) => Older(sessions[id], sessions[o])
    <3>1. \A o \in DOMAIN sessions :
            /\ Expired(store[o], now) <=> Expired(sessions[o], now)
            /\ Older(store[id], store[o]) <=> Older(sessions[id], sessions[o])
      BY <1>4 DEF Expired, Older
    <3>2. /\ sid \notin DOMAIN store
          /\ \A o \in DOMAIN store : ~Expired(store[o], now) => Older(store[id], store[o])
      <4>1. /\ id \in DOMAIN store /\ id \notin DOMAIN Opened(store, sid, now, nextSerial)
            /\ ~Expired(store[id], now)
        BY <1>4, <2>2, <3>1
      <4>2. IsFiniteSet(DOMAIN store) /\ Cardinality(DOMAIN store) <= Limit
        BY <1>2, <1>4
      <4>. QED
        BY <1>1, <1>4, <4>1, <4>2, OpenedEvicts
    <3>. QED
      BY <1>4, <3>1, <3>2
  <2>. QED
    BY <2>1, <2>2 DEF Spares, Live
<1>5. ASSUME NEW sid \in SessionIds, DOMAIN sessions' = DOMAIN Opened(sessions, sid, now, nextSerial)
      PROVE  Spares
  BY <1>1, <1>4, <1>5
<1>6. CASE Tick \/ UNCHANGED vars
  BY <1>3, <1>6 DEF Tick, vars
<1>7. CASE GetSession
  <2>1. \A id \in DOMAIN sessions : ~Expired(sessions[id], now) => id \in DOMAIN sessions'
    BY <1>7 DEF GetSession, Pruned, Sub
  <2>. QED
    BY <2>1 DEF Spares, Live
<1>8. ASSUME NEW sid \in SessionIds, GetOrCreateSession(sid)
      PROVE  Spares
  BY <1>5, <1>8 DEF GetOrCreateSession
<1>9. ASSUME NEW sid \in SessionIds, NEW h \in Hashes, StoreContent(sid, h)
      PROVE  Spares
  <2>1. sessions' = Stored(sessions, sid, h, now, nextSerial)
    BY <1>9 DEF StoreContent
  <2>2. DOMAIN sessions' = DOMAIN Opened(sessions, sid, now, nextSerial)
    BY <2>1, StoredDomain
  <2>. QED
    BY <1>5, <2>2
<1>10. ASSUME NEW sid \in SessionIds, NEW key, GetContent(sid, key)
       PROVE  Spares
  BY <1>3, <1>10 DEF GetContent
<1>11. ASSUME NEW sid \in SessionIds, NEW blocks, BeginRecordTurn(sid, blocks)
       PROVE  Spares
  <2>1. DOMAIN sessions' = DOMAIN Opened(sessions, sid, now, nextSerial)
    BY <1>11 DEF BeginRecordTurn
  <2>. QED
    BY <1>5, <2>1
<1>12. CASE RecordBlock
  <2>. DEFINE block == Head(turn.todo)
              marked == MarkSeen(sessions, turn.sid, turn.serial, block.hash)
  <2>1. /\ turn.sid \in SessionIds /\ turn.serial \in Nat
        /\ turn.todo \in Seq(Block) /\ turn.todo # <<>>
    BY <1>1, <1>12, RunningTurn DEF RecordBlock
  <2>2. block.hash \in Hashes
    <3>1. block \in Block
      BY <2>1, HeadTailProperties
    <3>. HIDE DEF block
    <3>. QED
      BY <3>1 DEF Block
  <2>. HIDE DEF block
  <2>3. /\ IsStore(marked) /\ DOMAIN marked = DOMAIN sessions
        /\ \A id \in DOMAIN sessions : /\ marked[id].lastActive = sessions[id].lastActive
                                       /\ marked[id].serial = sessions[id].serial
    BY <1>1, <2>1, <2>2, MarkedType
  <2>4. \/ sessions' = Stored(marked, turn.sid, block.hash, now, nextSerial)
        \/ sessions' = marked
    BY <1>12 DEF RecordBlock, block
  <2>. HIDE DEF marked
  <2>5. CASE sessions' = Stored(marked, turn.sid, block.hash, now, nextSerial)
    <3>1. DOMAIN sessions' = DOMAIN Opened(marked, turn.sid, now, nextSerial)
      BY <2>5, StoredDomain
    <3>. QED
      BY <1>4, <2>1, <2>3, <3>1
  <2>6. CASE sessions' = marked
    BY <1>3, <2>3, <2>6
  <2>. QED
    BY <2>4, <2>5, <2>6
<1>13. CASE EndRecordTurn
  <2>1. turn.sid \in SessionIds /\ turn.serial \in Nat
    BY <1>1, <1>13, RunningTurn DEF EndRecordTurn
  <2>2. DOMAIN sessions' = DOMAIN sessions
    BY <1>1, <1>13, <2>1, CappedSeenType DEF EndRecordTurn
  <2>. QED
    BY <1>3, <2>2
<1>. QED
  BY <1>6, <1>7, <1>8, <1>9, <1>10, <1>11, <1>12, <1>13 DEF StoreStep

\* No step costs a conversation that is not expired its state, except the least
\* recently active one, and that one only when a new conversation needs its place
\* (session-store.ts:49-75, 222-249).  Clearing the store is the exception the
\* code makes.
THEOREM OnlyOldestIsEvicted ==
  ASSUME EmptyId \notin SessionIds
  PROVE  Spec => EvictsOnlyOldest
<1>1. Init => Safe /\ Bounded
  BY InitSafe, InitBounded
<1>2. Safe /\ Bounded /\ [Next]_vars => (Safe /\ Bounded)'
  BY NextSafe, NextIsStoreStep, StepBounded
<1>3. Safe /\ Bounded /\ [Next]_vars => [Clear \/ Spares]_vars
  BY NextIsStoreStep, StepSpares
<1>4. Spec => [][Clear \/ Spares]_vars
  BY <1>1, <1>2, <1>3, PTL DEF Spec
<1>. QED
  BY <1>4 DEF EvictsOnlyOldest, Spares

-----------------------------------------------------------------------------
(* What the caches hold.                                                   *)

\* A JavaScript Set or Map holds a key once.
Distinct(keys) == \A a, b \in 1..Len(keys) : keys[a] = keys[b] => a = b

\* The key is there, and whatever is younger is in T.
Young(keys, g, T) == \E p \in 1..Len(keys) : keys[p] = g /\ \A q \in p..Len(keys) : keys[q] \in T

\* Neither using a key nor the cap puts it in a cache twice.
LEMMA TouchDistinct ==
  ASSUME NEW keys \in Seq(Hashes), NEW h \in Hashes, Distinct(keys)
  PROVE  Distinct(Touch(keys, h))
<1>. DEFINE t == Touch(keys, h)
<1>1. /\ t \in Seq(Hashes) /\ t[Len(t)] = h
      /\ \E j \in 1..(Len(keys) + 1) :
           /\ j <= Len(keys) => keys[j] = h /\ Len(t) = Len(keys)
           /\ j = Len(keys) + 1 => h \notin ToSet(keys) /\ Len(t) = Len(keys) + 1
           /\ \A i \in 1..(Len(t) - 1) : t[i] = IF i < j THEN keys[i] ELSE keys[i + 1]
  BY TouchIs
<1>. HIDE DEF t
<1>2. Len(keys) \in Nat /\ Len(t) \in Nat
  BY <1>1
<1>3. PICK j \in 1..(Len(keys) + 1) :
        /\ j <= Len(keys) => keys[j] = h /\ Len(t) = Len(keys)
        /\ j = Len(keys) + 1 => h \notin ToSet(keys) /\ Len(t) = Len(keys) + 1
        /\ \A i \in 1..(Len(t) - 1) : t[i] = IF i < j THEN keys[i] ELSE keys[i + 1]
  BY <1>1
<1>. DEFINE m(i) == IF i < j THEN i ELSE i + 1
<1>4. \A i \in 1..(Len(t) - 1) : m(i) \in 1..Len(keys) /\ m(i) # j /\ t[i] = keys[m(i)]
  BY <1>2, <1>3
<1>5. \A i \in 1..(Len(t) - 1) : t[i] # h
  <2>. SUFFICES ASSUME NEW i \in 1..(Len(t) - 1), t[i] = h PROVE FALSE
    OBVIOUS
  <2>1. keys[m(i)] = h /\ m(i) \in 1..Len(keys) /\ m(i) # j
    BY <1>4
  <2>. HIDE DEF m
  <2>2. CASE j <= Len(keys)
    BY <1>2, <1>3, <2>1, <2>2 DEF Distinct
  <2>3. CASE j = Len(keys) + 1
    BY <1>3, <2>1, <2>3 DEF ToSet
  <2>. QED
    BY <1>2, <2>2, <2>3
<1>6. \A a, b \in 1..(Len(t) - 1) : t[a] = t[b] => a = b
  <2>. SUFFICES ASSUME NEW a \in 1..(Len(t) - 1), NEW b \in 1..(Len(t) - 1), t[a] = t[b] PROVE a = b
    OBVIOUS
  <2>1. m(a) = m(b)
    <3>1. keys[m(a)] = keys[m(b)] /\ m(a) \in 1..Len(keys) /\ m(b) \in 1..Len(keys)
      BY <1>4
    <3>. HIDE DEF m
    <3>. QED
      BY <3>1 DEF Distinct
  <2>. QED
    BY <1>2, <2>1
<1>7. \A a \in 1..Len(t) : a = Len(t) \/ a \in 1..(Len(t) - 1)
  BY <1>2
<1>. QED
  BY <1>1, <1>5, <1>6, <1>7 DEF Distinct, t

\* Capping a cache leaves no hash in it twice.
LEMMA CappedDistinct ==
  ASSUME NEW keys \in Seq(Hashes), NEW cap \in Nat, Distinct(keys)
  PROVE  Distinct(Capped(keys, cap))
<1>. DEFINE c == Capped(keys, cap)
<1>1. PICK d \in 0..Len(keys) : Len(c) = Len(keys) - d /\ \A i \in 1..Len(c) : c[i] = keys[i + d]
  BY CappedIs
<1>. HIDE DEF c
<1>2. \A i \in 1..Len(c) : i + d \in 1..Len(keys)
  BY <1>1
<1>3. \A a, b \in 1..Len(c) : c[a] = c[b] => a + d = b + d
  BY <1>1, <1>2 DEF Distinct
<1>4. \A a, b \in 1..Len(c) : a + d = b + d => a = b
  BY <1>1
<1>. QED
  BY <1>3, <1>4 DEF Distinct, c

\* A key is the youngest of all when it has been used.
LEMMA TouchYoungest ==
  ASSUME NEW keys \in Seq(Hashes), NEW h \in Hashes
  PROVE  Young(Touch(keys, h), h, {h})
<1>. DEFINE t == Touch(keys, h)
<1>1. t \in Seq(Hashes) /\ t[Len(t)] = h /\ Len(t) # 0
  <2>1. /\ t \in Seq(Hashes) /\ t[Len(t)] = h
        /\ \E j \in 1..(Len(keys) + 1) :
             /\ j <= Len(keys) => Len(t) = Len(keys)
             /\ j = Len(keys) + 1 => Len(t) = Len(keys) + 1
    BY TouchIs
  <2>2. Len(keys) \in Nat
    OBVIOUS
  <2>. HIDE DEF t
  <2>. QED
    BY <2>1, <2>2
<1>. HIDE DEF t
<1>2. Len(t) \in 1..Len(t) /\ \A q \in Len(t)..Len(t) : q = Len(t)
  BY <1>1
<1>. QED
  BY <1>1, <1>2 DEF Young, t

\* What was young among T is so among T and the key that is used.
LEMMA TouchYoung ==
  ASSUME NEW keys \in Seq(Hashes), NEW h \in Hashes, NEW g, NEW T, Young(keys, g, T)
  PROVE  Young(Touch(keys, h), g, T \cup {h})
<1>. DEFINE t == Touch(keys, h)
<1>1. /\ t \in Seq(Hashes) /\ t[Len(t)] = h
      /\ \E j \in 1..(Len(keys) + 1) :
           /\ j <= Len(keys) => keys[j] = h /\ Len(t) = Len(keys)
           /\ j = Len(keys) + 1 => h \notin ToSet(keys) /\ Len(t) = Len(keys) + 1
           /\ \A i \in 1..(Len(t) - 1) : t[i] = IF i < j THEN keys[i] ELSE keys[i + 1]
  BY TouchIs
<1>2. CASE g = h
  <2>1. Young(t, h, {h})
    BY TouchYoungest
  <2>. HIDE DEF t
  <2>. QED
    BY <1>2, <2>1 DEF Young, t
<1>. HIDE DEF t
<1>3. Len(keys) \in Nat /\ Len(t) \in Nat
  BY <1>1
<1>4. PICK j \in 1..(Len(keys) + 1) :
        /\ j <= Len(keys) => keys[j] = h /\ Len(t) = Len(keys)
        /\ j = Len(keys) + 1 => h \notin ToSet(keys) /\ Len(t) = Len(keys) + 1
        /\ \A i \in 1..(Len(t) - 1) : t[i] = IF i < j THEN keys[i] ELSE keys[i + 1]
  BY <1>1
<1>5. PICK p \in 1..Len(keys) : keys[p] = g /\ \A q \in p..Len(keys) : keys[q] \in T
  BY DEF Young
<1>6. CASE g # h
  <2>. DEFINE r == IF p < j THEN p ELSE p - 1
  <2>1. p # j
    BY <1>3, <1>4, <1>5, <1>6
  <2>2. r \in 1..(Len(t) - 1) /\ t[r] = g
    <3>1. CASE p < j
      <4>a. j <= Len(keys) \/ j = Len(keys) + 1
        BY <1>3
      <4>0. \/ j <= Len(keys) /\ Len(t) = Len(keys)
            \/ j = Len(keys) + 1 /\ Len(t) = Len(keys) + 1
        BY <1>4, <4>a
      <4>1. p \in Nat \ {0} /\ p <= Len(t) - 1
        BY <1>3, <1>5, <3>1, <4>0
      <4>2. r = p /\ r \in 1..(Len(t) - 1) /\ r < j
        BY <1>3, <3>1, <4>1
      <4>. HIDE DEF r
      <4>. QED
        BY <1>4, <1>5, <4>2
    <3>2. CASE ~(p < j)
      <4>1. j < p /\ j <= Len(keys)
        BY <1>3, <2>1, <3>2
      <4>2. r = p - 1 /\ r \in 1..(Len(t) - 1) /\ ~(r < j) /\ r + 1 = p
        BY <1>3, <1>4, <3>2, <4>1
      <4>. HIDE DEF r
      <4>. QED
        BY <1>4, <1>5, <4>2
    <3>. QED
      BY <3>1, <3>2
  <2>3. ASSUME NEW q \in r..(Len(t) - 1) PROVE t[q] \in T
    <3>. DEFINE m == IF q < j THEN q ELSE q + 1
    <3>1. q \in 1..(Len(t) - 1) /\ m \in p..Len(keys)
      BY <1>3, <1>4, <2>1, <2>2
    <3>2. t[q] = keys[m]
      BY <1>4, <3>1
    <3>. HIDE DEF m
    <3>. QED
      BY <1>5, <3>1, <3>2
  <2>4. \A q \in r..Len(t) : t[q] \in T \cup {h}
    <3>1. \A q \in r..Len(t) : q = Len(t) \/ q \in r..(Len(t) - 1)
      BY <1>3, <2>2
    <3>. QED
      BY <1>1, <2>3, <3>1
  <2>5. r \in 1..Len(t)
    BY <1>3, <2>2
  <2>. HIDE DEF r
  <2>. QED
    BY <2>2, <2>4, <2>5 DEF Young, t
<1>. QED
  BY <1>2, <1>6

\* The cap spares what is young among no more keys than it allows.
LEMMA CappedYoung ==
  ASSUME NEW keys \in Seq(Hashes), NEW cap \in Nat, Distinct(keys),
         NEW g, NEW T, Young(keys, g, T), IsFiniteSet(T), Cardinality(T) <= cap
  PROVE  Young(Capped(keys, cap), g, T)
<1>. DEFINE c == Capped(keys, cap)
<1>1. PICK d \in 0..Len(keys) :
        /\ Len(c) = Len(keys) - d /\ (d > 0 => Len(c) = cap)
        /\ \A i \in 1..Len(c) : c[i] = keys[i + d]
  BY CappedIs
<1>. HIDE DEF c
<1>2. PICK p \in 1..Len(keys) : keys[p] = g /\ \A q \in p..Len(keys) : keys[q] \in T
  BY DEF Young
<1>3. Len(keys) \in Nat
  OBVIOUS
<1>4. Len(keys) - p + 1 <= cap
  <2>. DEFINE f == [q \in p..Len(keys) |-> keys[q]]
  <2>1. f \in [p..Len(keys) -> T]
    BY <1>2
  <2>2. \A a, b \in p..Len(keys) : f[a] = f[b] => a = b
    <3>1. \A a \in p..Len(keys) : a \in 1..Len(keys)
      BY <1>3
    <3>. QED
      BY <3>1 DEF Distinct
  <2>. HIDE DEF f
  <2>3. f \in Injection(p..Len(keys), T)
    BY <2>1, <2>2 DEF Injection, IsInjective
  <2>4. Cardinality(p..Len(keys)) <= Cardinality(T)
    BY <2>3, FS_Injection
  <2>5. Cardinality(p..Len(keys)) = Len(keys) - p + 1
    BY <1>3, FS_Interval
  <2>6. Cardinality(T) \in Nat
    BY FS_CardinalityType
  <2>. QED
    BY <1>3, <2>4, <2>5, <2>6
<1>5. p - d \in 1..Len(c) /\ (p - d) + d = p
  BY <1>1, <1>3, <1>4
<1>6. c[p - d] = g
  BY <1>1, <1>2, <1>5
<1>7. \A q \in (p - d)..Len(c) : c[q] \in T
  <2>. SUFFICES ASSUME NEW q \in (p - d)..Len(c) PROVE c[q] \in T
    OBVIOUS
  <2>1. q \in 1..Len(c) /\ q + d \in p..Len(keys)
    BY <1>1, <1>3, <1>5
  <2>. QED
    BY <1>1, <1>2, <2>1
<1>. QED
  BY <1>5, <1>6, <1>7 DEF Young, c

-----------------------------------------------------------------------------
(* The steps of the store keep the caches clean.                           *)

\* Serials are given out once, and caches hold their keys once.
Clean(store, k) ==
  \A id \in DOMAIN store :
    store[id].serial < k /\ Distinct(store[id].seen) /\ Distinct(store[id].content)

\* The types of the parts of a session that can be clean.
LEMMA SessionClean ==
  ASSUME NEW store, IsStore(store), NEW id \in DOMAIN store
  PROVE  /\ store[id].seen \in Seq(Hashes) /\ store[id].content \in Seq(Hashes)
         /\ store[id].serial \in Nat
BY DEF IsStore, Session

\* A cache that holds nothing holds nothing twice.
LEMMA EmptyDistinct == Distinct(<<>>)
BY DEF Distinct

\* Opening a session gives no serial twice.
LEMMA OpenedClean ==
  ASSUME NEW store, IsStore(store), NEW sid \in SessionIds, NEW t \in Nat, NEW k \in Nat,
         Clean(store, k), NEW n, n = IF Creates(store, sid, t) THEN k + 1 ELSE k
  PROVE  Clean(Opened(store, sid, t, k), n)
<1>. DEFINE opened == Opened(store, sid, t, k)
<1>1. \A id \in DOMAIN opened :
        \/ id = sid /\ Creates(store, sid, t) /\ opened[id] = Fresh(t, k)
        \/ /\ id \in DOMAIN store
           /\ opened[id].content = store[id].content
           /\ opened[id].seen = store[id].seen
           /\ opened[id].serial = store[id].serial
  BY OpenedType
<1>. HIDE DEF opened
<1>2. ASSUME NEW id \in DOMAIN opened
      PROVE  opened[id].serial < n /\ Distinct(opened[id].seen) /\ Distinct(opened[id].content)
  <2>1. CASE Creates(store, sid, t) /\ opened[id] = Fresh(t, k)
    <3>1. opened[id].serial = k /\ opened[id].seen = <<>> /\ opened[id].content = <<>>
      BY <2>1 DEF Fresh
    <3>. QED
      BY <2>1, <3>1, EmptyDistinct
  <2>2. CASE /\ id \in DOMAIN store
             /\ opened[id].content = store[id].content
             /\ opened[id].seen = store[id].seen
             /\ opened[id].serial = store[id].serial
    <3>1. store[id].serial \in Nat /\ store[id].serial < k
      BY <2>2, SessionClean DEF Clean
    <3>2. store[id].serial < n
      BY <3>1
    <3>. QED
      BY <2>2, <3>2 DEF Clean
  <2>. QED
    BY <1>1, <2>1, <2>2
<1>. QED
  BY <1>2 DEF Clean, opened

\* Storing a block leaves the sessions clean.
LEMMA StoredClean ==
  ASSUME NEW store, IsStore(store), NEW sid \in SessionIds, NEW h \in Hashes,
         NEW t \in Nat, NEW k \in Nat,
         Clean(store, k), NEW n, n = IF Creates(store, sid, t) THEN k + 1 ELSE k
  PROVE  Clean(Stored(store, sid, h, t, k), n)
<1>. DEFINE opened == Opened(store, sid, t, k)
            stored == Stored(store, sid, h, t, k)
<1>1. Clean(opened, n) /\ IsStore(opened) /\ sid \in DOMAIN opened
  BY OpenedClean, OpenedType
<1>2. /\ DOMAIN stored = DOMAIN opened
      /\ stored[sid].seen = Capped(Touch(opened[sid].seen, h), MaxSeen)
      /\ stored[sid].content = Capped(Touch(opened[sid].content, h), MaxContent)
      /\ stored[sid].serial = opened[sid].serial
      /\ \A id \in DOMAIN stored \ {sid} : stored[id] = opened[id]
  BY StoredType
<1>. HIDE DEF opened, stored
<1>3. /\ opened[sid].seen \in Seq(Hashes) /\ opened[sid].content \in Seq(Hashes)
      /\ Distinct(opened[sid].seen) /\ Distinct(opened[sid].content)
  BY <1>1, SessionClean DEF Clean
<1>4. Distinct(stored[sid].seen) /\ Distinct(stored[sid].content)
  BY <1>2, <1>3, TouchType, TouchDistinct, CappedDistinct, StoreAssumption
<1>. QED
  BY <1>1, <1>2, <1>4 DEF Clean, stored

\* Marking a hash as seen leaves the sessions clean.
LEMMA MarkedClean ==
  ASSUME NEW store, IsStore(store), NEW sid \in SessionIds, NEW k \in Nat, NEW h \in Hashes,
         NEW n, Clean(store, n)
  PROVE  Clean(MarkSeen(store, sid, k, h), n)
<1>. DEFINE marked == MarkSeen(store, sid, k, h)
<1>1. /\ DOMAIN marked = DOMAIN store
      /\ \A id \in DOMAIN store :
           /\ marked[id].content = store[id].content
           /\ marked[id].serial = store[id].serial
           /\ id # sid \/ store[id].serial # k => marked[id] = store[id]
      /\ Holds(store, sid, k) => marked[sid].seen = Touch(store[sid].seen, h)
  BY MarkedType
<1>. HIDE DEF marked
<1>2. ASSUME NEW id \in DOMAIN store PROVE Distinct(marked[id].seen)
  <2>1. CASE id # sid \/ store[id].serial # k
    BY <1>1, <2>1 DEF Clean
  <2>2. CASE Holds(store, sid, k) /\ id = sid
    <3>1. store[sid].seen \in Seq(Hashes) /\ Distinct(store[sid].seen)
      BY <2>2, SessionClean DEF Clean
    <3>. QED
      BY <1>1, <2>2, <3>1, TouchDistinct
  <2>. QED
    BY <2>1, <2>2 DEF Holds
<1>. QED
  BY <1>1, <1>2 DEF Clean, marked

\* Capping what was seen leaves the sessions clean.
LEMMA CappedSeenClean ==
  ASSUME NEW store, IsStore(store), NEW sid \in SessionIds, NEW k \in Nat, NEW n, Clean(store, n)
  PROVE  Clean(CapSeen(store, sid, k), n)
<1>. DEFINE capped == CapSeen(store, sid, k)
<1>1. /\ DOMAIN capped = DOMAIN store
      /\ \A id \in DOMAIN store :
           /\ capped[id].content = store[id].content
           /\ capped[id].serial = store[id].serial
           /\ id # sid \/ store[id].serial # k => capped[id] = store[id]
      /\ Holds(store, sid, k) => capped[sid].seen = Capped(store[sid].seen, MaxSeen)
  BY CappedSeenType
<1>. HIDE DEF capped
<1>2. ASSUME NEW id \in DOMAIN store PROVE Distinct(capped[id].seen)
  <2>1. CASE id # sid \/ store[id].serial # k
    BY <1>1, <2>1 DEF Clean
  <2>2. CASE Holds(store, sid, k) /\ id = sid
    <3>1. store[sid].seen \in Seq(Hashes) /\ Distinct(store[sid].seen)
      BY <2>2, SessionClean DEF Clean
    <3>. QED
      BY <1>1, <2>2, <3>1, CappedDistinct, StoreAssumption
  <2>. QED
    BY <2>1, <2>2 DEF Holds
<1>. QED
  BY <1>1, <1>2 DEF Clean, capped

Serials == Safe /\ Clean(sessions, nextSerial)

\* No serial and no key is there twice at first.
LEMMA InitSerials == Init => Serials
BY InitSafe DEF Init, Serials, Clean

\* No step gives a serial twice or a cache the same key twice.
LEMMA StepSerials ==
  ASSUME Serials, [StoreStep]_vars
  PROVE  Serials'
<1>1. now \in Nat /\ nextSerial \in Nat /\ IsStore(sessions) /\ turn \in Turn
  BY DEF Serials, Safe, TypeOK
<1>2. Clean(sessions, nextSerial)
  BY DEF Serials
<1>3. Safe'
  BY StepSafe DEF Serials
<1>. SUFFICES Clean(sessions', nextSerial')
  BY <1>3 DEF Serials
<1>4. CASE Tick \/ UNCHANGED vars
  BY <1>2, <1>4 DEF Tick, vars
<1>5. CASE GetSession
  <2>1. sessions' = Pruned(sessions, now) /\ nextSerial' = nextSerial
    BY <1>5 DEF GetSession
  <2>2. \A id \in DOMAIN sessions' : id \in DOMAIN sessions /\ sessions'[id] = sessions[id]
    BY <1>1, <2>1, PrunedType
  <2>. QED
    BY <1>2, <2>1, <2>2 DEF Clean
<1>6. CASE Clear
  BY <1>6 DEF Clear, Clean
<1>7. ASSUME NEW sid \in SessionIds, GetOrCreateSession(sid)
      PROVE  Clean(sessions', nextSerial')
  BY <1>1, <1>2, <1>7, OpenedClean DEF GetOrCreateSession, Numbered
<1>8. ASSUME NEW sid \in SessionIds, NEW h \in Hashes, StoreContent(sid, h)
      PROVE  Clean(sessions', nextSerial')
  BY <1>1, <1>2, <1>8, StoredClean DEF StoreContent, Numbered
<1>9. ASSUME NEW sid \in SessionIds, NEW key \in Hashes \cup Refs, GetContent(sid, key)
      PROVE  Clean(sessions', nextSerial')
  <2>. DEFINE h == CHOOSE x \in Matching(sid, key) : TRUE
              content == Touch(sessions[sid].content, h)
  <2>1. sid \in DOMAIN sessions /\ sessions[sid].content \in Seq(Hashes)
    BY <1>1, <1>9, SessionClean DEF GetContent, Live
  <2>2. h \in Hashes
    <3>1. Cardinality(Matching(sid, key)) = 1
      BY <1>9 DEF GetContent
    <3>2. Matching(sid, key) # {}
      BY <3>1, FS_EmptySet
    <3>3. h \in Matching(sid, key)
      BY <3>2
    <3>4. Matching(sid, key) \subseteq ToSet(sessions[sid].content)
      BY DEF Matching
    <3>. HIDE DEF h
    <3>. QED
      BY <2>1, <3>3, <3>4 DEF ToSet
  <2>3. sessions' = [sessions EXCEPT ![sid].content = content] /\ nextSerial' = nextSerial
    BY <1>9 DEF GetContent
  <2>4. Distinct(content)
    <3>1. Distinct(sessions[sid].content)
      BY <1>2, <2>1 DEF Clean
    <3>. HIDE DEF h
    <3>. QED
      BY <2>1, <2>2, <3>1, TouchDistinct
  <2>. HIDE DEF content
  <2>5. /\ DOMAIN sessions' = DOMAIN sessions
        /\ \A id \in DOMAIN sessions :
             /\ sessions'[id].serial = sessions[id].serial
             /\ sessions'[id].seen = sessions[id].seen
             /\ sessions'[id].content = IF id = sid THEN content ELSE sessions[id].content
    BY <1>1, <2>1, <2>3 DEF IsStore, Session
  <2>. QED
    BY <1>2, <2>3, <2>4, <2>5 DEF Clean
<1>10. ASSUME NEW sid \in SessionIds, NEW blocks, BeginRecordTurn(sid, blocks)
       PROVE  Clean(sessions', nextSerial')
  <2>. DEFINE opened == Opened(sessions, sid, now, nextSerial)
  <2>1. Clean(opened, nextSerial') /\ IsStore(opened) /\ sid \in DOMAIN opened
    BY <1>1, <1>2, <1>10, OpenedClean, OpenedType DEF BeginRecordTurn, Numbered
  <2>2. sessions' = [opened EXCEPT ![sid].turnCount = @ + 1]
    BY <1>10 DEF BeginRecordTurn
  <2>. HIDE DEF opened
  <2>3. /\ DOMAIN sessions' = DOMAIN opened
        /\ \A id \in DOMAIN opened :
             /\ sessions'[id].serial = opened[id].serial
             /\ sessions'[id].seen = opened[id].seen
             /\ sessions'[id].content = opened[id].content
    BY <2>1, <2>2 DEF IsStore, Session
  <2>. QED
    BY <2>1, <2>3 DEF Clean
<1>11. CASE RecordBlock
  <2>. DEFINE block == Head(turn.todo)
              marked == MarkSeen(sessions, turn.sid, turn.serial, block.hash)
  <2>1. /\ turn.sid \in SessionIds /\ turn.serial \in Nat
        /\ turn.todo \in Seq(Block) /\ turn.todo # <<>>
    BY <1>1, <1>11, RunningTurn DEF RecordBlock
  <2>2. block.hash \in Hashes
    <3>1. block \in Block
      BY <2>1, HeadTailProperties
    <3>. HIDE DEF block
    <3>. QED
      BY <3>1 DEF Block
  <2>3. \/ sessions' = Stored(marked, turn.sid, block.hash, now, nextSerial)
           /\ nextSerial' = IF Creates(marked, turn.sid, now) THEN nextSerial + 1 ELSE nextSerial
        \/ sessions' = marked /\ nextSerial' = nextSerial
    BY <1>11 DEF RecordBlock, Numbered
  <2>. HIDE DEF block
  <2>4. IsStore(marked) /\ Clean(marked, nextSerial)
    BY <1>1, <1>2, <2>1, <2>2, MarkedType, MarkedClean
  <2>. HIDE DEF marked
  <2>. QED
    BY <1>1, <2>1, <2>2, <2>3, <2>4, StoredClean
<1>12. CASE EndRecordTurn
  <2>1. turn.sid \in SessionIds /\ turn.serial \in Nat
    BY <1>1, <1>12, RunningTurn DEF EndRecordTurn
  <2>. QED
    BY <1>1, <1>2, <1>12, <2>1, CappedSeenClean DEF EndRecordTurn
<1>. QED
  BY <1>4, <1>5, <1>6, <1>7, <1>8, <1>9, <1>10, <1>11, <1>12 DEF StoreStep

-----------------------------------------------------------------------------
(* What a turn recorded is retrievable.                                    *)

After(blocks, i) == {blocks[j] : j \in i..Len(blocks)}

HashesIn(B) == {b.hash : b \in B}
StoredIn(B) == {b.hash : b \in {x \in B : x.stored}}

\* Every block of a turn, unless too many have come after it, is among the
\* youngest of the cache, younger than all that the turn did not bring.
SeenKept(keys, done) ==
  \A i \in 1..Len(done) :
    Cardinality(HashesIn(After(done, i))) <= MaxSeen
      => Young(keys, done[i].hash, HashesIn(After(done, i)))

ContentKept(keys, done) ==
  \A i \in 1..Len(done) :
    done[i].stored /\ Cardinality(StoredIn(After(done, i))) <= MaxContent
      => Young(keys, done[i].hash, StoredIn(After(done, i)))

Recalls ==
  turn.phase # "idle" =>
    /\ turn.serial < nextSerial
    /\ Holds(sessions, turn.sid, turn.serial) =>
         /\ SeenKept(sessions[turn.sid].seen, turn.done)
         /\ ContentKept(sessions[turn.sid].content, turn.done)

RecallInv == Serials /\ Recalls

\* The blocks from the i-th on, as the property slices them.
LEMMA TailIs ==
  ASSUME NEW blocks \in Seq(Block), NEW i \in 1..Len(blocks)
  PROVE  ToSet(SubSeq(blocks, i, Len(blocks))) = After(blocks, i)
<1>. DEFINE n == Len(blocks)
            s == SubSeq(blocks, i, n)
<1>1. i \in Int /\ n \in Int /\ \A j \in i..n : blocks[j] \in Block
  OBVIOUS
<1>. HIDE DEF n
<1>2. /\ s \in Seq(Block) /\ Len(s) = IF i <= n THEN n - i + 1 ELSE 0
      /\ \A j \in 1..(n - i + 1) : s[j] = blocks[i + j - 1]
  BY <1>1, SubSeqIs
<1>. HIDE DEF s
<1>3. Len(s) = n - i + 1
  BY <1>1, <1>2 DEF n
<1>4. ASSUME NEW j \in 1..Len(s) PROVE s[j] \in After(blocks, i)
  <2>1. s[j] = blocks[i + j - 1] /\ i + j - 1 \in i..n
    BY <1>1, <1>2, <1>3
  <2>. QED
    BY <2>1 DEF After, n
<1>5. ASSUME NEW j \in i..n PROVE \E m \in 1..Len(s) : s[m] = blocks[j]
  <2>1. j - i + 1 \in 1..(n - i + 1) /\ i + (j - i + 1) - 1 = j
    BY <1>1
  <2>2. s[j - i + 1] = blocks[j]
    BY <1>2, <2>1
  <2>. QED
    BY <1>3, <2>1, <2>2
<1>6. ToSet(s) = {s[j] : j \in 1..Len(s)}
  BY <1>2 DEF ToSet
<1>7. After(blocks, i) = {blocks[j] : j \in i..n}
  BY DEF After, n
<1>8. ToSet(s) \subseteq After(blocks, i)
  BY <1>4, <1>6
<1>9. After(blocks, i) \subseteq ToSet(s)
  BY <1>5, <1>6, <1>7
<1>. QED
  BY <1>8, <1>9 DEF n, s

\* One block more comes after every earlier block, and nothing after itself.
LEMMA AfterAppend ==
  ASSUME NEW done \in Seq(Block), NEW b \in Block
  PROVE  LET more == Append(done, b)
         IN /\ more \in Seq(Block) /\ Len(more) = Len(done) + 1
            /\ \A i \in 1..Len(done) : more[i] = done[i] /\ After(more, i) = After(done, i) \cup {b}
            /\ more[Len(done) + 1] = b /\ After(more, Len(done) + 1) = {b}
<1>. DEFINE more == Append(done, b)
            n == Len(done)
<1>1. /\ more \in Seq(Block) /\ Len(more) = n + 1 /\ more[n + 1] = b
      /\ \A i \in 1..n : more[i] = done[i]
  BY AppendProperties
<1>2. n \in Nat
  OBVIOUS
<1>. HIDE DEF more, n
<1>3. ASSUME NEW i \in 1..n PROVE After(more, i) = After(done, i) \cup {b}
  <2>1. i..(n + 1) = i..n \cup {n + 1} /\ \A j \in i..n : more[j] = done[j]
    BY <1>1, <1>2
  <2>. QED
    BY <1>1, <2>1 DEF After, n
<1>4. After(more, n + 1) = {b}
  <2>1. (n + 1)..(n + 1) = {n + 1}
    BY <1>2
  <2>. QED
    BY <1>1, <2>1 DEF After
<1>. QED
  BY <1>1, <1>3, <1>4 DEF more, n

\* What one more block adds to the hashes of a turn, and to those it stored.
LEMMA HashesOf ==
  /\ \A B, b : HashesIn(B \cup {b}) = HashesIn(B) \cup {b.hash}
  /\ \A b : HashesIn({b}) = {b.hash}
  /\ \A B, b : b.stored => StoredIn(B \cup {b}) = StoredIn(B) \cup {b.hash}
  /\ \A b : b.stored => StoredIn({b}) = {b.hash}
  /\ \A B, b : ~b.stored => StoredIn(B \cup {b}) = StoredIn(B)
BY DEF HashesIn, StoredIn

\* A turn has finitely many.
LEMMA HashesFinite ==
  ASSUME NEW done \in Seq(Block), NEW i \in 1..Len(done)
  PROVE  /\ IsFiniteSet(HashesIn(After(done, i))) /\ IsFiniteSet(StoredIn(After(done, i)))
         /\ Cardinality(HashesIn(After(done, i))) \in Nat
         /\ Cardinality(StoredIn(After(done, i))) \in Nat
<1>. DEFINE D == i..Len(done)
            H == HashesIn(After(done, i))
            f == [j \in D |-> done[j].hash]
<1>1. i \in Int /\ Len(done) \in Int
  OBVIOUS
<1>2. f \in Surjection(D, H)
  BY DEF Surjection, HashesIn, After
<1>3. IsFiniteSet(D)
  BY <1>1, FS_Interval
<1>4. IsFiniteSet(H)
  <2>. HIDE DEF f, D, H
  <2>. QED
    BY <1>2, <1>3, FS_Surjection
<1>5. StoredIn(After(done, i)) \subseteq H
  BY DEF StoredIn, HashesIn
<1>. HIDE DEF H
<1>. QED
  BY <1>4, <1>5, FS_Subset, FS_CardinalityType DEF H

\* The block is seen, and the cap not applied yet.
LEMMA SeenMarked ==
  ASSUME NEW keys \in Seq(Hashes), NEW done \in Seq(Block), NEW b \in Block, SeenKept(keys, done)
  PROVE  SeenKept(Touch(keys, b.hash), Append(done, b))
<1>. DEFINE more == Append(done, b)
            h == b.hash
<1>1. /\ more \in Seq(Block) /\ Len(more) = Len(done) + 1 /\ h \in Hashes /\ Len(done) \in Nat
      /\ \A i \in 1..Len(done) : more[i] = done[i] /\ After(more, i) = After(done, i) \cup {b}
      /\ more[Len(done) + 1] = b /\ After(more, Len(done) + 1) = {b}
  <2>1. h \in Hashes
    BY DEF Block
  <2>. HIDE DEF h
  <2>. QED
    BY <2>1, AfterAppend
<1>. HIDE DEF more, h
<1>2. ASSUME NEW i \in 1..Len(more), Cardinality(HashesIn(After(more, i))) <= MaxSeen
      PROVE  Young(Touch(keys, h), more[i].hash, HashesIn(After(more, i)))
  <2>1. CASE i \in 1..Len(done)
    <3>. DEFINE T == HashesIn(After(done, i))
    <3>1. HashesIn(After(more, i)) = T \cup {h}
      BY <1>1, <2>1, HashesOf DEF h
    <3>2. IsFiniteSet(T) /\ Cardinality(T) \in Nat
      BY <2>1, HashesFinite
    <3>. HIDE DEF T
    <3>3. IsFiniteSet(T \cup {h}) /\ Cardinality(T) <= Cardinality(T \cup {h}) /\ Cardinality(T \cup {h}) \in Nat
      BY <3>2, FS_AddElement, FS_Subset, FS_CardinalityType
    <3>4. Cardinality(T) <= MaxSeen
      BY <1>2, <3>1, <3>2, <3>3, StoreAssumption
    <3>5. Young(keys, done[i].hash, T)
      BY <2>1, <3>4 DEF SeenKept, T
    <3>6. Young(Touch(keys, h), done[i].hash, T \cup {h})
      BY <1>1, <3>5, TouchYoung
    <3>. QED
      BY <1>1, <2>1, <3>1, <3>6
  <2>2. CASE i = Len(done) + 1
    <3>1. HashesIn(After(more, i)) = {h} /\ more[i].hash = h
      BY <1>1, <2>2, HashesOf DEF h
    <3>. QED
      BY <1>1, <3>1, TouchYoungest
  <2>. QED
    BY <1>1, <2>1, <2>2
<1>. QED
  BY <1>2 DEF SeenKept, more, h

\* Storing the content of the block marks it as seen once more.
LEMMA SeenMarkedAgain ==
  ASSUME NEW keys \in Seq(Hashes), NEW done \in Seq(Block), NEW b \in Block,
         SeenKept(keys, Append(done, b))
  PROVE  SeenKept(Touch(keys, b.hash), Append(done, b))
<1>. DEFINE more == Append(done, b)
            h == b.hash
<1>1. h \in Hashes
  BY DEF Block
<1>2. ASSUME NEW i \in 1..Len(more), Cardinality(HashesIn(After(more, i))) <= MaxSeen
      PROVE  Young(Touch(keys, h), more[i].hash, HashesIn(After(more, i)))
  <2>. DEFINE T == HashesIn(After(more, i))
  <2>1. Young(keys, more[i].hash, T)
    BY <1>2 DEF SeenKept
  <2>2. h \in T
    <3>1. Len(more) \in i..Len(more) /\ more[Len(more)] = b
      <4>1. Len(more) = Len(done) + 1 /\ more[Len(done) + 1] = b /\ Len(done) \in Nat
        BY AfterAppend
      <4>. HIDE DEF more
      <4>. QED
        BY <4>1
    <3>. QED
      BY <3>1 DEF HashesIn, After
  <2>. HIDE DEF T
  <2>3. T \cup {h} = T
    BY <2>2
  <2>. HIDE DEF more, h
  <2>4. Young(Touch(keys, h), more[i].hash, T \cup {h})
    BY <1>1, <2>1, TouchYoung
  <2>. QED
    BY <2>3, <2>4 DEF T
<1>. QED
  BY <1>2 DEF SeenKept

\* The cap of recordTurn's last statement spares the turn's own youngest blocks.
LEMMA SeenCapped ==
  ASSUME NEW keys \in Seq(Hashes), NEW done \in Seq(Block), Distinct(keys), SeenKept(keys, done)
  PROVE  SeenKept(Capped(keys, MaxSeen), done)
<1>1. ASSUME NEW i \in 1..Len(done), Cardinality(HashesIn(After(done, i))) <= MaxSeen
      PROVE  Young(Capped(keys, MaxSeen), done[i].hash, HashesIn(After(done, i)))
  <2>1. Young(keys, done[i].hash, HashesIn(After(done, i))) /\ IsFiniteSet(HashesIn(After(done, i)))
    BY <1>1, HashesFinite DEF SeenKept
  <2>2. MaxSeen \in Nat
    BY StoreAssumption
  <2>. QED
    BY <1>1, <2>1, <2>2, CappedYoung
<1>. QED
  BY <1>1 DEF SeenKept

\* The block's content is stored, and the cap applied.
LEMMA ContentStored ==
  ASSUME NEW keys \in Seq(Hashes), NEW done \in Seq(Block), NEW b \in Block, b.stored,
         Distinct(keys), ContentKept(keys, done)
  PROVE  ContentKept(Capped(Touch(keys, b.hash), MaxContent), Append(done, b))
<1>. DEFINE more == Append(done, b)
            h == b.hash
            t == Touch(keys, h)
<1>1. /\ more \in Seq(Block) /\ Len(more) = Len(done) + 1 /\ h \in Hashes /\ Len(done) \in Nat
      /\ \A i \in 1..Len(done) : more[i] = done[i] /\ After(more, i) = After(done, i) \cup {b}
      /\ more[Len(done) + 1] = b /\ After(more, Len(done) + 1) = {b}
  <2>1. h \in Hashes
    BY DEF Block
  <2>. HIDE DEF h
  <2>. QED
    BY <2>1, AfterAppend
<1>. HIDE DEF more, h
<1>2. t \in Seq(Hashes) /\ Distinct(t) /\ MaxContent \in Nat
  BY <1>1, TouchType, TouchDistinct, StoreAssumption
<1>3. ASSUME NEW i \in 1..Len(more), more[i].stored, Cardinality(StoredIn(After(more, i))) <= MaxContent
      PROVE  Young(Capped(t, MaxContent), more[i].hash, StoredIn(After(more, i)))
  <2>0. IsFiniteSet(StoredIn(After(more, i)))
    BY <1>1, HashesFinite
  <2>1. Young(t, more[i].hash, StoredIn(After(more, i)))
    <3>1. CASE i \in 1..Len(done)
      <4>. DEFINE T == StoredIn(After(done, i))
      <4>1. StoredIn(After(more, i)) = T \cup {h}
        BY <1>1, <3>1, HashesOf DEF h
      <4>2. IsFiniteSet(T) /\ Cardinality(T) \in Nat
        BY <3>1, HashesFinite
      <4>. HIDE DEF T
      <4>3. IsFiniteSet(T \cup {h}) /\ Cardinality(T) <= Cardinality(T \cup {h}) /\ Cardinality(T \cup {h}) \in Nat
        BY <4>2, FS_AddElement, FS_Subset, FS_CardinalityType
      <4>4. Cardinality(T) <= MaxContent
        BY <1>2, <1>3, <4>1, <4>2, <4>3
      <4>5. Young(keys, done[i].hash, T)
        BY <1>1, <1>3, <3>1, <4>4 DEF ContentKept, T
      <4>6. Young(t, done[i].hash, T \cup {h})
        BY <1>1, <4>5, TouchYoung
      <4>. QED
        BY <1>1, <3>1, <4>1, <4>6
    <3>2. CASE i = Len(done) + 1
      <4>1. StoredIn(After(more, i)) = {h} /\ more[i].hash = h
        BY <1>1, <3>2, HashesOf DEF h
      <4>. QED
        BY <1>1, <4>1, TouchYoungest
    <3>. QED
      BY <1>1, <3>1, <3>2
  <2>. HIDE DEF t
  <2>. QED
    BY <1>2, <1>3, <2>0, <2>1, CappedYoung
<1>. QED
  BY <1>3 DEF ContentKept, more, h

\* A block recorded by its hash only says nothing of the stored content.
LEMMA ContentUnstored ==
  ASSUME NEW keys \in Seq(Hashes), NEW done \in Seq(Block), NEW b \in Block, ~b.stored,
         ContentKept(keys, done)
  PROVE  ContentKept(keys, Append(done, b))
<1>. DEFINE more == Append(done, b)
<1>1. /\ Len(more) = Len(done) + 1 /\ Len(done) \in Nat
      /\ \A i \in 1..Len(done) : more[i] = done[i] /\ After(more, i) = After(done, i) \cup {b}
      /\ more[Len(done) + 1] = b
  BY AfterAppend
<1>. HIDE DEF more
<1>2. ASSUME NEW i \in 1..Len(more), more[i].stored
      PROVE  i \in 1..Len(done) /\ more[i] = done[i] /\ StoredIn(After(more, i)) = StoredIn(After(done, i))
  <2>1. i \in 1..Len(done)
    BY <1>1, <1>2
  <2>. QED
    BY <1>1, <2>1, HashesOf
<1>. QED
  BY <1>2 DEF ContentKept, more

\* One block, in a session the turn still holds: it is marked as seen, and, if it
\* has content, stored, which marks it again and applies both caps.
LEMMA BlockRecalled ==
  ASSUME RecallInv, RecordBlock
  PROVE  Recalls'
<1>. DEFINE sid == turn.sid
            k == turn.serial
            block == Head(turn.todo)
            h == block.hash
            marked == MarkSeen(sessions, sid, k, h)
<1>1. /\ now \in Nat /\ nextSerial \in Nat /\ IsStore(sessions) /\ turn \in Turn
      /\ Clean(sessions, nextSerial)
  BY DEF RecallInv, Serials, Safe, TypeOK
<1>2. /\ sid \in SessionIds /\ k \in Nat
      /\ turn.done \in Seq(Block) /\ turn.todo \in Seq(Block) /\ turn.todo # <<>>
      /\ turn = [phase |-> "recording", sid |-> sid, serial |-> k,
                 done |-> turn.done, todo |-> turn.todo]
  BY <1>1, RunningTurn DEF RecordBlock
<1>3. block \in Block
  BY <1>2, HeadTailProperties
<1>4. h \in Hashes
  <2>. HIDE DEF block
  <2>. QED
    BY <1>3 DEF Block
<1>5. turn'.sid = sid /\ turn'.serial = k /\ turn'.done = Append(turn.done, block)
  <2>1. turn' = [turn EXCEPT !.done = Append(@, block), !.todo = Tail(@)]
    BY DEF RecordBlock
  <2>. HIDE DEF sid, k, block
  <2>2. PICK d, o : turn = [phase |-> "recording", sid |-> sid, serial |-> k,
                            done |-> d, todo |-> o]
    BY <1>2
  <2>3. turn.done = d
    BY <2>2
  <2>. QED
    BY <2>1, <2>2, <2>3
<1>6. /\ k < nextSerial
      /\ Holds(sessions, sid, k) => /\ SeenKept(sessions[sid].seen, turn.done)
                                    /\ ContentKept(sessions[sid].content, turn.done)
  BY DEF RecallInv, Recalls, RecordBlock
<1>7. /\ block.stored => /\ sessions' = Stored(marked, sid, h, now, nextSerial)
                         /\ nextSerial' = IF Creates(marked, sid, now) THEN nextSerial + 1 ELSE nextSerial
      /\ ~block.stored => sessions' = marked /\ nextSerial' = nextSerial
  BY DEF RecordBlock, Numbered
<1>. HIDE DEF h, block
<1>8. /\ IsStore(marked) /\ DOMAIN marked = DOMAIN sessions
      /\ \A id \in DOMAIN sessions :
           /\ marked[id].content = sessions[id].content
           /\ marked[id].serial = sessions[id].serial
      /\ Holds(sessions, sid, k) => marked[sid].seen = Touch(sessions[sid].seen, h)
  BY <1>1, <1>2, <1>4, MarkedType
<1>9. Clean(marked, nextSerial)
  BY <1>1, <1>2, <1>4, MarkedClean
<1>. HIDE DEF marked
<1>10. Holds(marked, sid, k) => Holds(sessions, sid, k)
  BY <1>8 DEF Holds
<1>11. ASSUME Holds(marked, sid, k)
       PROVE  /\ marked[sid].seen \in Seq(Hashes) /\ marked[sid].content \in Seq(Hashes)
              /\ Distinct(marked[sid].seen) /\ Distinct(marked[sid].content)
              /\ SeenKept(marked[sid].seen, Append(turn.done, block))
              /\ ContentKept(marked[sid].content, turn.done)
  <2>1. Holds(sessions, sid, k) /\ sid \in DOMAIN sessions /\ sid \in DOMAIN marked
    BY <1>10, <1>11 DEF Holds
  <2>2. sessions[sid].seen \in Seq(Hashes)
    BY <1>1, <2>1, SessionClean
  <2>3. SeenKept(Touch(sessions[sid].seen, h), Append(turn.done, block))
    BY <1>2, <1>3, <1>6, <2>1, <2>2, SeenMarked DEF h
  <2>. QED
    BY <1>6, <1>8, <1>9, <2>1, <2>3, SessionClean DEF Clean
<1>12. k < nextSerial'
  BY <1>1, <1>2, <1>6, <1>7
<1>13. ASSUME Holds(sessions', sid, k)
       PROVE  /\ SeenKept(sessions'[sid].seen, Append(turn.done, block))
              /\ ContentKept(sessions'[sid].content, Append(turn.done, block))
  <2>1. CASE block.stored
    <3>. DEFINE opened == Opened(marked, sid, now, nextSerial)
                stored == Stored(marked, sid, h, now, nextSerial)
    <3>1. /\ sid \in DOMAIN opened
          /\ \/ Creates(marked, sid, now) /\ opened[sid] = Fresh(now, nextSerial)
             \/ /\ sid \in DOMAIN marked
                /\ opened[sid].content = marked[sid].content
                /\ opened[sid].seen = marked[sid].seen
                /\ opened[sid].serial = marked[sid].serial
      BY <1>1, <1>2, <1>8, OpenedType
    <3>2. /\ stored[sid].seen = Capped(Touch(opened[sid].seen, h), MaxSeen)
          /\ stored[sid].content = Capped(Touch(opened[sid].content, h), MaxContent)
          /\ stored[sid].serial = opened[sid].serial
      BY <1>1, <1>2, <1>4, <1>8, StoredType
    <3>3. sessions' = stored
      BY <1>7, <2>1
    <3>. HIDE DEF opened, stored
    <3>4. opened[sid].serial = k
      BY <1>13, <3>2, <3>3 DEF Holds
    <3>5. opened[sid] # Fresh(now, nextSerial)
      BY <1>1, <1>2, <1>6, <3>4 DEF Fresh
    <3>6. Holds(marked, sid, k)
      BY <3>1, <3>4, <3>5 DEF Holds
    <3>. DEFINE seen == marked[sid].seen
                content == marked[sid].content
                more == Append(turn.done, block)
    <3>7. /\ seen \in Seq(Hashes) /\ content \in Seq(Hashes)
          /\ Distinct(seen) /\ Distinct(content)
          /\ SeenKept(seen, more) /\ ContentKept(content, turn.done)
      BY <1>11, <3>6
    <3>8. opened[sid].seen = seen /\ opened[sid].content = content
      BY <3>1, <3>5
    <3>9. more \in Seq(Block)
      BY <1>2, <1>3, AppendProperties
    <3>10. SeenKept(Capped(Touch(seen, h), MaxSeen), more)
      <4>. HIDE DEF seen
      <4>1. SeenKept(Touch(seen, h), more)
        BY <1>2, <1>3, <3>7, SeenMarkedAgain DEF h
      <4>2. Touch(seen, h) \in Seq(Hashes) /\ Distinct(Touch(seen, h))
        BY <1>4, <3>7, TouchType, TouchDistinct
      <4>. HIDE DEF more
      <4>. QED
        BY <3>9, <4>1, <4>2, SeenCapped
    <3>11. ContentKept(Capped(Touch(content, h), MaxContent), more)
      <4>. HIDE DEF content
      <4>. QED
        BY <1>2, <1>3, <2>1, <3>7, ContentStored DEF h
    <3>. QED
      BY <3>2, <3>3, <3>8, <3>10, <3>11
  <2>2. CASE ~block.stored
    <3>1. Holds(marked, sid, k) /\ sessions' = marked
      BY <1>7, <1>13, <2>2
    <3>2. ContentKept(marked[sid].content, Append(turn.done, block))
      BY <1>2, <1>3, <1>11, <2>2, <3>1, ContentUnstored
    <3>. QED
      BY <1>11, <3>1, <3>2
  <2>. QED
    BY <2>1, <2>2
<1>. QED
  BY <1>5, <1>12, <1>13 DEF Recalls

\* The invariant behind TurnIsRetrievable survives every step of the store.
LEMMA StepRecalls ==
  ASSUME RecallInv, [StoreStep]_vars
  PROVE  RecallInv'
<1>1. Serials'
  BY StepSerials DEF RecallInv
<1>2. now \in Nat /\ nextSerial \in Nat /\ IsStore(sessions) /\ turn \in Turn
  BY DEF RecallInv, Serials, Safe, TypeOK
<1>. SUFFICES Recalls'
  BY <1>1 DEF RecallInv
<1>3. ASSUME turn' = Idle PROVE Recalls'
  BY <1>3 DEF Recalls, Idle
<1>4. CASE Tick \/ UNCHANGED vars
  BY <1>4 DEF Tick, vars, RecallInv, Recalls
<1>5. CASE GetSession \/ Clear
  BY <1>3, <1>5 DEF GetSession, Clear
<1>6. ASSUME NEW sid, GetOrCreateSession(sid) \/ (\E h : StoreContent(sid, h)) \/ (\E key : GetContent(sid, key))
      PROVE  Recalls'
  BY <1>3, <1>6 DEF GetOrCreateSession, StoreContent, GetContent
<1>7. ASSUME NEW sid \in SessionIds, NEW blocks, BeginRecordTurn(sid, blocks)
      PROVE  Recalls'
  <2>. DEFINE opened == Opened(sessions, sid, now, nextSerial)
  <2>1. Clean(opened, nextSerial') /\ IsStore(opened) /\ sid \in DOMAIN opened
    BY <1>2, <1>7, OpenedClean, OpenedType DEF BeginRecordTurn, Numbered, RecallInv, Serials
  <2>2. turn' = [phase |-> "recording", sid |-> sid, serial |-> opened[sid].serial,
                 done |-> <<>>, todo |-> blocks]
    BY <1>7 DEF BeginRecordTurn
  <2>. HIDE DEF opened
  <2>3. turn'.serial < nextSerial' /\ turn'.done = <<>>
    BY <2>1, <2>2 DEF Clean
  <2>. QED
    BY <2>3 DEF Recalls, SeenKept, ContentKept
<1>8. CASE RecordBlock
  BY <1>8, BlockRecalled
<1>9. CASE EndRecordTurn
  <2>. DEFINE sid == turn.sid
              k == turn.serial
  <2>1. /\ sid \in SessionIds /\ k \in Nat /\ turn.done \in Seq(Block)
        /\ turn = [phase |-> "recording", sid |-> sid, serial |-> k,
                   done |-> turn.done, todo |-> turn.todo]
    BY <1>2, <1>9, RunningTurn DEF EndRecordTurn
  <2>2. /\ DOMAIN CapSeen(sessions, sid, k) = DOMAIN sessions
        /\ \A id \in DOMAIN sessions :
             /\ CapSeen(sessions, sid, k)[id].content = sessions[id].content
             /\ CapSeen(sessions, sid, k)[id].serial = sessions[id].serial
        /\ Holds(sessions, sid, k)
             => CapSeen(sessions, sid, k)[sid].seen = Capped(sessions[sid].seen, MaxSeen)
    BY <1>2, <2>1, CappedSeenType
  <2>3. /\ sessions' = CapSeen(sessions, sid, k) /\ nextSerial' = nextSerial
        /\ turn' = [turn EXCEPT !.phase = "recorded"]
    BY <1>9 DEF EndRecordTurn
  <2>4. turn'.sid = sid /\ turn'.serial = k /\ turn'.done = turn.done
    <3>. HIDE DEF sid, k
    <3>1. PICK d, o : turn = [phase |-> "recording", sid |-> sid, serial |-> k,
                              done |-> d, todo |-> o]
      BY <2>1
    <3>. QED
      BY <2>3, <3>1
  <2>5. /\ k < nextSerial
        /\ Holds(sessions, sid, k) => /\ SeenKept(sessions[sid].seen, turn.done)
                                      /\ ContentKept(sessions[sid].content, turn.done)
    BY <1>9 DEF RecallInv, Recalls, EndRecordTurn
  <2>6. ASSUME Holds(sessions', sid, k)
        PROVE  /\ SeenKept(sessions'[sid].seen, turn.done)
               /\ ContentKept(sessions'[sid].content, turn.done)
    <3>1. Holds(sessions, sid, k) /\ sid \in DOMAIN sessions
      BY <2>2, <2>3, <2>6 DEF Holds
    <3>2. sessions[sid].seen \in Seq(Hashes) /\ Distinct(sessions[sid].seen)
      BY <1>2, <3>1, SessionClean DEF RecallInv, Serials, Clean
    <3>3. SeenKept(Capped(sessions[sid].seen, MaxSeen), turn.done)
      BY <2>1, <2>5, <3>1, <3>2, SeenCapped
    <3>. QED
      BY <2>2, <2>3, <2>5, <3>1, <3>3
  <2>. HIDE DEF sid, k
  <2>. QED
    BY <2>3, <2>4, <2>5, <2>6 DEF Recalls
<1>. QED
  BY <1>4, <1>5, <1>6, <1>7, <1>8, <1>9 DEF StoreStep

\* What the invariant says of the last turn is what the property promises.
LEMMA RecalledIsRetrievable == RecallInv => RecordedTurnIsRetrievable
<1>. SUFFICES ASSUME RecallInv, turn.phase = "recorded", Holds(sessions, turn.sid, turn.serial),
                     NEW i \in 1..Len(turn.done)
              PROVE  LET tail == SubSeq(turn.done, i, Len(turn.done))
                     IN /\ (turn.done[i].stored /\ Cardinality(StoredHashes(tail)) <= MaxContent)
                             => turn.done[i].hash \in ToSet(sessions[turn.sid].content)
                        /\ Cardinality({b.hash : b \in ToSet(tail)}) <= MaxSeen
                             => turn.done[i].hash \in ToSet(sessions[turn.sid].seen)
  BY DEF RecordedTurnIsRetrievable
<1>. DEFINE done == turn.done
            tail == SubSeq(turn.done, i, Len(turn.done))
            session == sessions[turn.sid]
<1>1. done \in Seq(Block)
  BY DEF RecallInv, Serials, Safe, TypeOK, Turn
<1>2. ToSet(tail) = After(done, i)
  BY <1>1, TailIs
<1>3. StoredHashes(tail) = StoredIn(After(done, i)) /\ {b.hash : b \in ToSet(tail)} = HashesIn(After(done, i))
  BY <1>2 DEF StoredHashes, StoredIn, HashesIn
<1>4. SeenKept(session.seen, done) /\ ContentKept(session.content, done)
  BY DEF RecallInv, Recalls
<1>5. \A keys, g, T : Young(keys, g, T) => g \in ToSet(keys)
  BY DEF Young, ToSet
<1>. HIDE DEF done, tail, session
<1>. QED
  BY <1>3, <1>4, <1>5 DEF SeenKept, ContentKept, done, tail, session

\* When recordTurn has recorded a turn in a session the store still holds, as
\* many of its latest blocks as the caches hold are retrievable and recognised as
\* seen, whatever the session held before and however often a block is repeated
\* (session-store.ts:80-139, 258-267).
THEOREM TurnIsRetrievable == Spec => []RecordedTurnIsRetrievable
<1>1. Init => RecallInv
  BY InitSerials DEF RecallInv, Recalls, Init, Idle
<1>2. RecallInv /\ [Next]_vars => RecallInv'
  BY StepRecalls, NextIsStoreStep
<1>. QED
  BY <1>1, <1>2, RecalledIsRetrievable, PTL DEF Spec

-----------------------------------------------------------------------------
(* The inductive invariant of a request.                                   *)

Running == req.phase \in {"dedup", "optimized", "recording"}

\* An intact copy of the message stands among those dedup is done with.
KeptBefore(h) ==
  \E j \in 1..(req.at - 1) : j \notin req.elided /\ req.payload[j] = h

ToldOrKept(h) == <<req.serial, h>> \in told \/ KeptBefore(h)

\* Dedup goes through the payload in order: what it has elided, and what it holds
\* for a referent, is behind it, and a referent stays where it is.
Placed ==
  req.phase # "none" =>
    /\ req.at \in 1..(Len(req.payload) + 1)
    /\ req.elided \subseteq 1..(req.at - 1)
    /\ req.recoverable \subseteq 1..(req.at - 1)
    /\ \A h \in req.surviving : KeptBefore(h)
    /\ \A i \in req.recoverable :
         \E j \in 1..(i - 1) : j \notin req.elided /\ req.payload[j] = req.payload[i]

Validated ==
  Forwarded => DirectiveLost(req.elided) = {} /\ Unwitnessed(req.elided) = {}

\* What the session object has seen, and what is elided for it, an earlier turn
\* carried or this payload still does.
Accounted ==
  Running =>
    /\ \A i \in req.elided : ToldOrKept(req.payload[i])
    /\ req.phase = "dedup" => \A h \in CapturedSeen(req) : ToldOrKept(h)

\* What any session has seen was carried by a turn recorded in it, or is in the
\* payload of the request being handled for it.
SeenTold ==
  \A id \in Live : \A h \in ToSet(sessions[id].seen) :
    \/ <<sessions[id].serial, h>> \in told
    \/ Running /\ id = req.sid /\ h \in ToSet(req.payload)

\* The turn being recorded is that of the request being handled.
RecordsRequest ==
  /\ turn.phase = "recording" <=> req.phase = "recording"
  /\ turn.phase = "recording" =>
       /\ turn.sid = req.sid
       /\ \A i \in 1..Len(turn.todo) : turn.todo[i].hash \in ToSet(req.payload)

RequestInv == Placed /\ Validated /\ Accounted /\ SeenTold /\ RecordsRequest

-----------------------------------------------------------------------------
(* The request, field by field.                                            *)

\* A payload is a sequence of messages, no longer than the bound.
LEMMA PayloadIs ==
  ASSUME NEW payload \in Payloads
  PROVE  /\ payload \in Seq(Hashes) /\ Len(payload) \in 0..MaxPayload
         /\ \A i \in 1..Len(payload) : payload[i] \in Hashes
<1>1. PICK m \in 0..MaxPayload : payload \in [1..m -> Hashes]
  BY TurnAssumption DEF BoundedSeq, SeqOf
<1>2. payload \in Seq(Hashes)
  BY <1>1, SeqDef, TurnAssumption
<1>3. Len(payload) = m
  BY <1>1, TurnAssumption
<1>. QED
  BY <1>1, <1>2, <1>3

\* A request that is being handled, or was, has all of its fields.
LEMMA RequestIs ==
  ASSUME req \in Request, req.phase # "none"
  PROVE  /\ req.phase \in {"dedup", "optimized", "recording", "sent"}
         /\ req.sid \in SessionIds /\ req.serial \in Nat /\ req.seen \subseteq Hashes
         /\ req.payload \in Payloads /\ req.at \in 1..(MaxPayload + 1)
         /\ req.surviving \subseteq Hashes
         /\ req.elided \subseteq 1..MaxPayload /\ req.recoverable \subseteq 1..MaxPayload
         /\ req = [phase |-> req.phase, sid |-> req.sid, serial |-> req.serial, seen |-> req.seen,
                   payload |-> req.payload, at |-> req.at, surviving |-> req.surviving,
                   elided |-> req.elided, recoverable |-> req.recoverable]
BY DEF Request

\* The next message is kept, or left as it is, or replaced by a marker.
LEMMA DedupItemIs ==
  ASSUME req \in Request, DedupItem
  PROVE  LET h == req.payload[req.at]
         IN /\ req'.phase = "dedup" /\ req'.sid = req.sid /\ req'.serial = req.serial
            /\ req'.payload = req.payload /\ req'.at = req.at + 1
            /\ req'.seen = IF Holds(sessions', req.sid, req.serial)
                             THEN ToSet(sessions'[req.sid].seen) ELSE CapturedSeen(req)
            /\ \/ /\ req'.surviving = req.surviving \cup {h} /\ req'.elided = req.elided
                  /\ req'.recoverable = req.recoverable
               \/ /\ req'.surviving = req.surviving /\ req'.elided = req.elided
                  /\ req'.recoverable = req.recoverable
               \/ /\ ~Preserved(req, h)
                  /\ req'.surviving = req.surviving /\ req'.elided = req.elided \cup {req.at}
                  /\ req'.recoverable = req.recoverable
                       \cup (IF HasReferent(req, h) THEN {req.at} ELSE {})
            /\ req' = [phase |-> "dedup", sid |-> req.sid, serial |-> req.serial,
                       seen |-> req'.seen, payload |-> req.payload, at |-> req.at + 1,
                       surviving |-> req'.surviving, elided |-> req'.elided,
                       recoverable |-> req'.recoverable]
            /\ IF req'.elided # req.elided THEN StoreContent(req.sid, h) ELSE UNCHANGED vars
<1>. DEFINE h == req.payload[req.at]
            seen == IF Holds(sessions', req.sid, req.serial)
                      THEN ToSet(sessions'[req.sid].seen) ELSE CapturedSeen(req)
            after == AfterItem(req)
            preserved == Preserved(req, h)
            referent == HasReferent(req, h)
<1>1. req.phase = "dedup"
  BY DEF DedupItem
<1>2. req = [phase |-> "dedup", sid |-> req.sid, serial |-> req.serial, seen |-> req.seen,
             payload |-> req.payload, at |-> req.at, surviving |-> req.surviving,
             elided |-> req.elided, recoverable |-> req.recoverable]
  BY <1>1, RequestIs
<1>3. after = IF preserved THEN [req EXCEPT !.at = @ + 1, !.surviving = @ \cup {h}]
              ELSE IF h \notin Elidable THEN [req EXCEPT !.at = @ + 1]
              ELSE [req EXCEPT !.at = @ + 1, !.elided = @ \cup {req.at},
                               !.recoverable = IF referent THEN @ \cup {req.at} ELSE @]
  <2>. HIDE DEF preserved, referent
  <2>1. after = LET next == [req EXCEPT !.at = @ + 1]
                IN IF preserved THEN [next EXCEPT !.surviving = @ \cup {h}]
                   ELSE IF h \notin Elidable THEN next
                   ELSE [next EXCEPT !.elided = @ \cup {req.at},
                                     !.recoverable = IF referent THEN @ \cup {req.at} ELSE @]
    BY DEF AfterItem, preserved, referent
  <2>. HIDE DEF after, h
  <2>. QED
    BY <1>2, <2>1
<1>4. /\ req' = [after EXCEPT !.seen = seen]
      /\ IF after.elided # req.elided THEN StoreContent(req.sid, h) ELSE UNCHANGED vars
  BY DEF DedupItem
<1>. HIDE DEF h, seen, after, preserved, referent
<1>5. PICK sid, serial, old, payload, at, surviving, elided, recoverable :
        req = [phase |-> "dedup", sid |-> sid, serial |-> serial, seen |-> old,
               payload |-> payload, at |-> at, surviving |-> surviving,
               elided |-> elided, recoverable |-> recoverable]
  BY <1>2
<1>9. /\ req.sid = sid /\ req.serial = serial /\ req.payload = payload /\ req.at = at
      /\ req.surviving = surviving /\ req.elided = elided /\ req.recoverable = recoverable
  BY <1>5
<1>. DEFINE Same == /\ req'.phase = "dedup" /\ req'.sid = req.sid /\ req'.serial = req.serial
                    /\ req'.payload = req.payload /\ req'.at = req.at + 1 /\ req'.seen = seen
                    /\ req' = [phase |-> "dedup", sid |-> req.sid, serial |-> req.serial,
                               seen |-> req'.seen, payload |-> req.payload, at |-> req.at + 1,
                               surviving |-> req'.surviving, elided |-> req'.elided,
                               recoverable |-> req'.recoverable]
            Done ==
              /\ Same
              /\ IF req'.elided # req.elided THEN StoreContent(req.sid, h) ELSE UNCHANGED vars
              /\ \/ /\ req'.surviving = req.surviving \cup {h} /\ req'.elided = req.elided
                    /\ req'.recoverable = req.recoverable
                 \/ /\ req'.surviving = req.surviving /\ req'.elided = req.elided
                    /\ req'.recoverable = req.recoverable
                 \/ /\ ~preserved
                    /\ req'.surviving = req.surviving /\ req'.elided = req.elided \cup {req.at}
                    /\ req'.recoverable = req.recoverable \cup (IF referent THEN {req.at} ELSE {})
<1>6. ASSUME preserved PROVE Done
  <2>1. /\ req' = [phase |-> "dedup", sid |-> sid, serial |-> serial, seen |-> seen,
                   payload |-> payload, at |-> at + 1, surviving |-> surviving \cup {h},
                   elided |-> elided,
                   recoverable |-> recoverable]
        /\ after.elided = elided
    BY <1>3, <1>4, <1>5, <1>6
  <2>2. Same
    BY <1>9, <2>1
  <2>3. /\ req'.surviving = surviving \cup {h} /\ req'.elided = elided
        /\ req'.recoverable = recoverable
    BY <2>1
  <2>4. IF req'.elided # req.elided THEN StoreContent(req.sid, h) ELSE UNCHANGED vars
    BY <1>4, <1>9, <2>1, <2>3
  <2>. HIDE DEF Same
  <2>. QED
    BY <1>6, <1>9, <2>2, <2>3, <2>4
<1>7. ASSUME ~preserved /\ h \notin Elidable PROVE Done
  <2>1. /\ req' = [phase |-> "dedup", sid |-> sid, serial |-> serial, seen |-> seen,
                   payload |-> payload, at |-> at + 1, surviving |-> surviving,
                   elided |-> elided,
                   recoverable |-> recoverable]
        /\ after.elided = elided
    BY <1>3, <1>4, <1>5, <1>7
  <2>2. Same
    BY <1>9, <2>1
  <2>3. /\ req'.surviving = surviving /\ req'.elided = elided
        /\ req'.recoverable = recoverable
    BY <2>1
  <2>4. IF req'.elided # req.elided THEN StoreContent(req.sid, h) ELSE UNCHANGED vars
    BY <1>4, <1>9, <2>1, <2>3
  <2>. HIDE DEF Same
  <2>. QED
    BY <1>7, <1>9, <2>2, <2>3, <2>4
<1>8. ASSUME ~preserved /\ h \in Elidable PROVE Done
  <2>1. /\ req' = [phase |-> "dedup", sid |-> sid, serial |-> serial, seen |-> seen,
                   payload |-> payload, at |-> at + 1, surviving |-> surviving,
                   elided |-> elided \cup {at},
                   recoverable |-> recoverable \cup (IF referent THEN {at} ELSE {})]
        /\ after.elided = elided \cup {at}
    BY <1>3, <1>4, <1>5, <1>8
  <2>2. Same
    BY <1>9, <2>1
  <2>3. /\ req'.surviving = surviving /\ req'.elided = elided \cup {at}
        /\ req'.recoverable = recoverable \cup (IF referent THEN {at} ELSE {})
    BY <2>1
  <2>4. IF req'.elided # req.elided THEN StoreContent(req.sid, h) ELSE UNCHANGED vars
    BY <1>4, <1>9, <2>1, <2>3
  <2>. HIDE DEF Same
  <2>. QED
    BY <1>8, <1>9, <2>2, <2>3, <2>4
<1>10. Done
  <2>. HIDE DEF Done
  <2>. QED
    BY <1>6, <1>7, <1>8
<1>. QED
  BY <1>10 DEF h, seen, preserved, referent

\* Whatever is sent elides no more than dedup did, and passed validation.
LEMMA OptimizeIs ==
  ASSUME req \in Request, Optimize
  PROVE  /\ req.phase = "dedup" /\ req'.phase = "optimized"
         /\ req' = [req EXCEPT !.phase = "optimized", !.elided = req'.elided]
         /\ req'.sid = req.sid /\ req'.serial = req.serial /\ req'.seen = req.seen
         /\ req'.payload = req.payload /\ req'.at = req.at /\ req'.surviving = req.surviving
         /\ req'.recoverable = req.recoverable
         /\ req'.elided \subseteq req.elided
         /\ req'.elided = {} \/ Passes(req'.elided)
         /\ UNCHANGED vars /\ told' = told
<1>1. PICK E \in {Optimized(req.elided), {}} :
        req' = [req EXCEPT !.phase = "optimized", !.elided = E]
  BY DEF Optimize
<1>2. req.phase = "dedup"
  BY DEF Optimize
<1>3. E \subseteq req.elided /\ (E = {} \/ Passes(E))
  BY <1>1 DEF Optimized, Repaired
<1>4. req = [phase |-> "dedup", sid |-> req.sid, serial |-> req.serial, seen |-> req.seen,
             payload |-> req.payload, at |-> req.at, surviving |-> req.surviving,
             elided |-> req.elided, recoverable |-> req.recoverable]
  BY <1>2, RequestIs
<1>5. /\ req'.phase = "optimized" /\ req'.elided = E
      /\ req'.sid = req.sid /\ req'.serial = req.serial /\ req'.seen = req.seen
      /\ req'.payload = req.payload /\ req'.at = req.at /\ req'.surviving = req.surviving
      /\ req'.recoverable = req.recoverable
  BY <1>1, <1>4
<1>. QED
  BY <1>1, <1>2, <1>3, <1>5 DEF Optimize

\* Recording and sending change the phase of the request only.
LEMMA PhaseIs ==
  ASSUME req \in Request, req.phase # "none", NEW p, req' = [req EXCEPT !.phase = p]
  PROVE  /\ req'.phase = p
         /\ req'.sid = req.sid /\ req'.serial = req.serial /\ req'.seen = req.seen
         /\ req'.payload = req.payload /\ req'.at = req.at /\ req'.surviving = req.surviving
         /\ req'.elided = req.elided /\ req'.recoverable = req.recoverable
         /\ req' = [phase |-> p, sid |-> req.sid, serial |-> req.serial, seen |-> req.seen,
                    payload |-> req.payload, at |-> req.at, surviving |-> req.surviving,
                    elided |-> req.elided, recoverable |-> req.recoverable]
<1>1. req = [phase |-> req.phase, sid |-> req.sid, serial |-> req.serial, seen |-> req.seen,
             payload |-> req.payload, at |-> req.at, surviving |-> req.surviving,
             elided |-> req.elided, recoverable |-> req.recoverable]
  BY RequestIs
<1>. QED
  BY <1>1

\* A turn records every message of its payload, with its content.
LEMMA BlocksAre ==
  ASSUME NEW payload \in Payloads
  PROVE  /\ Blocks(payload) \in Seq(Block) /\ Len(Blocks(payload)) = Len(payload)
         /\ \A i \in 1..Len(payload) : Blocks(payload)[i].hash = payload[i]
<1>1. Len(payload) \in Nat /\ \A i \in 1..Len(payload) : payload[i] \in Hashes
  BY PayloadIs
<1>. DEFINE n == Len(payload)
            b == [i \in 1..n |-> [hash |-> payload[i], stored |-> TRUE]]
<1>2. \A i \in 1..n : [hash |-> payload[i], stored |-> TRUE] \in Block
  BY <1>1 DEF Block
<1>3. b \in [1..n -> Block]
  BY <1>2
<1>4. \A i \in 1..n : b[i].hash = payload[i]
  OBVIOUS
<1>5. Blocks(payload) = b
  BY DEF Blocks
<1>. HIDE DEF b, n
<1>6. b \in Seq(Block) /\ Len(b) = n
  BY <1>1, <1>3 DEF n
<1>. QED
  BY <1>4, <1>5, <1>6 DEF n

-----------------------------------------------------------------------------
(* The store under the requests.                                           *)

\* Whatever a turn does to the store, the store knows how to do.
LEMMA TurnIsStoreStep ==
  ASSUME TurnTypeOK, [TurnNext]_turnVars
  PROVE  [StoreStep]_vars
<1>1. ASSUME NEW sid \in SessionIds, GetOrCreateSession(sid) PROVE StoreStep
  BY <1>1 DEF StoreStep
<1>2. CASE DedupItem
  <2>1. /\ req \in Request /\ req.phase = "dedup" /\ req.at \in Positions
        /\ StoreContent(req.sid, req.payload[req.at]) \/ UNCHANGED vars
    BY <1>2 DEF DedupItem, TurnTypeOK
  <2>2. req.sid \in SessionIds /\ req.payload[req.at] \in Hashes
    BY <2>1, RequestIs, PayloadIs DEF Positions
  <2>. QED
    BY <2>1, <2>2 DEF StoreStep
<1>3. CASE Record
  <2>1. /\ req \in Request /\ req.phase = "optimized"
        /\ BeginRecordTurn(req.sid, Blocks(req.payload))
    BY <1>3 DEF Record, TurnTypeOK
  <2>2. req.sid \in SessionIds /\ req.payload \in Payloads
    BY <2>1, RequestIs
  <2>3. Blocks(req.payload) \in Seq(Block)
    BY <2>2, BlocksAre
  <2>. QED
    BY <2>1, <2>2, <2>3 DEF StoreStep
<1>. QED
  BY <1>1, <1>2, <1>3 DEF TurnNext, TurnTick, OpenRequest, BypassRequest, Optimize, RecordNext,
                          Send, StoreStep, turnVars

\* A cache that holds nothing.
LEMMA EmptyCache == ToSet(<<>>) = {}
BY DEF ToSet

\* The elements of a sequence of hashes.
LEMMA ToSetIs ==
  ASSUME NEW S, NEW s \in Seq(S)
  PROVE  /\ \A i \in 1..Len(s) : s[i] \in ToSet(s)
         /\ \A x \in ToSet(s) : \E i \in 1..Len(s) : x = s[i]
BY DEF ToSet

\* Using a key adds it to a cache and the cap adds none.
LEMMA TouchSet ==
  ASSUME NEW keys \in Seq(Hashes), NEW h \in Hashes
  PROVE  ToSet(Touch(keys, h)) \subseteq ToSet(keys) \cup {h}
<1>. DEFINE t == Touch(keys, h)
<1>1. /\ t \in Seq(Hashes) /\ t[Len(t)] = h
      /\ \E j \in 1..(Len(keys) + 1) :
           /\ j <= Len(keys) => keys[j] = h /\ Len(t) = Len(keys)
           /\ j = Len(keys) + 1 => h \notin ToSet(keys) /\ Len(t) = Len(keys) + 1
           /\ \A i \in 1..(Len(t) - 1) : t[i] = IF i < j THEN keys[i] ELSE keys[i + 1]
  BY TouchIs
<1>. HIDE DEF t
<1>2. Len(keys) \in Nat /\ Len(t) \in Nat
  BY <1>1
<1>3. PICK j \in 1..(Len(keys) + 1) :
        /\ j <= Len(keys) => Len(t) = Len(keys)
        /\ j = Len(keys) + 1 => Len(t) = Len(keys) + 1
        /\ \A i \in 1..(Len(t) - 1) : t[i] = IF i < j THEN keys[i] ELSE keys[i + 1]
  BY <1>1
<1>4. ASSUME NEW i \in 1..(Len(t) - 1) PROVE \E m \in 1..Len(keys) : t[i] = keys[m]
  <2>1. i + 1 \in 1..Len(keys) \/ (i \in 1..Len(keys) /\ i < j)
    BY <1>2, <1>3
  <2>2. i < j => i \in 1..Len(keys)
    BY <1>2, <1>3
  <2>3. t[i] = IF i < j THEN keys[i] ELSE keys[i + 1]
    BY <1>3
  <2>. QED
    BY <2>1, <2>2, <2>3
<1>5. \A i \in 1..Len(t) : i = Len(t) \/ i \in 1..(Len(t) - 1)
  BY <1>2
<1>6. \A i \in 1..Len(t) : t[i] \in ToSet(keys) \cup {h}
  <2>1. \A i \in 1..(Len(t) - 1) : t[i] \in ToSet(keys)
    BY <1>4, ToSetIs
  <2>. QED
    BY <1>1, <1>5, <2>1
<1>7. \A x \in ToSet(t) : \E i \in 1..Len(t) : x = t[i]
  BY <1>1, ToSetIs
<1>. QED
  BY <1>6, <1>7 DEF t

\* Capping a cache keeps some of what it was given.
LEMMA CappedSet ==
  ASSUME NEW keys \in Seq(Hashes), NEW cap \in Nat
  PROVE  ToSet(Capped(keys, cap)) \subseteq ToSet(keys)
<1>. DEFINE c == Capped(keys, cap)
<1>1. c \in Seq(Hashes) /\ \E d \in 0..Len(keys) :
        Len(c) = Len(keys) - d /\ \A i \in 1..Len(c) : c[i] = keys[i + d]
  BY CappedIs
<1>. HIDE DEF c
<1>2. PICK d \in 0..Len(keys) : Len(c) = Len(keys) - d /\ \A i \in 1..Len(c) : c[i] = keys[i + d]
  BY <1>1
<1>3. \A i \in 1..Len(c) : i + d \in 1..Len(keys)
  BY <1>2
<1>4. \A i \in 1..Len(c) : c[i] \in ToSet(keys)
  BY <1>2, <1>3, ToSetIs
<1>5. \A x \in ToSet(c) : \E i \in 1..Len(c) : x = c[i]
  BY <1>1, ToSetIs
<1>. QED
  BY <1>4, <1>5 DEF c

\* A session that is opened has seen what it had seen before, or nothing.
LEMMA OpenedSeen ==
  ASSUME NEW store, IsStore(store), NEW sid \in SessionIds, NEW t \in Nat, NEW k \in Nat
  PROVE  LET opened == Opened(store, sid, t, k)
         IN \A id \in DOMAIN opened : \A g \in ToSet(opened[id].seen) :
              id \in DOMAIN store /\ opened[id].serial = store[id].serial /\ g \in ToSet(store[id].seen)
<1>. DEFINE opened == Opened(store, sid, t, k)
<1>1. \A id \in DOMAIN opened :
        \/ opened[id] = Fresh(t, k)
        \/ /\ id \in DOMAIN store
           /\ opened[id].seen = store[id].seen
           /\ opened[id].serial = store[id].serial
  BY OpenedType
<1>2. ToSet(Fresh(t, k).seen) = {}
  BY FreshType, EmptyCache
<1>. HIDE DEF opened
<1>. QED
  BY <1>1, <1>2 DEF opened

\* Storing a message adds that message to what its session has seen.
LEMMA StoredSeen ==
  ASSUME NEW store, IsStore(store), NEW sid \in SessionIds, NEW h \in Hashes,
         NEW t \in Nat, NEW k \in Nat
  PROVE  LET stored == Stored(store, sid, h, t, k)
         IN \A id \in DOMAIN stored : \A g \in ToSet(stored[id].seen) :
              \/ id = sid /\ g = h
              \/ id \in DOMAIN store /\ stored[id].serial = store[id].serial /\ g \in ToSet(store[id].seen)
<1>. DEFINE opened == Opened(store, sid, t, k)
            stored == Stored(store, sid, h, t, k)
<1>1. \A id \in DOMAIN opened : \A g \in ToSet(opened[id].seen) :
        id \in DOMAIN store /\ opened[id].serial = store[id].serial /\ g \in ToSet(store[id].seen)
  BY OpenedSeen
<1>2. IsStore(opened) /\ sid \in DOMAIN opened
  BY OpenedType
<1>3. /\ DOMAIN stored = DOMAIN opened
      /\ stored[sid].seen = Capped(Touch(opened[sid].seen, h), MaxSeen)
      /\ stored[sid].serial = opened[sid].serial
      /\ \A id \in DOMAIN stored \ {sid} : stored[id] = opened[id]
  BY StoredType
<1>. HIDE DEF opened, stored
<1>4. opened[sid].seen \in Seq(Hashes)
  BY <1>2, SessionClean
<1>5. ToSet(stored[sid].seen) \subseteq ToSet(opened[sid].seen) \cup {h}
  BY <1>3, <1>4, TouchType, TouchSet, CappedSet, StoreAssumption
<1>. QED
  BY <1>1, <1>2, <1>3, <1>5 DEF stored

\* Nor does a session see anything but the block when it is marked, or capped.
LEMMA MarkedSeen ==
  ASSUME NEW store, IsStore(store), NEW sid \in SessionIds, NEW k \in Nat, NEW h \in Hashes
  PROVE  LET marked == MarkSeen(store, sid, k, h)
         IN \A id \in DOMAIN marked : \A g \in ToSet(marked[id].seen) :
              \/ id = sid /\ g = h
              \/ id \in DOMAIN store /\ marked[id].serial = store[id].serial /\ g \in ToSet(store[id].seen)
<1>. DEFINE marked == MarkSeen(store, sid, k, h)
<1>1. /\ DOMAIN marked = DOMAIN store
      /\ \A id \in DOMAIN store :
           /\ marked[id].serial = store[id].serial
           /\ id # sid \/ store[id].serial # k => marked[id] = store[id]
      /\ Holds(store, sid, k) => marked[sid].seen = Touch(store[sid].seen, h)
  BY MarkedType
<1>2. Holds(store, sid, k) => ToSet(Touch(store[sid].seen, h)) \subseteq ToSet(store[sid].seen) \cup {h}
  BY SessionClean, TouchSet DEF Holds
<1>. HIDE DEF marked
<1>. QED
  BY <1>1, <1>2 DEF Holds, marked

\* Capping what was seen marks nothing as seen.
LEMMA CappedSeenSeen ==
  ASSUME NEW store, IsStore(store), NEW sid \in SessionIds, NEW k \in Nat
  PROVE  LET capped == CapSeen(store, sid, k)
         IN \A id \in DOMAIN capped : \A g \in ToSet(capped[id].seen) :
              id \in DOMAIN store /\ capped[id].serial = store[id].serial /\ g \in ToSet(store[id].seen)
<1>. DEFINE capped == CapSeen(store, sid, k)
<1>1. /\ DOMAIN capped = DOMAIN store
      /\ \A id \in DOMAIN store :
           /\ capped[id].serial = store[id].serial
           /\ id # sid \/ store[id].serial # k => capped[id] = store[id]
      /\ Holds(store, sid, k) => capped[sid].seen = Capped(store[sid].seen, MaxSeen)
  BY CappedSeenType
<1>2. Holds(store, sid, k) => ToSet(Capped(store[sid].seen, MaxSeen)) \subseteq ToSet(store[sid].seen)
  BY SessionClean, CappedSet, StoreAssumption DEF Holds
<1>. HIDE DEF capped
<1>. QED
  BY <1>1, <1>2 DEF Holds, capped

-----------------------------------------------------------------------------
(* The steps.                                                              *)

TurnInv == Safe /\ TurnTypeOK /\ RequestInv

\* The types, and the parts of the invariant.
LEMMA TurnTypes ==
  ASSUME TurnInv
  PROVE  /\ now \in Nat /\ nextSerial \in Nat /\ IsStore(sessions) /\ turn \in Turn
         /\ req \in Request /\ told \subseteq Nat \X Hashes
         /\ Placed /\ Validated /\ Accounted /\ SeenTold /\ RecordsRequest
BY DEF TurnInv, Safe, TypeOK, TurnTypeOK, RequestInv

\* A step of the store keeps the store's invariant, whoever takes it.
LEMMA StepStoreSafe ==
  ASSUME TurnInv, [TurnNext]_turnVars
  PROVE  Safe' /\ IsStore(sessions')
<1>1. [StoreStep]_vars
  BY TurnIsStoreStep DEF TurnInv
<1>2. Safe'
  BY <1>1, StepSafe DEF TurnInv
<1>. QED
  BY <1>2 DEF Safe, TypeOK

\* The session is opened: whatever it has seen, an earlier turn told it.
LEMMA OpenStep ==
  ASSUME TurnInv, NEW sid \in SessionIds, Ready, GetOrCreateSession(sid), told' = told
  PROVE  /\ sid \in DOMAIN sessions' /\ IsStore(sessions')
         /\ \A id \in DOMAIN sessions' : \A g \in ToSet(sessions'[id].seen) :
              <<sessions'[id].serial, g>> \in told
         /\ turn' = Idle
<1>1. /\ now \in Nat /\ nextSerial \in Nat /\ IsStore(sessions) /\ SeenTold
  BY TurnTypes
<1>2. sessions' = Opened(sessions, sid, now, nextSerial) /\ turn' = Idle
  BY DEF GetOrCreateSession
<1>3. sid \in DOMAIN sessions' /\ IsStore(sessions')
  BY <1>1, <1>2, OpenedType
<1>4. \A id \in DOMAIN sessions' : \A g \in ToSet(sessions'[id].seen) :
        id \in DOMAIN sessions /\ sessions'[id].serial = sessions[id].serial /\ g \in ToSet(sessions[id].seen)
  BY <1>1, <1>2, OpenedSeen
<1>5. ~Running
  BY DEF Ready, Running
<1>. QED
  BY <1>1, <1>2, <1>3, <1>4, <1>5 DEF SeenTold, Live

\* Opening a request: the session's record is one the host was told of.
LEMMA OpenRequestStep ==
  ASSUME TurnInv, NEW sid \in SessionIds, NEW payload \in Payloads, OpenRequest(sid, payload)
  PROVE  TurnTypeOK' /\ RequestInv'
<1>1. /\ sid \in DOMAIN sessions' /\ IsStore(sessions')
      /\ \A id \in DOMAIN sessions' : \A g \in ToSet(sessions'[id].seen) :
           <<sessions'[id].serial, g>> \in told
      /\ turn' = Idle /\ told' = told /\ told \subseteq Nat \X Hashes
  BY OpenStep, TurnTypes DEF OpenRequest
<1>. DEFINE k == sessions'[sid].serial
<1>2. k \in Nat
  BY <1>1 DEF IsStore, Session
<1>3. req' = [phase |-> "dedup", sid |-> sid, serial |-> k, seen |-> {}, payload |-> payload,
              at |-> 1, surviving |-> {}, elided |-> {}, recoverable |-> {}]
  BY DEF OpenRequest, Ingested
<1>4. /\ req'.phase = "dedup" /\ req'.sid = sid /\ req'.serial = k /\ req'.payload = payload
      /\ req'.at = 1 /\ req'.surviving = {} /\ req'.elided = {} /\ req'.recoverable = {}
  BY <1>3
<1>5. 1 \in 1..(MaxPayload + 1)
  BY TurnAssumption
<1>6. req' \in Request
  <2>. HIDE DEF k
  <2>. QED
    BY <1>2, <1>3, <1>5 DEF Request
<1>7. Placed'
  <2>1. 1 \in 1..(Len(payload) + 1)
    BY PayloadIs
  <2>. QED
    BY <1>4, <2>1 DEF Placed
<1>8. Validated'
  BY <1>4 DEF Validated, Forwarded
<1>9. Accounted'
  <2>1. \A h \in CapturedSeen(req)' : <<k, h>> \in told'
    BY <1>1, <1>4 DEF CapturedSeen, Holds
  <2>. QED
    BY <1>4, <2>1 DEF Accounted, ToldOrKept
<1>10. SeenTold'
  BY <1>1 DEF SeenTold, Live
<1>11. RecordsRequest'
  BY <1>1, <1>4 DEF RecordsRequest, Idle
<1>. QED
  BY <1>1, <1>6, <1>7, <1>8, <1>9, <1>10, <1>11 DEF TurnTypeOK, RequestInv

\* A request that is relayed as it came is no request.
LEMMA BypassStep ==
  ASSUME TurnInv, NEW sid \in SessionIds, BypassRequest(sid)
  PROVE  TurnTypeOK' /\ RequestInv'
<1>1. /\ \A id \in DOMAIN sessions' : \A g \in ToSet(sessions'[id].seen) :
           <<sessions'[id].serial, g>> \in told
      /\ turn' = Idle /\ told' = told /\ told \subseteq Nat \X Hashes
  BY OpenStep, TurnTypes DEF BypassRequest
<1>2. req' = NoRequest /\ req'.phase = "none"
  BY DEF BypassRequest, NoRequest
<1>3. req' \in Request
  BY <1>2 DEF NoRequest, Request
<1>4. SeenTold'
  BY <1>1 DEF SeenTold, Live
<1>5. RecordsRequest'
  BY <1>1, <1>2 DEF RecordsRequest, Idle
<1>. QED
  BY <1>1, <1>2, <1>3, <1>4, <1>5
  DEF TurnTypeOK, RequestInv, Placed, Validated, Forwarded, Accounted, Running

\* Repair, fallback and splice only take markers back.
LEMMA OptimizeStep ==
  ASSUME TurnInv, Optimize
  PROVE  TurnTypeOK' /\ RequestInv'
<1>0. /\ req \in Request /\ told \subseteq Nat \X Hashes
      /\ Placed /\ Validated /\ Accounted /\ SeenTold /\ RecordsRequest
  BY TurnTypes
<1>1. /\ req.phase = "dedup" /\ req'.phase = "optimized"
      /\ req' = [req EXCEPT !.phase = "optimized", !.elided = req'.elided]
      /\ req'.sid = req.sid /\ req'.serial = req.serial /\ req'.seen = req.seen
      /\ req'.payload = req.payload /\ req'.at = req.at /\ req'.surviving = req.surviving
      /\ req'.recoverable = req.recoverable
      /\ req'.elided \subseteq req.elided
      /\ req'.elided = {} \/ Passes(req'.elided)
      /\ UNCHANGED vars /\ told' = told
  BY <1>0, OptimizeIs
<1>2. /\ req.at \in 1..(Len(req.payload) + 1)
      /\ req.elided \subseteq 1..(req.at - 1)
      /\ req.recoverable \subseteq 1..(req.at - 1)
      /\ \A h \in req.surviving : KeptBefore(h)
      /\ \A i \in req.recoverable :
           \E j \in 1..(i - 1) : j \notin req.elided /\ req.payload[j] = req.payload[i]
  BY <1>0, <1>1 DEF Placed
<1>3. \A h : KeptBefore(h) => KeptBefore(h)'
  BY <1>1 DEF KeptBefore
<1>4. req' \in Request
  <2>1. /\ req.sid \in SessionIds /\ req.serial \in Nat /\ req.seen \subseteq Hashes
        /\ req.payload \in Payloads /\ req.at \in 1..(MaxPayload + 1)
        /\ req.surviving \subseteq Hashes
        /\ req'.elided \subseteq 1..MaxPayload /\ req.recoverable \subseteq 1..MaxPayload
    BY <1>0, <1>1, RequestIs
  <2>2. req' = [phase |-> "optimized", sid |-> req.sid, serial |-> req.serial, seen |-> req.seen,
                payload |-> req.payload, at |-> req.at, surviving |-> req.surviving,
                elided |-> req'.elided, recoverable |-> req.recoverable]
    <3>1. req = [phase |-> req.phase, sid |-> req.sid, serial |-> req.serial, seen |-> req.seen,
                 payload |-> req.payload, at |-> req.at, surviving |-> req.surviving,
                 elided |-> req.elided, recoverable |-> req.recoverable]
      BY <1>0, <1>1, RequestIs
    <3>. QED
      BY <1>1, <3>1
  <2>. QED
    BY <2>1, <2>2 DEF Request
<1>5. Placed'
  BY <1>1, <1>2, <1>3 DEF Placed
<1>6. Validated'
  <2>1. DirectiveLost(req'.elided) = {} /\ Unwitnessed(req'.elided) = {}
    BY <1>1 DEF Passes, Failing, DirectiveLost, Unwitnessed, Effective
  <2>2. DirectiveLost(req.elided)' = {} /\ Unwitnessed(req.elided)' = {}
    BY <1>1, <2>1 DEF DirectiveLost, Unwitnessed, Effective
  <2>. QED
    BY <2>2 DEF Validated
<1>7. Accounted'
  <2>1. \A i \in req.elided : ToldOrKept(req.payload[i])
    BY <1>0, <1>1 DEF Accounted, Running
  <2>2. (\A i \in req.elided : ToldOrKept(req.payload[i]))'
    BY <1>1, <2>1 DEF ToldOrKept, KeptBefore
  <2>. QED
    BY <1>1, <2>2 DEF Accounted
<1>8. SeenTold'
  BY <1>0, <1>1 DEF SeenTold, Running, Live, vars
<1>9. RecordsRequest'
  BY <1>0, <1>1 DEF RecordsRequest, vars
<1>. QED
  BY <1>0, <1>1, <1>4, <1>5, <1>6, <1>7, <1>8, <1>9 DEF TurnTypeOK, RequestInv

\* One message: it is kept, it is left, or it becomes a marker, for which it must
\* have been seen in this session or have an intact copy behind it.
LEMMA DedupStep ==
  ASSUME TurnInv, DedupItem
  PROVE  TurnTypeOK' /\ RequestInv'
<1>. DEFINE h == req.payload[req.at]
            sid == req.sid
            k == req.serial
<1>0. /\ now \in Nat /\ nextSerial \in Nat /\ IsStore(sessions) /\ turn \in Turn
      /\ req \in Request /\ told \subseteq Nat \X Hashes
      /\ Placed /\ Accounted /\ SeenTold /\ RecordsRequest
  BY TurnTypes
<1>1. req.phase = "dedup" /\ req.at \in Positions /\ told' = told
  BY DEF DedupItem
<1>2. /\ sid \in SessionIds /\ k \in Nat /\ req.seen \subseteq Hashes
      /\ req.payload \in Payloads /\ req.surviving \subseteq Hashes
      /\ req.elided \subseteq 1..MaxPayload /\ req.recoverable \subseteq 1..MaxPayload
  BY <1>0, <1>1, RequestIs
<1>3. /\ Len(req.payload) \in 0..MaxPayload /\ h \in Hashes
      /\ req.at \in 1..Len(req.payload) /\ req.at \in 1..MaxPayload /\ h \in ToSet(req.payload)
  <2>1. req.at \in 1..Len(req.payload)
    BY <1>1 DEF Positions
  <2>2. Len(req.payload) \in 0..MaxPayload /\ h \in Hashes /\ req.payload \in Seq(Hashes)
    BY <1>2, <2>1, PayloadIs
  <2>. QED
    BY <2>1, <2>2, ToSetIs, TurnAssumption
<1>4. /\ req'.phase = "dedup" /\ req'.sid = sid /\ req'.serial = k
      /\ req'.payload = req.payload /\ req'.at = req.at + 1
      /\ req'.seen = IF Holds(sessions', sid, k)
                       THEN ToSet(sessions'[sid].seen) ELSE CapturedSeen(req)
      /\ \/ /\ req'.surviving = req.surviving \cup {h} /\ req'.elided = req.elided
            /\ req'.recoverable = req.recoverable
         \/ /\ req'.surviving = req.surviving /\ req'.elided = req.elided
            /\ req'.recoverable = req.recoverable
         \/ /\ ~Preserved(req, h)
            /\ req'.surviving = req.surviving /\ req'.elided = req.elided \cup {req.at}
            /\ req'.recoverable = req.recoverable
                 \cup (IF HasReferent(req, h) THEN {req.at} ELSE {})
      /\ req' = [phase |-> "dedup", sid |-> sid, serial |-> k,
                 seen |-> req'.seen, payload |-> req.payload, at |-> req.at + 1,
                 surviving |-> req'.surviving, elided |-> req'.elided,
                 recoverable |-> req'.recoverable]
      /\ IF req'.elided # req.elided THEN StoreContent(sid, h) ELSE UNCHANGED vars
  BY <1>0, DedupItemIs
<1>5. /\ req.elided \subseteq 1..(req.at - 1)
      /\ req.recoverable \subseteq 1..(req.at - 1)
      /\ \A g \in req.surviving : KeptBefore(g)
      /\ \A i \in req.recoverable :
           \E j \in 1..(i - 1) : j \notin req.elided /\ req.payload[j] = req.payload[i]
  BY <1>0, <1>1 DEF Placed
<1>6. /\ \A i \in req.elided : ToldOrKept(req.payload[i])
      /\ \A g \in CapturedSeen(req) : ToldOrKept(g)
  BY <1>0, <1>1 DEF Accounted, Running
<1>7. \/ turn' = turn
      \/ turn' = Idle
  BY <1>4 DEF StoreContent, vars
\* What a session has seen now, it had seen, or it is this message.
<1>8. \A id \in DOMAIN sessions' : \A g \in ToSet(sessions'[id].seen) :
        \/ id = sid /\ g = h /\ req'.elided # req.elided
        \/ id \in DOMAIN sessions /\ sessions'[id].serial = sessions[id].serial /\ g \in ToSet(sessions[id].seen)
  <2>1. CASE req'.elided # req.elided
    <3>1. sessions' = Stored(sessions, sid, h, now, nextSerial)
      BY <1>4, <2>1 DEF StoreContent
    <3>. HIDE DEF h, sid, k
    <3>2. \A id \in DOMAIN sessions' : \A g \in ToSet(sessions'[id].seen) :
            \/ id = sid /\ g = h
            \/ id \in DOMAIN sessions /\ sessions'[id].serial = sessions[id].serial /\ g \in ToSet(sessions[id].seen)
      <4>1. /\ IsStore(sessions) /\ now \in Nat /\ nextSerial \in Nat
            /\ sid \in SessionIds /\ h \in Hashes
        BY <1>0, <1>2, <1>3
      <4>. DEFINE stored == Stored(sessions, sid, h, now, nextSerial)
      <4>2. \A id \in DOMAIN stored : \A g \in ToSet(stored[id].seen) :
              \/ id = sid /\ g = h
              \/ id \in DOMAIN sessions /\ stored[id].serial = sessions[id].serial /\ g \in ToSet(sessions[id].seen)
        <5>. HIDE DEF stored
        <5>1. stored = Stored(sessions, sid, h, now, nextSerial)
          BY DEF stored
        <5>. QED
          BY <4>1, <5>1, StoredSeen
      <4>. QED
        BY <3>1, <4>2
    <3>. QED
      BY <2>1, <3>2
  <2>2. CASE req'.elided = req.elided
    BY <1>4, <2>2 DEF vars
  <2>. QED
    BY <2>1, <2>2
<1>9. Safe' /\ IsStore(sessions')
  <2>1. [TurnNext]_turnVars
    BY DEF TurnNext
  <2>. QED
    BY <2>1, StepStoreSafe
<1>10. CapturedSeen(req) \subseteq Hashes
  <2>1. Holds(sessions, sid, k) => sessions[sid].seen \in Seq(Hashes)
    BY <1>0, SessionClean DEF Holds
  <2>2. Holds(sessions, sid, k) => ToSet(sessions[sid].seen) \subseteq Hashes
    BY <2>1, ToSetIs
  <2>. QED
    BY <1>2, <2>2 DEF CapturedSeen
<1>11. req' \in Request
  <2>1. req'.seen \subseteq Hashes
    <3>1. Holds(sessions', sid, k) => sessions'[sid].seen \in Seq(Hashes)
      BY <1>9, SessionClean DEF Holds
    <3>2. Holds(sessions', sid, k) => ToSet(sessions'[sid].seen) \subseteq Hashes
      BY <3>1, ToSetIs
    <3>. QED
      BY <1>4, <1>10, <3>2
  <2>2. req'.surviving \subseteq Hashes
    BY <1>2, <1>3, <1>4
  <2>3. req'.elided \subseteq 1..MaxPayload /\ req'.recoverable \subseteq 1..MaxPayload
    <3>. HIDE DEF h
    <3>. QED
      BY <1>2, <1>3, <1>4
  <2>4. req.at + 1 \in 1..(MaxPayload + 1)
    BY <1>3, TurnAssumption
  <2>. HIDE DEF h, sid, k
  <2>5. req' = [phase |-> "dedup", sid |-> sid, serial |-> k,
                 seen |-> req'.seen, payload |-> req.payload, at |-> req.at + 1,
                 surviving |-> req'.surviving, elided |-> req'.elided,
                 recoverable |-> req'.recoverable]
    BY <1>4
  <2>. QED
    BY <1>2, <2>1, <2>2, <2>3, <2>4, <2>5 DEF Request
<1>. HIDE DEF h, sid, k
\* What was behind is still there, and this message joins it if it is kept.
<1>12. \A g : KeptBefore(g) => \E j \in 1..req.at : j # req.at /\ j \notin req'.elided /\ req.payload[j] = g
  <2>1. \A j \in 1..(req.at - 1) : j \in 1..req.at /\ j # req.at
    BY <1>3
  <2>2. \A j \in 1..(req.at - 1) : j \notin req.elided => j \notin req'.elided
    BY <1>4, <2>1
  <2>. QED
    BY <2>1, <2>2 DEF KeptBefore
<1>13. /\ (req.at + 1) - 1 = req.at /\ req.at + 1 \in 1..(Len(req.payload) + 1)
       /\ \A i \in 1..(req.at - 1) : i \in 1..req.at
       /\ req.at \notin 1..(req.at - 1) /\ req.at \in 1..req.at
  BY <1>3
<1>14. ASSUME req'.elided # req.elided
       PROVE  /\ ~Preserved(req, h)
              /\ \A g : g = h => ToldOrKept(g)
  <2>1. ~Preserved(req, h)
    BY <1>4, <1>14
  <2>2. (h \in CapturedSeen(req) \/ Repeats(req, h)) /\ (~Repeats(req, h) \/ HasReferent(req, h))
    BY <2>1 DEF Preserved
  <2>3. HasReferent(req, h) => KeptBefore(h)
    BY <1>5 DEF HasReferent
  <2>4. ToldOrKept(h)
    BY <1>6, <2>2, <2>3 DEF ToldOrKept
  <2>. QED
    BY <2>1, <2>4
<1>15. Placed'
  <2>1. req'.elided \subseteq 1..req.at /\ req'.recoverable \subseteq 1..req.at
    <3>1. req.elided \subseteq 1..req.at /\ req.recoverable \subseteq 1..req.at
      BY <1>5, <1>13
    <3>2. req'.elided \subseteq req.elided \cup {req.at}
          /\ req'.recoverable \subseteq req.recoverable \cup {req.at}
      BY <1>4
    <3>. DEFINE D == 1..req.at
    <3>3. req.at \in D /\ req.elided \subseteq D /\ req.recoverable \subseteq D
      BY <1>13, <3>1
    <3>. HIDE DEF D
    <3>4. req'.elided \subseteq D /\ req'.recoverable \subseteq D
      BY <3>2, <3>3
    <3>. QED
      BY <3>4 DEF D
  <2>2. \A g \in req'.surviving : \E j \in 1..req.at : j \notin req'.elided /\ req.payload[j] = g
    <3>1. ASSUME NEW g \in req'.surviving, g \notin req.surviving
          PROVE  req.at \notin req'.elided /\ req.payload[req.at] = g
      BY <1>4, <1>5, <1>13, <3>1 DEF h
    <3>2. \A g \in req.surviving : \E j \in 1..req.at : j \notin req'.elided /\ req.payload[j] = g
      BY <1>5, <1>12
    <3>3. ASSUME NEW g \in req'.surviving
          PROVE  \E j \in 1..req.at : j \notin req'.elided /\ req.payload[j] = g
      <4>1. CASE g \in req.surviving
        BY <3>2, <4>1
      <4>2. CASE g \notin req.surviving
        <5>1. req.at \in 1..req.at
          BY <1>13
        <5>. WITNESS req.at \in 1..req.at
        <5>. QED
          BY <3>1, <4>2
      <4>. QED
        BY <4>1, <4>2
    <3>. QED
      BY <3>3
  <2>3. ASSUME NEW i \in req'.recoverable
        PROVE  \E j \in 1..(i - 1) : j \notin req'.elided /\ req.payload[j] = req.payload[i]
    <3>1. CASE i \in req.recoverable
      <4>1. PICK j \in 1..(i - 1) : j \notin req.elided /\ req.payload[j] = req.payload[i]
        BY <1>5, <3>1
      <4>2. j # req.at
        BY <1>3, <1>5, <3>1, <4>1
      <4>3. j \notin req'.elided
        BY <1>4, <4>1, <4>2
      <4>. QED
        BY <4>1, <4>3
    <3>2. CASE i \notin req.recoverable
      <4>1. i = req.at /\ HasReferent(req, h)
        BY <1>4, <3>2
      <4>2. KeptBefore(h)
        BY <1>5, <4>1 DEF HasReferent
      <4>3. PICK j \in 1..(req.at - 1) : j \notin req.elided /\ req.payload[j] = h
        BY <4>2 DEF KeptBefore
      <4>4. j \notin req'.elided
        BY <1>3, <1>4, <4>3
      <4>. QED
        BY <4>1, <4>3, <4>4 DEF h
    <3>. QED
      BY <3>1, <3>2
  <2>. QED
    BY <1>4, <1>13, <2>1, <2>2, <2>3 DEF Placed, KeptBefore
<1>16. Validated'
  BY <1>4 DEF Validated, Forwarded
<1>17. \A g : ToldOrKept(g) =>
         <<k, g>> \in told \/ \E j \in 1..req.at : j \notin req'.elided /\ req.payload[j] = g
  BY <1>12 DEF ToldOrKept, k
<1>18. Accounted'
  <2>1. \A i \in req'.elided : i \in req.elided \/ (i = req.at /\ req'.elided # req.elided)
    BY <1>4, <1>5, <1>13
  <2>2. \A i \in req'.elided : ToldOrKept(req.payload[i])
    BY <1>6, <1>14, <2>1 DEF h
  <2>3. ASSUME NEW g \in req'.seen PROVE ToldOrKept(g)
    <3>1. CASE Holds(sessions', sid, k)
      <4>1. g \in ToSet(sessions'[sid].seen) /\ sid \in DOMAIN sessions' /\ sessions'[sid].serial = k
        BY <1>4, <2>3, <3>1 DEF Holds
      <4>2. \/ g = h /\ req'.elided # req.elided
            \/ sid \in DOMAIN sessions /\ sessions[sid].serial = k /\ g \in ToSet(sessions[sid].seen)
        BY <1>8, <4>1
      <4>3. (sid \in DOMAIN sessions /\ sessions[sid].serial = k /\ g \in ToSet(sessions[sid].seen))
              => g \in CapturedSeen(req)
        BY DEF CapturedSeen, Holds, sid, k
      <4>. QED
        BY <1>6, <1>14, <4>2, <4>3
    <3>2. CASE ~Holds(sessions', sid, k)
      BY <1>4, <1>6, <2>3, <3>2
    <3>. QED
      BY <3>1, <3>2
  <2>4. CapturedSeen(req)' = req'.seen
    BY <1>4 DEF CapturedSeen
  <2>5. /\ \A i \in req'.elided : \/ <<k, req.payload[i]>> \in told
                                  \/ \E j \in 1..req.at : j \notin req'.elided /\ req.payload[j] = req.payload[i]
        /\ \A g \in req'.seen : \/ <<k, g>> \in told
                                \/ \E j \in 1..req.at : j \notin req'.elided /\ req.payload[j] = g
    BY <1>17, <2>2, <2>3
  <2>. QED
    BY <1>1, <1>4, <1>13, <2>4, <2>5 DEF Accounted, ToldOrKept, KeptBefore
<1>19. SeenTold'
  <2>1. ASSUME NEW id \in DOMAIN sessions', NEW g \in ToSet(sessions'[id].seen)
        PROVE  <<sessions'[id].serial, g>> \in told \/ (id = sid /\ g \in ToSet(req.payload))
    <3>1. CASE id = sid /\ g = h
      BY <1>3, <3>1
    <3>2. CASE id \in DOMAIN sessions /\ sessions'[id].serial = sessions[id].serial /\ g \in ToSet(sessions[id].seen)
      BY <1>0, <3>2 DEF SeenTold, Live, sid
    <3>. QED
      BY <1>8, <2>1, <3>1, <3>2
  <2>2. Running'
    BY <1>4 DEF Running
  <2>. QED
    BY <1>1, <1>4, <2>1, <2>2 DEF SeenTold, Live
<1>20. RecordsRequest'
  BY <1>0, <1>1, <1>4, <1>7 DEF RecordsRequest, Idle
<1>. QED
  BY <1>0, <1>1, <1>11, <1>15, <1>16, <1>18, <1>19, <1>20 DEF TurnTypeOK, RequestInv

\* The turn that is begun is that of the request, and so are its blocks.
LEMMA RecordStep ==
  ASSUME TurnInv, Record
  PROVE  TurnTypeOK' /\ RequestInv'
<1>0. /\ now \in Nat /\ nextSerial \in Nat /\ IsStore(sessions) /\ turn \in Turn
      /\ req \in Request /\ told \subseteq Nat \X Hashes
      /\ Placed /\ Validated /\ Accounted /\ SeenTold /\ RecordsRequest
  BY TurnTypes
<1>1. req.phase = "optimized" /\ told' = told
      /\ BeginRecordTurn(req.sid, Blocks(req.payload))
  BY DEF Record
<1>2. /\ req'.phase = "recording"
      /\ req'.sid = req.sid /\ req'.serial = req.serial /\ req'.seen = req.seen
      /\ req'.payload = req.payload /\ req'.at = req.at /\ req'.surviving = req.surviving
      /\ req'.elided = req.elided /\ req'.recoverable = req.recoverable
      /\ req' = [phase |-> "recording", sid |-> req.sid, serial |-> req.serial, seen |-> req.seen,
                 payload |-> req.payload, at |-> req.at, surviving |-> req.surviving,
                 elided |-> req.elided, recoverable |-> req.recoverable]
  BY <1>0, <1>1, PhaseIs DEF Record
<1>3. /\ req.sid \in SessionIds /\ req.serial \in Nat /\ req.seen \subseteq Hashes
      /\ req.payload \in Payloads /\ req.at \in 1..(MaxPayload + 1)
      /\ req.surviving \subseteq Hashes
      /\ req.elided \subseteq 1..MaxPayload /\ req.recoverable \subseteq 1..MaxPayload
  BY <1>0, <1>1, RequestIs
<1>4. req' \in Request
  BY <1>2, <1>3 DEF Request
<1>5. Placed' /\ Validated' /\ Accounted'
  <2>1. Placed'
    BY <1>0, <1>1, <1>2 DEF Placed, KeptBefore
  <2>2. Validated'
    BY <1>0, <1>1, <1>2 DEF Validated, Forwarded, DirectiveLost, Unwitnessed, Effective
  <2>3. Accounted'
    BY <1>0, <1>1, <1>2 DEF Accounted, Running, ToldOrKept, KeptBefore
  <2>. QED
    BY <2>1, <2>2, <2>3
<1>6. SeenTold'
  <2>. DEFINE opened == Opened(sessions, req.sid, now, nextSerial)
  <2>1. sessions' = [opened EXCEPT ![req.sid].turnCount = @ + 1]
    BY <1>1 DEF BeginRecordTurn
  <2>2. IsStore(opened) /\ req.sid \in DOMAIN opened
    BY <1>0, <1>3, OpenedType
  <2>3. \A id \in DOMAIN opened : \A g \in ToSet(opened[id].seen) :
          id \in DOMAIN sessions /\ opened[id].serial = sessions[id].serial /\ g \in ToSet(sessions[id].seen)
    BY <1>0, <1>3, OpenedSeen
  <2>. HIDE DEF opened
  <2>4. /\ DOMAIN sessions' = DOMAIN opened
        /\ \A id \in DOMAIN opened : sessions'[id].serial = opened[id].serial /\ sessions'[id].seen = opened[id].seen
    BY <2>1, <2>2 DEF IsStore, Session
  <2>5. Running /\ Running'
    BY <1>1, <1>2 DEF Running
  <2>. QED
    BY <1>0, <1>1, <1>2, <2>3, <2>4, <2>5 DEF SeenTold, Live
<1>7. RecordsRequest'
  <2>. DEFINE blocks == Blocks(req.payload)
  <2>1. turn'.phase = "recording" /\ turn'.sid = req.sid /\ turn'.todo = blocks
    BY <1>1 DEF BeginRecordTurn
  <2>2. /\ req.payload \in Seq(Hashes) /\ Len(blocks) = Len(req.payload)
        /\ \A i \in 1..Len(req.payload) : blocks[i].hash = req.payload[i]
    BY <1>3, PayloadIs, BlocksAre
  <2>. HIDE DEF blocks
  <2>3. \A i \in 1..Len(blocks) : blocks[i].hash \in ToSet(req.payload)
    BY <2>2, ToSetIs
  <2>. QED
    BY <1>2, <2>1, <2>3 DEF RecordsRequest
<1>. QED
  BY <1>0, <1>1, <1>4, <1>5, <1>6, <1>7 DEF TurnTypeOK, RequestInv

\* A block of the turn is a message of the payload, for whichever session object
\* the store now has under the id.
LEMMA RecordNextStep ==
  ASSUME TurnInv, RecordNext
  PROVE  TurnTypeOK' /\ RequestInv'
<1>. DEFINE sid == turn.sid
            k == turn.serial
            block == Head(turn.todo)
            h == block.hash
            marked == MarkSeen(sessions, sid, k, h)
<1>0. /\ now \in Nat /\ nextSerial \in Nat /\ IsStore(sessions) /\ turn \in Turn
      /\ req \in Request /\ told \subseteq Nat \X Hashes
      /\ Placed /\ Validated /\ Accounted /\ SeenTold /\ RecordsRequest
  BY TurnTypes
<1>1. /\ turn.phase = "recording" /\ turn.todo # <<>> /\ req' = req /\ told' = told
      /\ turn' = [turn EXCEPT !.done = Append(@, Head(turn.todo)), !.todo = Tail(@)]
      /\ sessions' = Stored(marked, sid, h, now, nextSerial) \/ sessions' = marked
  BY DEF RecordNext, RecordBlock
<1>2. /\ sid \in SessionIds /\ k \in Nat
      /\ turn.done \in Seq(Block) /\ turn.todo \in Seq(Block)
      /\ turn = [phase |-> "recording", sid |-> sid, serial |-> k,
                 done |-> turn.done, todo |-> turn.todo]
  BY <1>0, <1>1, RunningTurn
<1>3. req.phase = "recording" /\ sid = req.sid
      /\ \A i \in 1..Len(turn.todo) : turn.todo[i].hash \in ToSet(req.payload)
  BY <1>0, <1>1 DEF RecordsRequest
<1>4. h \in Hashes /\ h \in ToSet(req.payload)
  <2>1. block \in Block /\ block = turn.todo[1] /\ 1 \in 1..Len(turn.todo)
    BY <1>1, <1>2
  <2>. HIDE DEF block
  <2>. QED
    BY <1>3, <2>1 DEF Block
<1>5. /\ turn'.phase = "recording" /\ turn'.sid = sid /\ turn'.todo = Tail(turn.todo)
  <2>. HIDE DEF sid, k, block
  <2>1. PICK d, o : turn = [phase |-> "recording", sid |-> sid, serial |-> k,
                            done |-> d, todo |-> o]
    BY <1>2
  <2>. QED
    BY <1>1, <2>1
<1>6. \A i \in 1..Len(Tail(turn.todo)) :
        i + 1 \in 1..Len(turn.todo) /\ Tail(turn.todo)[i] = turn.todo[i + 1]
  BY <1>1, <1>2
<1>7. RecordsRequest'
  BY <1>1, <1>3, <1>5, <1>6 DEF RecordsRequest
<1>. HIDE DEF h, block
<1>8. \A id \in DOMAIN marked : \A g \in ToSet(marked[id].seen) :
        \/ id = sid /\ g = h
        \/ id \in DOMAIN sessions /\ marked[id].serial = sessions[id].serial /\ g \in ToSet(sessions[id].seen)
  <2>1. IsStore(sessions) /\ sid \in SessionIds /\ k \in Nat /\ h \in Hashes
    BY <1>0, <1>2, <1>4
  <2>. HIDE DEF sid, k
  <2>. QED
    BY <2>1, MarkedSeen
<1>9. IsStore(marked) /\ DOMAIN marked = DOMAIN sessions
  BY <1>0, <1>2, <1>4, MarkedType
<1>. HIDE DEF marked, sid, k
<1>10. \A id \in DOMAIN sessions' : \A g \in ToSet(sessions'[id].seen) :
         \/ id = sid /\ g = h
         \/ id \in DOMAIN sessions /\ sessions'[id].serial = sessions[id].serial /\ g \in ToSet(sessions[id].seen)
  <2>1. CASE sessions' = Stored(marked, sid, h, now, nextSerial)
    <3>1. \A id \in DOMAIN sessions' : \A g \in ToSet(sessions'[id].seen) :
            \/ id = sid /\ g = h
            \/ id \in DOMAIN marked /\ sessions'[id].serial = marked[id].serial /\ g \in ToSet(marked[id].seen)
      BY <1>0, <1>2, <1>4, <1>9, <2>1, StoredSeen
    <3>. QED
      BY <1>8, <3>1
  <2>2. CASE sessions' = marked
    BY <1>8, <2>2
  <2>. QED
    BY <1>1, <2>1, <2>2
<1>11. SeenTold'
  <2>1. Running /\ Running'
    BY <1>1, <1>3 DEF Running
  <2>. QED
    BY <1>0, <1>1, <1>3, <1>4, <1>10, <2>1 DEF SeenTold, Live
<1>12. Placed' /\ Validated' /\ Accounted'
  <2>1. Placed'
    BY <1>0, <1>1 DEF Placed, KeptBefore
  <2>2. Validated'
    BY <1>0, <1>1 DEF Validated, Forwarded, DirectiveLost, Unwitnessed, Effective
  <2>3. Accounted'
    BY <1>0, <1>1, <1>3 DEF Accounted, Running, ToldOrKept, KeptBefore
  <2>. QED
    BY <2>1, <2>2, <2>3
<1>. QED
  BY <1>0, <1>1, <1>7, <1>11, <1>12 DEF TurnTypeOK, RequestInv

\* The turn is recorded and the answer goes out: what the session has seen of this
\* payload has now been told.
LEMMA SendStep ==
  ASSUME TurnInv, Send
  PROVE  TurnTypeOK' /\ RequestInv'
<1>0. /\ now \in Nat /\ nextSerial \in Nat /\ IsStore(sessions) /\ turn \in Turn
      /\ req \in Request /\ told \subseteq Nat \X Hashes
      /\ Placed /\ Validated /\ Accounted /\ SeenTold /\ RecordsRequest
  BY TurnTypes
<1>1. /\ turn.phase = "recording" /\ sessions' = CapSeen(sessions, turn.sid, turn.serial)
      /\ turn' = [turn EXCEPT !.phase = "recorded"]
      /\ req' = [req EXCEPT !.phase = "sent"]
      /\ told' = told \cup ({turn.serial} \cup {sessions[id].serial : id \in Live \cap {turn.sid}})
                             \X ToSet(req.payload)
  BY DEF Send, EndRecordTurn
<1>2. /\ turn.sid \in SessionIds /\ turn.serial \in Nat
      /\ turn = [phase |-> "recording", sid |-> turn.sid, serial |-> turn.serial,
                 done |-> turn.done, todo |-> turn.todo]
  BY <1>0, <1>1, RunningTurn
<1>3. req.phase = "recording" /\ turn.sid = req.sid
  BY <1>0, <1>1 DEF RecordsRequest
<1>4. /\ req'.phase = "sent"
      /\ req'.sid = req.sid /\ req'.serial = req.serial /\ req'.seen = req.seen
      /\ req'.payload = req.payload /\ req'.at = req.at /\ req'.surviving = req.surviving
      /\ req'.elided = req.elided /\ req'.recoverable = req.recoverable
      /\ req' = [phase |-> "sent", sid |-> req.sid, serial |-> req.serial, seen |-> req.seen,
                 payload |-> req.payload, at |-> req.at, surviving |-> req.surviving,
                 elided |-> req.elided, recoverable |-> req.recoverable]
  BY <1>0, <1>1, <1>3, PhaseIs
<1>5. /\ req.sid \in SessionIds /\ req.serial \in Nat /\ req.seen \subseteq Hashes
      /\ req.payload \in Payloads /\ req.at \in 1..(MaxPayload + 1)
      /\ req.surviving \subseteq Hashes
      /\ req.elided \subseteq 1..MaxPayload /\ req.recoverable \subseteq 1..MaxPayload
  BY <1>0, <1>3, RequestIs
<1>6. req' \in Request
  BY <1>4, <1>5 DEF Request
<1>7. told' \subseteq Nat \X Hashes
  <2>1. ToSet(req.payload) \subseteq Hashes
    <3>1. req.payload \in Seq(Hashes) /\ \A i \in 1..Len(req.payload) : req.payload[i] \in Hashes
      BY <1>5, PayloadIs
    <3>. QED
      BY <3>1, ToSetIs
  <2>2. \A id \in Live : sessions[id].serial \in Nat
    BY <1>0, SessionClean DEF Live
  <2>. QED
    BY <1>0, <1>1, <1>2, <2>1, <2>2
<1>8. Placed' /\ Validated' /\ Accounted'
  <2>1. Placed'
    BY <1>0, <1>3, <1>4 DEF Placed, KeptBefore
  <2>2. Validated'
    BY <1>0, <1>3, <1>4 DEF Validated, Forwarded, DirectiveLost, Unwitnessed, Effective
  <2>3. Accounted'
    BY <1>4 DEF Accounted, Running
  <2>. QED
    BY <2>1, <2>2, <2>3
<1>9. SeenTold'
  <2>1. \A id \in DOMAIN sessions' : \A g \in ToSet(sessions'[id].seen) :
          id \in DOMAIN sessions /\ sessions'[id].serial = sessions[id].serial /\ g \in ToSet(sessions[id].seen)
    BY <1>0, <1>1, <1>2, CappedSeenSeen
  <2>2. ASSUME NEW id \in DOMAIN sessions, NEW g \in ToSet(sessions[id].seen)
        PROVE  <<sessions[id].serial, g>> \in told'
    <3>1. <<sessions[id].serial, g>> \in told \/ (id = req.sid /\ g \in ToSet(req.payload))
      BY <1>0 DEF SeenTold, Live
    <3>2. id = req.sid => id \in Live \cap {turn.sid}
      BY <1>3 DEF Live
    <3>. QED
      BY <1>1, <3>1, <3>2
  <2>. QED
    BY <2>1, <2>2 DEF SeenTold, Live
<1>10. RecordsRequest'
  <2>1. turn'.phase = "recorded"
    BY <1>1, <1>2
  <2>. QED
    BY <1>4, <2>1 DEF RecordsRequest
<1>. QED
  BY <1>6, <1>7, <1>8, <1>9, <1>10 DEF TurnTypeOK, RequestInv

\* Nothing but the clock moves, or nothing does.
LEMMA StillStep ==
  ASSUME TurnInv, sessions' = sessions, turn' = turn, req' = req, told' = told
  PROVE  TurnTypeOK' /\ RequestInv'
<1>1. /\ req \in Request /\ told \subseteq Nat \X Hashes
      /\ Placed /\ Validated /\ Accounted /\ SeenTold /\ RecordsRequest
  BY TurnTypes
<1>2. Placed' /\ RecordsRequest'
  BY <1>1 DEF Placed, KeptBefore, RecordsRequest
<1>3. Validated'
  BY <1>1 DEF Validated, Forwarded, DirectiveLost, Unwitnessed, Effective
<1>4. Accounted' /\ SeenTold'
  BY <1>1 DEF Accounted, Running, ToldOrKept, KeptBefore, CapturedSeen, Holds, SeenTold, Live
<1>. QED
  BY <1>1, <1>2, <1>3, <1>4 DEF TurnTypeOK, RequestInv

\* The invariant holds at first.
LEMMA TurnInitInv == TurnInit => TurnInv
<1>. SUFFICES ASSUME TurnInit PROVE TurnInv
  OBVIOUS
<1>1. Safe /\ turn = Idle /\ Live = {}
  BY InitSafe DEF TurnInit, Init, Live
<1>2. req.phase = "none" /\ req \in Request /\ told = {}
  BY DEF TurnInit, NoRequest, Request
<1>3. RequestInv
  BY <1>1, <1>2 DEF RequestInv, Placed, Validated, Forwarded, Accounted, Running, SeenTold,
                    RecordsRequest, Idle
<1>. QED
  BY <1>1, <1>2, <1>3 DEF TurnInv, TurnTypeOK

\* Every step keeps it.
LEMMA TurnNextInv == TurnInv /\ [TurnNext]_turnVars => TurnInv'
<1>. SUFFICES ASSUME TurnInv, [TurnNext]_turnVars PROVE TurnInv'
  OBVIOUS
<1>1. Safe'
  BY StepStoreSafe
<1>. SUFFICES TurnTypeOK' /\ RequestInv'
  BY <1>1 DEF TurnInv
<1>2. CASE TurnTick \/ UNCHANGED turnVars
  BY <1>2, StillStep DEF TurnTick, Tick, turnVars, vars
<1>3. ASSUME NEW sid \in SessionIds, NEW payload \in Payloads, OpenRequest(sid, payload)
      PROVE  TurnTypeOK' /\ RequestInv'
  BY <1>3, OpenRequestStep
<1>4. ASSUME NEW sid \in SessionIds, BypassRequest(sid)
      PROVE  TurnTypeOK' /\ RequestInv'
  BY <1>4, BypassStep
<1>5. CASE DedupItem
  BY <1>5, DedupStep
<1>6. CASE Optimize
  BY <1>6, OptimizeStep
<1>7. CASE Record
  BY <1>7, RecordStep
<1>8. CASE RecordNext
  BY <1>8, RecordNextStep
<1>9. CASE Send
  BY <1>9, SendStep
<1>. QED
  BY <1>2, <1>3, <1>4, <1>5, <1>6, <1>7, <1>8, <1>9 DEF TurnNext

\* So it holds in every state.
LEMMA TurnInvariant == TurnSpec => []TurnInv
BY TurnInitInv, TurnNextInv, PTL DEF TurnSpec

-----------------------------------------------------------------------------
(* The theorems.                                                           *)

\* A request being handled, and what has been told of earlier ones, are always
\* complete and within the bounds of the request's own payload
\* (engine/index.ts:301-335, session-dedup.ts:88-154).
THEOREM TurnTypeCorrect == TurnSpec => []TurnTypeOK
BY TurnInvariant, PTL DEF TurnInv

\* A marker that validation resolved refers to an intact copy earlier in the very
\* payload that goes out, whatever repair, fallback and the splice took back.
THEOREM MarkersReferBack == TurnSpec => []RecoverableHasReferent
<1>1. TurnInv => RecoverableHasReferent
  <2>. SUFFICES ASSUME TurnInv, Forwarded, NEW i \in req.elided \cap req.recoverable
                PROVE  \E j \in Intact : j < i /\ req.payload[j] = req.payload[i]
    BY DEF RecoverableHasReferent
  <2>1. /\ req.at \in 1..(Len(req.payload) + 1) /\ i \in 1..(req.at - 1)
        /\ \E j \in 1..(i - 1) : j \notin req.elided /\ req.payload[j] = req.payload[i]
    BY DEF TurnInv, RequestInv, Placed, Forwarded
  <2>2. PICK j \in 1..(i - 1) : j \notin req.elided /\ req.payload[j] = req.payload[i]
    BY <2>1
  <2>3. Len(req.payload) \in Nat
    BY RequestIs, PayloadIs DEF TurnInv, TurnTypeOK, Forwarded
  <2>4. j \in Positions /\ j < i
    BY <2>1, <2>2, <2>3 DEF Positions
  <2>. QED
    BY <2>2, <2>4 DEF Intact
<1>. QED
  BY <1>1, TurnInvariant, PTL

\* What goes out is what validation looked at: no directive is elided, and a
\* message drift could not measure goes only where a copy of it stays.
THEOREM SentWasValidated == TurnSpec => []SentIsValidated
<1>1. TurnInv => SentIsValidated
  <2>. SUFFICES ASSUME TurnInv, Forwarded, NEW i \in req.elided
                PROVE  /\ SymbolsOf[req.payload[i]] = {} => Copies(req.payload[i]) \cap Intact # {}
                       /\ req.payload[i] \notin Directives
    BY DEF SentIsValidated, UnwitnessedNeverDeleted, DirectiveSurvives
  <2>1. DirectiveLost(req.elided) = {} /\ Unwitnessed(req.elided) = {}
    BY DEF TurnInv, RequestInv, Validated
  <2>2. req.payload[i] \notin Directives
    BY <2>1 DEF DirectiveLost
  <2>3. ASSUME SymbolsOf[req.payload[i]] = {}
        PROVE  Copies(req.payload[i]) \cap Intact # {}
    <3>1. i \in req.recoverable
      BY <2>1, <2>3 DEF Unwitnessed, Effective
    <3>2. /\ req.at \in 1..(Len(req.payload) + 1) /\ i \in 1..(req.at - 1)
          /\ \E j \in 1..(i - 1) : j \notin req.elided /\ req.payload[j] = req.payload[i]
      BY <3>1 DEF TurnInv, RequestInv, Placed, Forwarded
    <3>3. PICK j \in 1..(i - 1) : j \notin req.elided /\ req.payload[j] = req.payload[i]
      BY <3>2
    <3>4. Len(req.payload) \in Nat
      BY RequestIs, PayloadIs DEF TurnInv, TurnTypeOK, Forwarded
    <3>5. j \in Positions
      BY <3>2, <3>3, <3>4 DEF Positions
    <3>. QED
      BY <3>3, <3>5 DEF Intact, Copies
  <2>. QED
    BY <2>2, <2>3
<1>. QED
  BY <1>1, TurnInvariant, PTL

\* A message leaves a payload altogether only if an earlier turn of the same
\* session object carried it, though the session may expire, be evicted and come
\* back under its id while the request is handled (session-dedup.ts:109-121).
THEOREM OnlyToldIsDeleted == TurnSpec => []DeletedOnlyIfCarriedBefore
<1>1. TurnInv => DeletedOnlyIfCarriedBefore
  <2>. SUFFICES ASSUME TurnInv, req.phase \in {"optimized", "recording"}, NEW i \in req.elided,
                       Copies(req.payload[i]) \cap Intact = {}
                PROVE  <<req.serial, req.payload[i]>> \in told
    BY DEF DeletedOnlyIfCarriedBefore
  <2>1. ToldOrKept(req.payload[i])
    BY DEF TurnInv, RequestInv, Accounted, Running
  <2>2. ASSUME NEW j \in 1..(req.at - 1), j \notin req.elided, req.payload[j] = req.payload[i]
        PROVE  FALSE
    <3>1. req.at \in 1..(Len(req.payload) + 1)
      BY DEF TurnInv, RequestInv, Placed
    <3>2. Len(req.payload) \in Nat
      BY RequestIs, PayloadIs DEF TurnInv, TurnTypeOK
    <3>3. j \in Positions
      BY <3>1, <3>2 DEF Positions
    <3>. QED
      BY <2>2, <3>3 DEF Copies, Intact
  <2>. QED
    BY <2>1, <2>2 DEF ToldOrKept, KeptBefore
<1>. QED
  BY <1>1, TurnInvariant, PTL

\* The store under the requests keeps what it promises by itself: its types, the
\* caps of its caches, and every turn it has recorded (the session of a turn may
\* be opened by a request, written to by dedup and expire before the recording).
THEOREM TurnsKeepStore ==
  TurnSpec => [](TypeOK /\ CacheCaps /\ RecordedTurnIsRetrievable)
<1>1. TurnInit => RecallInv
  BY InitSerials DEF TurnInit, RecallInv, Recalls, Init, Idle
<1>2. TurnInv /\ RecallInv /\ [TurnNext]_turnVars => RecallInv'
  BY TurnIsStoreStep, StepRecalls DEF TurnInv
<1>3. RecallInv => TypeOK /\ CacheCaps /\ RecordedTurnIsRetrievable
  BY RecalledIsRetrievable DEF RecallInv, Serials, Safe
<1>. QED
  BY <1>1, <1>2, <1>3, TurnInvariant, PTL DEF TurnSpec

\* No request makes the store outgrow its cap of sessions, or costs another
\* conversation that is not expired its state, unless a new one needs its place and
\* no other is older.
THEOREM TurnsSpareSessions ==
  ASSUME EmptyId \notin SessionIds
  PROVE  TurnSpec => []SessionCap /\ EvictsOnlyOldest
<1>1. TurnInit => Bounded
  BY InitBounded DEF TurnInit
<1>2. TurnInv /\ Bounded /\ [TurnNext]_turnVars => Bounded'
  BY TurnIsStoreStep, StepBounded DEF TurnInv
<1>3. Bounded => SessionCap
  BY DEF Bounded, SessionCap, Limit
<1>4. TurnInv /\ Bounded /\ [TurnNext]_turnVars => [Clear \/ Spares]_vars
  BY TurnIsStoreStep, StepSpares DEF TurnInv
<1>5. TurnSpec => []SessionCap /\ [][Clear \/ Spares]_vars
  BY <1>1, <1>2, <1>3, <1>4, TurnInvariant, PTL DEF TurnSpec
<1>. QED
  BY <1>5 DEF EvictsOnlyOldest, Spares
=============================================================================

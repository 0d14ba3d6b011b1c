---------------------------- MODULE SessionStore ----------------------------
(***************************************************************************)
(* GatewaySessionStore (src/src/gateway/session-store.ts): the in-memory   *)
(* map of conversation sessions shared by every gateway connection, each   *)
(* session holding two insertion-ordered, capped caches.                   *)
(*                                                                         *)
(* JavaScript runs one handler at a time, so every public method is one    *)
(* action, except recordTurn: it reads the clock once per block, and the   *)
(* session it is writing may expire between two of those reads.  It is     *)
(* BeginRecordTurn, RecordBlock (once per block) and EndRecordTurn, between*)
(* which only the clock moves.                                             *)
(*                                                                         *)
(* A JavaScript Set or Map keeps its keys in insertion order; it is a      *)
(* sequence of distinct keys here.  The order of the outer Map, which      *)
(* breaks ties between equally old sessions, is the order of the serial    *)
(* numbers given at creation; a serial also identifies a session object.   *)
(***************************************************************************)
EXTENDS Integers, Sequences, FiniteSets, SequencesExt

CONSTANTS
  SessionIds,   \* the session ids callers name
  EmptyId,      \* the id "", the only one JavaScript finds falsy
  Hashes,       \* content hashes of blocks
  Refs,         \* the short refs carried by elision markers
  RefOf,        \* the ref of a hash: its first ELISION_HASH_PREFIX_LENGTH digits
  MaxSessions, MaxContent, MaxSeen, Ttl,      \* the four constructor options
  MaxTime, MaxSerial, MaxTurns, MaxBlocks     \* bounds of the model

ASSUME StoreAssumption ==
  /\ RefOf \in [Hashes -> Refs]
  /\ MaxSessions \in Nat /\ MaxContent \in Nat /\ MaxSeen \in Nat /\ Ttl \in Nat
  /\ MaxTime \in Nat /\ MaxSerial \in Nat /\ MaxTurns \in Nat /\ MaxBlocks \in Nat

VARIABLES
  now,          \* Date.now()
  sessions,     \* the Map: live session ids to sessions
  nextSerial,   \* serial of the next session object
  turn          \* the recordTurn call in progress, or the one just finished

vars == <<now, sessions, nextSerial, turn>>

-----------------------------------------------------------------------------
Session == [serial : Nat, lastActive : Nat, turnCount : Nat,
            seen : Seq(Hashes), content : Seq(Hashes)]

\* A block is recorded with its content, or (a bare string) by its hash only.
Block == [hash : Hashes, stored : BOOLEAN]

Turn == [phase : {"idle"}]
          \cup [phase : {"recording", "recorded"}, sid : SessionIds,
                serial : Nat, done : Seq(Block), todo : Seq(Block)]

Idle == [phase |-> "idle"]

IsStore(store) == DOMAIN store \subseteq SessionIds /\ store \in [DOMAIN store -> Session]

\* Every session is complete: identified, dated, with both its caches in order.
TypeOK ==
  /\ now \in Nat
  /\ nextSerial \in Nat
  /\ IsStore(sessions)
  /\ turn \in Turn

-----------------------------------------------------------------------------
(* The pieces of the methods, as functions of the store.                   *)

Live == DOMAIN sessions

Sub(store, ids) == [id \in ids |-> store[id]]

\* Mutant: a key already present keeps its place.
Touch_InPlace(keys, k) == IF k \in ToSet(keys) THEN keys ELSE Append(keys, k)

\* delete(key) then add(key): the key moves to the young end.
Touch(keys, k) == Append(RemoveFirst(keys, k), k)

\* Mutant: the loop stops one key too early.
Capped_OneOver(keys, cap) ==
  IF Len(keys) > cap + 1 THEN SubSeq(keys, Len(keys) - cap, Len(keys)) ELSE keys

\* while (size > cap) delete the first key.
Capped(keys, cap) ==
  IF Len(keys) > cap THEN SubSeq(keys, Len(keys) - cap + 1, Len(keys)) ELSE keys

Expired(session, t) == t - session.lastActive > Ttl

Pruned(store, t) == Sub(store, {id \in DOMAIN store : ~Expired(store[id], t)})

Older(a, b) == \/ a.lastActive < b.lastActive
               \/ a.lastActive = b.lastActive /\ a.serial <= b.serial

Oldest(store) ==
  CHOOSE id \in DOMAIN store : \A o \in DOMAIN store : Older(store[id], store[o])

\* Mutant: the comparison is turned round, and the freshest session goes.
Evicted_Freshest(store) ==
  IF DOMAIN store = {}
    THEN store
    ELSE Sub(store, DOMAIN store
           \ {CHOOSE id \in DOMAIN store : \A o \in DOMAIN store : Older(store[o], store[id])})

\* evictOldestSession guards its delete with `if (oldestId)`: "" is not deleted.
Evicted(store) ==
  IF DOMAIN store = {} \/ Oldest(store) = EmptyId
    THEN store
    ELSE Sub(store, DOMAIN store \ {Oldest(store)})

Fresh(t, k) == [serial |-> k, lastActive |-> t, turnCount |-> 0,
                seen |-> <<>>, content |-> <<>>]

Creates(store, sid, t) == sid \notin DOMAIN Pruned(store, t)

\* Mutant: room is made only when the store is already over its cap.
Opened_OffByOne(store, sid, t, k) ==
  LET kept == Pruned(store, t)
      room == IF Cardinality(DOMAIN kept) > MaxSessions THEN Evicted(kept) ELSE kept
  IN IF sid \in DOMAIN kept
       THEN [kept EXCEPT ![sid].lastActive = t]
       ELSE [id \in DOMAIN room \cup {sid} |-> IF id = sid THEN Fresh(t, k) ELSE room[id]]

Opened(store, sid, t, k) ==
  LET kept == Pruned(store, t)
      room == IF Cardinality(DOMAIN kept) >= MaxSessions THEN Evicted(kept) ELSE kept
  IN IF sid \in DOMAIN kept
       THEN [kept EXCEPT ![sid].lastActive = t]
       ELSE [id \in DOMAIN room \cup {sid} |-> IF id = sid THEN Fresh(t, k) ELSE room[id]]

Stored(store, sid, h, t, k) ==
  [Opened(store, sid, t, k) EXCEPT
     ![sid].seen    = Capped(Touch(@, h), MaxSeen),
     ![sid].content = Capped(Touch(@, h), MaxContent)]

\* The session object a running recordTurn holds: still in the Map, or detached.
Holds(store, sid, k) == sid \in DOMAIN store /\ store[sid].serial = k

MarkSeen(store, sid, k, h) ==
  IF Holds(store, sid, k) THEN [store EXCEPT ![sid].seen = Touch(@, h)] ELSE store

CapSeen(store, sid, k) ==
  IF Holds(store, sid, k) THEN [store EXCEPT ![sid].seen = Capped(@, MaxSeen)] ELSE store

Numbered(store, sid, t) ==
  /\ Creates(store, sid, t) => nextSerial < MaxSerial
  /\ nextSerial' = IF Creates(store, sid, t) THEN nextSerial + 1 ELSE nextSerial

-----------------------------------------------------------------------------
Init ==
  /\ now = 0
  /\ sessions = [id \in {} |-> <<>>]
  /\ nextSerial = 0
  /\ turn = Idle

Tick ==
  /\ now < MaxTime
  /\ now' = now + 1
  /\ UNCHANGED <<sessions, nextSerial, turn>>

Resting == turn.phase # "recording"

GetSession ==
  /\ Resting
  /\ sessions' = Pruned(sessions, now)
  /\ turn' = Idle
  /\ UNCHANGED <<now, nextSerial>>

GetOrCreateSession(sid) ==
  /\ Resting
  /\ Numbered(sessions, sid, now)
  /\ sessions' = Opened(sessions, sid, now, nextSerial)
  /\ turn' = Idle
  /\ UNCHANGED now

StoreContent(sid, h) ==
  /\ Resting
  /\ Numbered(sessions, sid, now)
  /\ sessions' = Stored(sessions, sid, h, now, nextSerial)
  /\ turn' = Idle
  /\ UNCHANGED now

\* A lookup neither prunes nor touches lastActive; a hit refreshes the content
\* key.  A full hash matches itself, a ref every stored hash it is the prefix of.
Matching(sid, key) ==
  LET stored == ToSet(sessions[sid].content)
  IN IF key \in stored THEN {key} ELSE {h \in stored : RefOf[h] = key}

GetContent(sid, key) ==
  /\ Resting
  /\ sid \in Live
  /\ Cardinality(Matching(sid, key)) = 1
  /\ sessions' = [sessions EXCEPT
                    ![sid].content = Touch(@, CHOOSE h \in Matching(sid, key) : TRUE)]
  /\ turn' = Idle
  /\ UNCHANGED <<now, nextSerial>>

BeginRecordTurn(sid, blocks) ==
  /\ Resting
  /\ Numbered(sessions, sid, now)
  /\ LET opened == Opened(sessions, sid, now, nextSerial)
     IN /\ opened[sid].turnCount < MaxTurns
        /\ sessions' = [opened EXCEPT ![sid].turnCount = @ + 1]
        /\ turn' = [phase |-> "recording", sid |-> sid, serial |-> opened[sid].serial,
                    done |-> <<>>, todo |-> blocks]
  /\ UNCHANGED now

RecordBlock ==
  /\ turn.phase = "recording"
  /\ turn.todo # <<>>
  /\ LET block  == Head(turn.todo)
         marked == MarkSeen(sessions, turn.sid, turn.serial, block.hash)
     IN IF block.stored
          THEN /\ Numbered(marked, turn.sid, now)
               /\ sessions' = Stored(marked, turn.sid, block.hash, now, nextSerial)
          ELSE /\ sessions' = marked
               /\ UNCHANGED nextSerial
  /\ turn' = [turn EXCEPT !.done = Append(@, Head(turn.todo)), !.todo = Tail(@)]
  /\ UNCHANGED now

EndRecordTurn ==
  /\ turn.phase = "recording"
  /\ turn.todo = <<>>
  /\ sessions' = CapSeen(sessions, turn.sid, turn.serial)
  /\ turn' = [turn EXCEPT !.phase = "recorded"]
  /\ UNCHANGED <<now, nextSerial>>

Clear ==
  /\ Resting
  /\ sessions' = [id \in {} |-> <<>>]
  /\ turn' = Idle
  /\ UNCHANGED <<now, nextSerial>>

Next ==
  \/ Tick
  \/ GetSession
  \/ Clear
  \/ \E sid \in SessionIds :
       \/ GetOrCreateSession(sid)
       \/ \E h \in Hashes : StoreContent(sid, h)
       \/ \E key \in Hashes \cup Refs : GetContent(sid, key)
       \/ \E blocks \in BoundedSeq(Block, MaxBlocks) : BeginRecordTurn(sid, blocks)
  \/ RecordBlock
  \/ EndRecordTurn

Spec == Init /\ [][Next]_vars

-----------------------------------------------------------------------------
(* Properties.                                                             *)

\* The store never holds more sessions than maxSessions: getOrCreateSession
\* makes room before it inserts.  A store configured with 0 still holds the
\* session it was asked for.
SessionCap == Cardinality(Live) <= IF MaxSessions = 0 THEN 1 ELSE MaxSessions

\* Both caches of every session respect their caps; the set of seen hashes may
\* be over its cap only in the session whose turn is still being recorded, until
\* recordTurn's own capSeenBlockHashes.
CacheCaps ==
  \A id \in Live :
    /\ Len(sessions[id].content) <= MaxContent
    /\ \/ Len(sessions[id].seen) <= MaxSeen
       \/ turn.phase = "recording" /\ Holds(sessions, turn.sid, turn.serial) /\ id = turn.sid

\* When a turn has been recorded, its most recent blocks, as many as the caches
\* hold, are all retrievable and recognised as seen: recording a later block
\* never pushes out one of the latest MaxContent, whatever the session held
\* before.  A turn whose session expired while it was being recorded lost its
\* session object, and is excluded.
StoredHashes(blocks) == {b.hash : b \in {x \in ToSet(blocks) : x.stored}}

RecordedTurnIsRetrievable ==
  (turn.phase = "recorded" /\ Holds(sessions, turn.sid, turn.serial)) =>
    \A i \in 1..Len(turn.done) :
      LET tail == SubSeq(turn.done, i, Len(turn.done))
      IN /\ (turn.done[i].stored /\ Cardinality(StoredHashes(tail)) <= MaxContent)
               => turn.done[i].hash \in ToSet(sessions[turn.sid].content)
         /\ Cardinality({b.hash : b \in ToSet(tail)}) <= MaxSeen
               => turn.done[i].hash \in ToSet(sessions[turn.sid].seen)

\* An unexpired session leaves the store only to make room for a new one, and is
\* then the least recently active of those not expired (clear() apart): neither
\* an inspection nor a lookup nor the recording of a turn costs another
\* conversation its state.
EvictsOnlyOldest ==
  [][Clear \/
     \A id \in Live \ Live' :
       \/ Expired(sessions[id], now)
       \/ /\ Live' \ Live # {}
          /\ \A o \in Live : ~Expired(sessions[o], now) => Older(sessions[id], sessions[o])]_vars
=============================================================================

--------------------------- MODULE ConfidenceLedger ---------------------------
(***************************************************************************)
(* The confidence ledger: which items stand elided, since which turn, and  *)
(* how far each of them is still trusted to be restorable. A record is     *)
(* held under two keys at once, the item's id and the hash of what was     *)
(* elided. Confidence is counted in ten-thousandths: it is 1.0 at the turn *)
(* of the elision, decays by a factor 0.9 a turn, and every access adds    *)
(* 0.15 to it, up to 0.3.                                                  *)
(***************************************************************************)
EXTENDS Naturals, FiniteSets, Functions

CONSTANTS
  ItemIds,    \* ids of context items
  Blocks,     \* hashes of elided content
  Turns,      \* bound: turns of a conversation at which something happens
  MaxRefs     \* bound: accesses counted for a record

ASSUME LedgerAssumption ==
  /\ ItemIds \cap Blocks = {}
  /\ Turns \subseteq Nat \ {0} /\ 1 \in Turns /\ MaxRefs \in Nat \ {0}

VARIABLES
  records,  \* key -> record: one record under its item id and its block hash
  now       \* the turn the host last announced

ledgerVars == <<records, now>>

-----------------------------------------------------------------------------
Keys == ItemIds \cup Blocks

ElisionRecord ==
  [itemId : ItemIds, blockHash : Blocks, elisionTurn : Turns,
   lastAccessedTurn : Turns, referenceCount : 1..MaxRefs]

LedgerTypeOK ==
  /\ DOMAIN records \subseteq Keys
  /\ \A k \in DOMAIN records :
       records[k] \in ElisionRecord /\ k \in {records[k].itemId, records[k].blockHash}
  /\ now \in Turns

Full == 10000

Least(a, b) == IF a < b THEN a ELSE b

\* 0.9 ^ age
Decayed(age) == (Full * 9 ^ age) \div 10 ^ age

Age(r, t) == IF t > r.lastAccessedTurn THEN t - r.lastAccessedTurn ELSE 0

Boost(r) == Least(3000, (r.referenceCount - 1) * 1500)

Confidence(r, t) == Least(Full, Decayed(Age(r, t)) + Boost(r))

\* The records, each once: both keys of an elision hold the same one.
Tracked(recs) == Range(recs)

\* The confidence of the least trusted elision, and 1.0 when there is none.
OverallConfidence(recs, t) ==
  CHOOSE c \in {Full} \cup {Confidence(r, t) : r \in Tracked(recs)} :
    \A r \in Tracked(recs) : c <= Confidence(r, t)

Candidates(recs, t, threshold) ==
  {r.itemId : r \in {q \in Tracked(recs) : Confidence(q, t) < threshold}}

\* The turn of the oldest elision, the current one when nothing is tracked.
OldestTurn(recs, t) ==
  CHOOSE o \in {t} \cup {r.elisionTurn : r \in Tracked(recs)} :
    \A r \in Tracked(recs) : o <= r.elisionTurn

-----------------------------------------------------------------------------
Under(r) == [k \in {r.itemId, r.blockHash} |-> r]

Overlaid(recs, new) ==
  [k \in DOMAIN recs \cup DOMAIN new |-> IF k \in DOMAIN new THEN new[k] ELSE recs[k]]

Elision(item, block, t) ==
  [itemId |-> item, blockHash |-> block, elisionTurn |-> t, lastAccessedTurn |-> t, referenceCount |-> 1]

\* The elisions of a turn, each item's under its two keys.
Elisions(blockOf, t) ==
  [k \in DOMAIN blockOf \cup Range(blockOf) |->
     LET d == CHOOSE d \in DOMAIN blockOf : k \in {d, blockOf[d]} IN Elision(d, blockOf[d], t)]

\* Mutant: what is on record already stays as it is.
Recorded_Once(recs, blockOf, t) == Overlaid(Elisions(blockOf, t), recs)

\* Items are recorded one after another; their blocks differ, so that the order is
\* no matter. Neither is it when several are removed, each with its other key.
Recorded(recs, blockOf, t) == Overlaid(recs, Elisions(blockOf, t))

Removed(recs, keys) ==
  Restrict(recs, DOMAIN recs \ UNION {{recs[k].itemId, recs[k].blockHash} : k \in keys \cap DOMAIN recs})

Accessed(recs, key, t) ==
  LET r == recs[key]
  IN Overlaid(recs, Under([r EXCEPT !.lastAccessedTurn = IF t > @ THEN t ELSE @,
                                    !.referenceCount = @ + 1]))

-----------------------------------------------------------------------------
LedgerInit == records = [k \in {} |-> {}] /\ now = 1

\* A host that knows an elided block was referred to says so.
UpdateAccess(key) ==
  /\ key \in DOMAIN records
  /\ records[key].referenceCount < MaxRefs
  /\ records' = Accessed(records, key, now)
  /\ UNCHANGED now

NewTurn(t) ==
  /\ t > now
  /\ now' = t
  /\ UNCHANGED records
=============================================================================

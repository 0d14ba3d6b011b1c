---------------------------- MODULE EngineProofs ----------------------------
(***************************************************************************)
(* What Engine promises, for every set of items, host, budget and bound:   *)
(* that the pipeline implements Optimizer, that the ledger knows what is   *)
(* handed back elided, and that the hashing stage takes no more than is    *)
(* needed. All of it follows from one invariant of the call in progress.   *)
(***************************************************************************)
EXTENDS Engine, OperatorLemmas

-----------------------------------------------------------------------------
(* Sizes are natural numbers.                                              *)

\* An item has finitely many parts.
LEMMA PartsFinite == ASSUME NEW d \in ItemIds, NEW S, S \subseteq PartsOf[d] PROVE IsFiniteSet(S)
<1>1. PartsOf[d] \subseteq PartIds /\ IsFiniteSet(PartIds)
  BY EngineAssumption
<1>. QED
  BY <1>1, FS_Subset

\* What elision frees is counted in naturals.
LEMMA FreedNat ==
  ASSUME NEW d \in ItemIds, NEW A, A \subseteq PartsOf[d]
  PROVE  Freed(d, A) \in Nat
<1>1. IsFiniteSet(A)
  BY PartsFinite
<1>2. \A p \in A : Gain[d][p] \in Nat
  BY EngineAssumption
<1>. QED
  BY <1>1, <1>2, SumNat DEF Freed

\* So is the size of an item.
LEMMA SizeNat ==
  ASSUME NEW d \in ItemIds, NEW marks
  PROVE  Size(d, marks) \in Nat
<1>1. Freed(d, PartsOf[d] \ marks) \in Nat
  BY FreedNat
<1>2. Frame[d] \in Nat
  BY EngineAssumption
<1>. QED
  BY <1>1, <1>2 DEF Size, Freed

\* And that of a bundle.
LEMMA TokensNat ==
  ASSUME NEW b \in Bundles
  PROVE  Tokens(b) \in Nat
<1>. DEFINE f == [d \in DOMAIN b |-> Size(d, b[d])]
<1>1. DOMAIN b \subseteq ItemIds /\ IsFiniteSet(DOMAIN b)
  <2>1. DOMAIN b \subseteq ItemIds
    BY DEF Bundles
  <2>. QED
    BY <2>1, EngineAssumption, FS_Subset
<1>2. \A d \in DOMAIN b : f[d] \in Nat
  BY <1>1, SizeNat
<1>. HIDE DEF f
<1>3. SumFunctionOnSet(f, DOMAIN b) \in Nat
  BY <1>1, <1>2, SumNat
<1>4. DOMAIN f = DOMAIN b
  BY DEF f
<1>. QED
  BY <1>3, <1>4 DEF Tokens, SumFunction, f

-----------------------------------------------------------------------------
\* What the pruner left out of b was neither protected nor held a directive.
KeepsWhatMatters(b) ==
  /\ DOMAIN b \subseteq DOMAIN request.bundle
  /\ \A d \in DOMAIN request.bundle \ DOMAIN b : d \notin Protected /\ DirectiveIn[d] \subseteq Given(d)

\* A bundle that passes validation, is accepted, and lacks nothing that matters
\* is one the caller was promised (engine/index.ts:320-430).
LEMMA Acceptable ==
  ASSUME EngineTypeOK, Accepted, Passes(call.bundle), KeepsWhatMatters(call.bundle)
  PROVE  Promised([bundle |-> request.bundle, limit |-> request.limit, reversible |-> HasStore],
                  call.bundle, store)
<1>. DEFINE b == call.bundle
            req == [bundle |-> request.bundle, limit |-> request.limit, reversible |-> HasStore]
            left == Retention(req.bundle, b)
<1>1. 5 * left[1] >= 3 * left[2]
  BY DEF Passes, DriftPasses
<1>2. \A d \in DOMAIN b :
        /\ b[d] \cap DirectiveIn[d] \subseteq req.bundle[d]
        /\ b[d] # req.bundle[d] =>
             SymbolsOf(d, req.bundle[d]) # {} \/ MarkersOf(d, b[d]) # {}
        /\ d \notin Broken
  <2>. SUFFICES ASSUME NEW d \in DOMAIN b
       PROVE /\ b[d] \cap DirectiveIn[d] \subseteq req.bundle[d]
             /\ b[d] # req.bundle[d] =>
                  SymbolsOf(d, req.bundle[d]) # {} \/ MarkersOf(d, b[d]) # {}
             /\ d \notin Broken
    OBVIOUS
  <2>1. d \notin DirectiveLost(b) /\ d \notin Unwitnessed(b) /\ d \notin Broken
    BY DEF Passes, Failing
  <2>2. b[d] # req.bundle[d] =>
          SymbolsOf(d, req.bundle[d]) # {} \/ MarkersOf(d, b[d]) # {}
    BY <2>1 DEF Unwitnessed, Changed, Given
  <2>3. b[d] \cap DirectiveIn[d] \subseteq req.bundle[d]
    BY <2>1 DEF DirectiveLost, New, Given
  <2>. QED
    BY <2>1, <2>2, <2>3
<1>3. req.limit > 0 => Tokens(b) <= req.limit
  <2>1. HasLimit => ~ (Tokens(b) > request.limit)
    BY DEF Passes, OverBudget
  <2>2. Tokens(b) \in Nat /\ request.limit \in Nat
    BY TokensNat DEF EngineTypeOK, Calls, Requests
  <2>. QED
    BY <2>1, <2>2 DEF HasLimit
<1>4. req.reversible => Marked(b) \subseteq store
  BY DEF Accepted, Corrupted
<1>5. /\ DOMAIN b \subseteq DOMAIN req.bundle
      /\ \A d \in DOMAIN req.bundle \ DOMAIN b : d \notin Protected /\ DirectiveIn[d] \subseteq req.bundle[d]
  BY DEF KeepsWhatMatters, Given
<1>. QED
  BY <1>1, <1>2, <1>3, <1>4, <1>5 DEF Promised

\* A verdict is about the request and the bundle, and stands while they do.
LEMMA PassesStable ==
  ASSUME request' = request, NEW b, call'.bundle = b, Passes(b)
  PROVE  Passes(call.bundle)'
<1>1. Failing(call.bundle)' = Failing(b)
  BY DEF Failing, DirectiveLost, Unwitnessed, New, Changed, Given, SymbolsOf, MarkersOf
<1>2. DriftPasses(call.bundle)' <=> DriftPasses(b)
  BY DEF DriftPasses, Retention, Compared, Symbols, ContentMarkers, SymbolsOf, MarkersOf, Restricted
<1>3. OverBudget(call.bundle)' <=> OverBudget(b)
  BY DEF OverBudget, HasLimit, Tokens, Size
<1>. QED
  BY <1>1, <1>2, <1>3 DEF Passes

-----------------------------------------------------------------------------
(* The inductive invariant.                                                *)

\* Between two calls nothing is asked and nothing under way.
AtRest == Idle => call = NoCall /\ request = NoRequest

\* Before the pruner runs the bundle is the one that was asked about.
Unstaged ==
  call.step \in {"plan", "preserve", "prune"}
    => call.bundle = request.bundle /\ call.stageBundle = request.bundle

\* Neither the bundle nor the one a failing stage goes back to lacks anything
\* that matters.
MattersKept == KeepsWhatMatters(call.bundle) /\ KeepsWhatMatters(call.stageBundle)

\* A verdict is given once the stages are through, and is that of the bundle.
Judged == call.valid => call.step \in {"rehydrate", "repair", "gate"} /\ Passes(call.bundle)

\* The stage keeps count of the bundle it is changing.
Counted ==
  call.step = "hash" => call.tokens = Tokens(call.bundle) /\ call.visited \subseteq DOMAIN call.bundle

\* Every marker the bundle came with is still one.
Grown(b) == \A d \in DOMAIN b : Given(d) \subseteq b[d]

\* Only a store can turn a marker back into text.
MarkersStay == ~HasStore => Grown(call.bundle) /\ Grown(call.stageBundle)

\* The ledger knows of what the stages elided in the bundle, as of this turn.
OnRecord(b) ==
  \A d \in DOMAIN b : New(b, d) # {} => d \in DOMAIN records /\ records[d].elisionTurn = now

\* So it does from the time of the recording until the answer.
ElisionsOnRecord ==
  HasLedger /\ ~HasStore /\ call.step \in {"validate", "rehydrate", "repair", "gate"}
    => OnRecord(call.bundle)

\* The types alone are not inductive: that a count of tokens stays a natural needs
\* Counted, that an accepted bundle passes needs Judged, and so on.
EngineInv ==
  /\ EngineTypeOK
  /\ AtRest
  /\ Unstaged
  /\ MattersKept
  /\ Judged
  /\ Counted
  /\ MarkersStay
  /\ ElisionsOnRecord

-----------------------------------------------------------------------------
(* Bundles.                                                                *)

\* What a bundle is made of.
LEMMA BundleIs ==
  ASSUME NEW b \in Bundles
  PROVE  /\ DOMAIN b \subseteq ItemIds /\ IsFiniteSet(DOMAIN b)
         /\ b = [d \in DOMAIN b |-> b[d]] /\ \A d \in DOMAIN b : b[d] \subseteq PartIds
<1>1. /\ DOMAIN b \subseteq ItemIds
      /\ b = [d \in DOMAIN b |-> b[d]] /\ \A d \in DOMAIN b : b[d] \subseteq PartIds
  BY DEF Bundles
<1>. QED
  BY <1>1, EngineAssumption, FS_Subset

\* How to show that something is one.
LEMMA BundleIfFunction ==
  ASSUME NEW D, D \subseteq ItemIds, NEW b \in [D -> SUBSET PartIds]
  PROVE  b \in Bundles
BY DEF Bundles

\* The bundle of no items.
LEMMA EmptyIsBundle == Empty \in Bundles /\ DOMAIN Empty = {}
<1>1. Empty \in [{} -> SUBSET PartIds] /\ DOMAIN Empty = {}
  BY DEF Empty
<1>. QED
  BY <1>1, BundleIfFunction

\* A bundle without some of its items.
LEMMA RestrictedIsBundle ==
  ASSUME NEW b \in Bundles, NEW K, K \subseteq DOMAIN b
  PROVE  Restricted(b, K) \in Bundles /\ DOMAIN Restricted(b, K) = K
<1>1. K \subseteq ItemIds /\ Restricted(b, K) \in [K -> SUBSET PartIds]
  BY BundleIs DEF Restricted
<1>. QED
  BY <1>1, BundleIfFunction

\* A bundle some of whose markers were restored.
LEMMA RehydratedIsBundle ==
  ASSUME NEW b \in Bundles
  PROVE  Rehydrated(b) \in Bundles /\ DOMAIN Rehydrated(b) = DOMAIN b
<1>1. DOMAIN b \subseteq ItemIds /\ Rehydrated(b) \in [DOMAIN b -> SUBSET PartIds]
  BY BundleIs DEF Rehydrated
<1>. QED
  BY <1>1, BundleIfFunction

\* A bundle some of whose items are what they were.
LEMMA RevertedIsBundle ==
  ASSUME request.bundle \in Bundles, NEW b \in Bundles, DOMAIN b \subseteq DOMAIN request.bundle, NEW D
  PROVE  Reverted(b, D) \in Bundles /\ DOMAIN Reverted(b, D) = DOMAIN b
<1>1. \A d \in DOMAIN b : Given(d) \subseteq PartIds /\ b[d] \subseteq PartIds
  BY BundleIs DEF Given
<1>2. DOMAIN b \subseteq ItemIds /\ Reverted(b, D) \in [DOMAIN b -> SUBSET PartIds]
  BY <1>1, BundleIs DEF Reverted
<1>. QED
  BY <1>2, BundleIfFunction

\* The ceiling a budget resolves to is a natural.
LEMMA CeilingNat ==
  ASSUME request \in Requests, NEW b \in Bundles
  PROVE  Ceiling(b) \in Nat
<1>1. Tokens(b) \in Nat /\ request.limit \in Nat /\ request.ratio \in 0..10
  BY TokensNat DEF Requests
<1>2. Share(b) \in Nat
  <2>. DEFINE n == Tokens(b)
              m == 10 - request.ratio
  <2>1. n \in Nat /\ m \in Nat
    BY <1>1
  <2>. HIDE DEF n, m
  <2>2. n * m \in Nat
    BY <2>1
  <2>3. (n * m) \div 10 \in Nat
    BY <2>2
  <2>. QED
    BY <2>3 DEF Share, n, m
<1>. QED
  BY <1>1, <1>2 DEF Ceiling, Least

\* The stage chooses among the parts that are no markers yet.
LEMMA ChosenIsLeft ==
  ASSUME NEW d
  PROVE  Chosen(d) \subseteq PartsOf[d] \ call.bundle[d]
BY DEF Chosen, Trimmed

\* What an item weighs less for its markers is what the stage says it freed.
LEMMA TokensAfterElision ==
  ASSUME NEW b \in Bundles, NEW d \in DOMAIN b, NEW A, A \subseteq PartsOf[d] \ b[d]
  PROVE  LET c == [b EXCEPT ![d] = @ \cup A]
         IN c \in Bundles /\ DOMAIN c = DOMAIN b /\ Tokens(c) = Tokens(b) - Freed(d, A)
<1>. DEFINE c == [b EXCEPT ![d] = @ \cup A]
            f == [e \in DOMAIN b |-> Size(e, b[e])]
            g == [e \in DOMAIN b |-> Size(e, c[e])]
            R == DOMAIN b \ {d}
<1>1. d \in ItemIds /\ DOMAIN b \subseteq ItemIds /\ IsFiniteSet(DOMAIN b)
  BY BundleIs
<1>2. PartsOf[d] \subseteq PartIds
  BY <1>1, EngineAssumption
<1>3. c \in [DOMAIN b -> SUBSET PartIds]
  BY <1>1, <1>2, BundleIs
<1>4. c \in Bundles /\ DOMAIN c = DOMAIN b
  BY <1>1, <1>3, BundleIfFunction
<1>5. Size(d, b[d]) = Size(d, c[d]) + Freed(d, A)
  <2>. DEFINE P == PartsOf[d] \ b[d]
              Q == PartsOf[d] \ c[d]
  <2>1. c[d] = b[d] \cup A
    BY <1>3, BundleIs
  <2>2. A \subseteq P /\ Q = P \ A
    BY <2>1
  <2>3. IsFiniteSet(P) /\ \A p \in P : Gain[d][p] \in Nat
    BY <1>1, PartsFinite, EngineAssumption
  <2>. HIDE DEF P, Q, c
  <2>4. SumFunctionOnSet(Gain[d], P) = SumFunctionOnSet(Gain[d], A) + SumFunctionOnSet(Gain[d], Q)
    BY <2>2, <2>3, SumSubset
  <2>5. /\ SumFunctionOnSet(Gain[d], A) \in Nat /\ SumFunctionOnSet(Gain[d], Q) \in Nat
        /\ Frame[d] \in Nat
    <3>1. IsFiniteSet(A) /\ IsFiniteSet(Q) /\ Q \subseteq P
      BY <2>2, <2>3, FS_Subset
    <3>. QED
      BY <1>1, <2>2, <2>3, <3>1, SumNat, EngineAssumption
  <2>. QED
    BY <2>4, <2>5 DEF Size, Freed, P, Q
<1>6. f[d] = g[d] + Freed(d, A) /\ f[d] \in Nat /\ g[d] \in Nat /\ Freed(d, A) \in Nat
  BY <1>1, <1>5, SizeNat, FreedNat
<1>7. \A e \in DOMAIN b : f[e] \in Nat /\ g[e] \in Nat
  BY <1>1, SizeNat
<1>8. \A e \in R : f[e] = g[e]
  OBVIOUS
<1>9. DOMAIN f = DOMAIN b /\ DOMAIN g = DOMAIN b /\ g = [e \in DOMAIN c |-> Size(e, c[e])]
  BY <1>4
<1>10. IsFiniteSet(R)
  BY <1>1, FS_Subset
<1>. HIDE DEF f, g
<1>11. SumFunctionOnSet(f, R) = SumFunctionOnSet(g, R) /\ SumFunctionOnSet(g, R) \in Nat
  BY <1>7, <1>8, <1>10, SumAgree, SumNat
<1>12. /\ SumFunctionOnSet(f, DOMAIN b) = f[d] + SumFunctionOnSet(f, R)
       /\ SumFunctionOnSet(g, DOMAIN b) = g[d] + SumFunctionOnSet(g, R)
  BY <1>1, <1>7, SumRemove
<1>13. Tokens(b) = SumFunctionOnSet(f, DOMAIN b) /\ Tokens(c) = SumFunctionOnSet(g, DOMAIN b)
  BY <1>9 DEF Tokens, SumFunction, f
<1>. QED
  BY <1>4, <1>6, <1>11, <1>12, <1>13

-----------------------------------------------------------------------------
(* The ledger.                                                             *)

\* Records laid over a ledger make a ledger.
LEMMA OverlaidIsLedger ==
  ASSUME LedgerTypeOK, NEW new, DOMAIN new \subseteq Keys,
         \A k \in DOMAIN new : new[k] \in ElisionRecord /\ k \in {new[k].itemId, new[k].blockHash}
  PROVE  LET recs == Overlaid(records, new)
         IN /\ DOMAIN recs \subseteq Keys
            /\ \A k \in DOMAIN recs :
                 recs[k] \in ElisionRecord /\ k \in {recs[k].itemId, recs[k].blockHash}
BY DEF LedgerTypeOK, Overlaid

\* The elisions of a turn, under both of their keys.
LEMMA ElisionsAreRecords ==
  ASSUME NEW t \in Turns, NEW blockOf, DOMAIN blockOf \subseteq ItemIds,
         \A d \in DOMAIN blockOf : blockOf[d] \in Blocks
  PROVE  LET new == Elisions(blockOf, t)
         IN /\ DOMAIN new \subseteq Keys /\ DOMAIN blockOf \subseteq DOMAIN new
            /\ \A k \in DOMAIN new : /\ new[k] \in ElisionRecord
                                     /\ k \in {new[k].itemId, new[k].blockHash}
                                     /\ new[k].elisionTurn = t
<1>. DEFINE new == Elisions(blockOf, t)
            of(k) == CHOOSE d \in DOMAIN blockOf : k \in {d, blockOf[d]}
<1>1. DOMAIN new = DOMAIN blockOf \cup Range(blockOf) /\ \A k \in DOMAIN new : new[k] = Elision(of(k), blockOf[of(k)], t)
  BY DEF Elisions
<1>2. Range(blockOf) \subseteq Blocks
  BY DEF Range
<1>3. \A k \in DOMAIN new : of(k) \in DOMAIN blockOf /\ k \in {of(k), blockOf[of(k)]}
  <2>. SUFFICES ASSUME NEW k \in DOMAIN new PROVE \E d \in DOMAIN blockOf : k \in {d, blockOf[d]}
    OBVIOUS
  <2>1. k \in DOMAIN blockOf \/ \E d \in DOMAIN blockOf : k = blockOf[d]
    BY <1>1 DEF Range
  <2>. QED
    BY <2>1
<1>. HIDE DEF of
<1>4. \A k \in DOMAIN new : /\ new[k] \in ElisionRecord
                            /\ k \in {new[k].itemId, new[k].blockHash}
                            /\ new[k].elisionTurn = t
  <2>. SUFFICES ASSUME NEW k \in DOMAIN new
       PROVE /\ new[k] \in ElisionRecord
             /\ k \in {new[k].itemId, new[k].blockHash}
             /\ new[k].elisionTurn = t
    OBVIOUS
  <2>1. /\ of(k) \in ItemIds /\ blockOf[of(k)] \in Blocks /\ k \in {of(k), blockOf[of(k)]}
    BY <1>3
  <2>2. \A i \in ItemIds, h \in Blocks :
          /\ Elision(i, h, t) \in ElisionRecord /\ Elision(i, h, t).elisionTurn = t
          /\ Elision(i, h, t).itemId = i /\ Elision(i, h, t).blockHash = h
    <3>1. 1 \in 1..MaxRefs
      BY LedgerAssumption
    <3>. QED
      BY <3>1 DEF Elision, ElisionRecord
  <2>. HIDE DEF new
  <2>. QED
    BY <1>1, <2>1, <2>2
<1>. QED
  BY <1>1, <1>2, <1>4 DEF Keys

\* A ledger with the elisions of a turn in it holds each item, as of that turn.
LEMMA RecordedIsLedger ==
  ASSUME LedgerTypeOK, NEW blockOf, DOMAIN blockOf \subseteq ItemIds,
         \A d \in DOMAIN blockOf : blockOf[d] \in Blocks
  PROVE  LET recs == Recorded(records, blockOf, now)
         IN /\ DOMAIN recs \subseteq Keys
            /\ \A k \in DOMAIN recs :
                 recs[k] \in ElisionRecord /\ k \in {recs[k].itemId, recs[k].blockHash}
            /\ \A d \in DOMAIN blockOf : d \in DOMAIN recs /\ recs[d].elisionTurn = now
<1>. DEFINE new == Elisions(blockOf, now)
<1>1. /\ DOMAIN new \subseteq Keys /\ DOMAIN blockOf \subseteq DOMAIN new
      /\ \A k \in DOMAIN new : /\ new[k] \in ElisionRecord
                               /\ k \in {new[k].itemId, new[k].blockHash}
                               /\ new[k].elisionTurn = now
  BY ElisionsAreRecords DEF LedgerTypeOK
<1>. HIDE DEF new
<1>2. Recorded(records, blockOf, now) = Overlaid(records, new)
  BY DEF Recorded, new
<1>3. \A d \in DOMAIN blockOf : d \in DOMAIN Overlaid(records, new) /\ Overlaid(records, new)[d] = new[d]
  BY <1>1 DEF Overlaid
<1>. QED
  BY <1>1, <1>2, <1>3, OverlaidIsLedger

\* A ledger less some records has no new ones.
LEMMA RemovedIsLedger ==
  ASSUME LedgerTypeOK, NEW keys
  PROVE  LET recs == Removed(records, keys)
         IN /\ DOMAIN recs \subseteq DOMAIN records
            /\ \A k \in DOMAIN recs : recs[k] = records[k]
            /\ keys = {} => DOMAIN recs = DOMAIN records
BY DEF Removed, Restrict

\* An access leaves a ledger.
LEMMA UpdateAccessKeepsLedger ==
  ASSUME LedgerTypeOK, NEW k, UpdateAccess(k)
  PROVE  LedgerTypeOK'
<1>. DEFINE r == records[k]
            u == [r EXCEPT !.lastAccessedTurn = IF now > @ THEN now ELSE @, !.referenceCount = @ + 1]
<1>1. r \in ElisionRecord /\ r.referenceCount < MaxRefs /\ now \in Turns /\ r.referenceCount \in 1..MaxRefs
  BY DEF UpdateAccess, LedgerTypeOK, ElisionRecord
<1>. HIDE DEF r
<1>2. /\ u \in ElisionRecord /\ u.itemId = r.itemId /\ u.blockHash = r.blockHash
  <2>1. r.referenceCount + 1 \in 1..MaxRefs
    BY <1>1, LedgerAssumption
  <2>2. (IF now > r.lastAccessedTurn THEN now ELSE r.lastAccessedTurn) \in Turns
    BY <1>1 DEF ElisionRecord
  <2>. QED
    BY <1>1, <2>1, <2>2 DEF ElisionRecord
<1>. HIDE DEF u
<1>3. /\ DOMAIN Under(u) = {u.itemId, u.blockHash} /\ DOMAIN Under(u) \subseteq Keys
      /\ \A j \in DOMAIN Under(u) : Under(u)[j] = u
  BY <1>2 DEF Under, Keys, ElisionRecord
<1>4. records' = Overlaid(records, Under(u)) /\ now' = now
  BY DEF UpdateAccess, Accessed, u, r
<1>. QED
  BY <1>2, <1>3, <1>4, OverlaidIsLedger DEF LedgerTypeOK

-----------------------------------------------------------------------------
(* Steps of a call in progress.                                            *)

\* What a step of a call in progress owes the invariant, told of the new value c
\* of the call.
LEMMA StepKeeps ==
  ASSUME EngineInv, UNCHANGED <<host, request, result, calls, now>>,
         NEW c, call' = c, c \in Calls, c.step # "idle",
         store' \subseteq Texts, LedgerTypeOK',
         c.step \in {"plan", "preserve", "prune"} => c.bundle = request.bundle /\ c.stageBundle = request.bundle,
         KeepsWhatMatters(c.bundle), KeepsWhatMatters(c.stageBundle),
         c.valid => c.step \in {"rehydrate", "repair", "gate"} /\ Passes(c.bundle),
         c.step = "hash" => c.tokens = Tokens(c.bundle) /\ c.visited \subseteq DOMAIN c.bundle,
         ~HasStore => Grown(c.bundle) /\ Grown(c.stageBundle),
         HasLedger /\ ~HasStore /\ c.step \in {"validate", "rehydrate", "repair", "gate"}
           => \A d \in DOMAIN c.bundle :
                New(c.bundle, d) # {} => d \in DOMAIN records' /\ records'[d].elisionTurn = now
  PROVE  EngineInv'
<1>1. EngineTypeOK'
  BY DEF EngineInv, EngineTypeOK
<1>2. AtRest' /\ Unstaged'
  BY DEF AtRest, Idle, Unstaged
<1>3. MattersKept'
  BY DEF MattersKept, KeepsWhatMatters, Given
<1>4. Judged'
  BY PassesStable DEF Judged
<1>5. Counted'
  BY DEF Counted, Tokens, Size
<1>6. MarkersStay'
  BY DEF MarkersStay, HasStore, Grown, Given
<1>7. ElisionsOnRecord'
  BY DEF ElisionsOnRecord, HasLedger, HasStore, OnRecord, New, Given
<1>. QED
  BY <1>1, <1>2, <1>3, <1>4, <1>5, <1>6, <1>7 DEF EngineInv

\* The fields of the call and of the request are what they should be.
LEMMA CallFields ==
  ASSUME EngineInv
  PROVE  /\ call \in Calls /\ request \in Requests
         /\ call.bundle \in Bundles /\ call.stageBundle \in Bundles /\ request.bundle \in Bundles
         /\ call.visited \subseteq ItemIds /\ call.tokens \in Nat /\ call.ceiling \in Nat
         /\ store \subseteq Texts /\ LedgerTypeOK
BY DEF EngineInv, EngineTypeOK, Calls, Requests

\* The plan is made (engine/index.ts:123-137).
LEMMA PlanKeeps == ASSUME EngineInv, Plan PROVE EngineInv'
<1>. DEFINE c == [call EXCEPT !.step = FirstStep]
<1>1. call' = c /\ call.step = "plan" /\ UNCHANGED <<records, now, host, store, request, result, calls>>
  BY DEF Plan
<1>2. /\ c \in Calls /\ c.step = FirstStep /\ c.bundle = call.bundle
      /\ c.stageBundle = call.stageBundle /\ c.valid = call.valid
  BY CallFields DEF Calls, FirstStep, Steps
<1>3. c.step \in {"preserve", "record"}
  BY <1>2 DEF FirstStep
<1>4. LedgerTypeOK'
  BY <1>1, CallFields DEF LedgerTypeOK
<1>. HIDE DEF c
<1>. QED
  BY <1>1, <1>2, <1>3, <1>4, CallFields, StepKeeps DEF EngineInv, Unstaged, MattersKept, Judged, MarkersStay

\* A stage that leaves the bundle as it is.
LEMMA PassStageKeeps == ASSUME EngineInv, PassStage PROVE EngineInv'
<1>. DEFINE to == IF call.step = "preserve" THEN "prune" ELSE "record"
            c  == [call EXCEPT !.step = to]
<1>1. /\ call' = c /\ call.step \in {"preserve", "delta"}
      /\ UNCHANGED <<records, now, host, store, request, result, calls>>
  BY DEF PassStage
<1>2. /\ c \in Calls /\ c.step = to /\ c.bundle = call.bundle
      /\ c.stageBundle = call.stageBundle /\ c.valid = call.valid
  BY CallFields DEF Calls, Steps
<1>3. c.step \in {"prune", "record"} /\ (c.step = "prune" => call.step = "preserve")
  BY <1>2
<1>4. LedgerTypeOK'
  BY <1>1, CallFields DEF LedgerTypeOK
<1>. HIDE DEF c, to
<1>. QED
  BY <1>1, <1>2, <1>3, <1>4, CallFields, StepKeeps DEF EngineInv, Unstaged, MattersKept, Judged, MarkersStay

\* Items the pruner may leave out are neither protected nor hold a directive.
LEMMA PruneKeeps == ASSUME EngineInv, Prune PROVE EngineInv'
<1>1. PICK K \in SUBSET DOMAIN call.bundle :
        /\ IF Ceiling(call.bundle) = 0 THEN K = DOMAIN call.bundle ELSE Kept(K, Ceiling(call.bundle))
        /\ call' = Hashing(Restricted(call.bundle, K))
  BY DEF Prune
<1>. DEFINE b == Restricted(call.bundle, K)
            c == Hashing(b)
<1>2. /\ call.step = "prune" /\ UNCHANGED <<records, now, host, store, request, result, calls>>
      /\ call.bundle = request.bundle
  BY DEF Prune, EngineInv, Unstaged
<1>3. b \in Bundles /\ DOMAIN b = K /\ \A d \in K : b[d] = call.bundle[d]
  BY CallFields, RestrictedIsBundle DEF Restricted
<1>. HIDE DEF b
<1>4. Tokens(b) \in Nat /\ Ceiling(b) \in Nat
  BY <1>3, CallFields, TokensNat, CeilingNat
<1>5. /\ c \in Calls /\ c.step = "hash" /\ c.bundle = b /\ c.stageBundle = b
      /\ c.tokens = Tokens(b) /\ c.visited = {} /\ c.valid = call.valid
  BY <1>3, <1>4, CallFields DEF Hashing, Calls, Steps
<1>6. KeepsWhatMatters(b)
  <2>. SUFFICES ASSUME NEW d \in DOMAIN call.bundle \ K
       PROVE  d \notin Protected /\ DirectiveIn[d] \subseteq Given(d)
    BY <1>2, <1>3 DEF KeepsWhatMatters
  <2>1. ~Pinned(d)
    BY <1>1 DEF Kept
  <2>. QED
    BY <2>1 DEF Pinned
<1>7. Grown(b)
  BY <1>2, <1>3 DEF Grown, Given
<1>8. LedgerTypeOK' /\ ~call.valid
  BY <1>2, CallFields DEF LedgerTypeOK, EngineInv, Judged
<1>9. call' = c
  BY <1>1 DEF b
<1>. HIDE DEF c
<1>. QED
  BY <1>2, <1>5, <1>6, <1>7, <1>8, <1>9, CallFields, StepKeeps

\* The next item: the running count of tokens stays that of the bundle
\* (token-hashing.ts:424-493).
LEMMA HashItemKeeps == ASSUME EngineInv, HashItem PROVE EngineInv'
<1>. DEFINE d == Min(DOMAIN call.bundle \ call.visited)
            b == [call.bundle EXCEPT ![d] = @ \cup Chosen(d)]
            c == [call EXCEPT !.visited = @ \cup {d}, !.bundle[d] = @ \cup Chosen(d),
                              !.tokens = @ - Freed(d, Chosen(d))]
            e == [call EXCEPT !.visited = @ \cup {d}]
<1>1. /\ call.step = "hash" /\ UNCHANGED <<records, now, host, request, result, calls>>
      /\ call' = c \/ call' = e
      /\ store' = IF HasStore THEN store \cup ({d} \X Chosen(d)) ELSE store
  BY DEF HashItem
<1>2. d \in DOMAIN call.bundle
  <2>1. DOMAIN call.bundle \ call.visited # {} /\ DOMAIN call.bundle \subseteq ItemIds
    BY CallFields, BundleIs DEF HashItem, EngineInv, Counted
  <2>2. DOMAIN call.bundle \ call.visited \subseteq Nat
    BY <2>1, EngineAssumption
  <2>. QED
    BY <2>1, <2>2, LeastNatural DEF Min
<1>. HIDE DEF d
<1>3. d \in ItemIds
  BY <1>2, CallFields, BundleIs
<1>4. b \in Bundles /\ DOMAIN b = DOMAIN call.bundle /\ Tokens(b) = Tokens(call.bundle) - Freed(d, Chosen(d))
  BY <1>2, CallFields, ChosenIsLeft, TokensAfterElision
<1>5. \A x \in DOMAIN call.bundle : call.bundle[x] \subseteq b[x]
  BY CallFields, BundleIs
<1>6. c = [call EXCEPT !.visited = @ \cup {d}, !.bundle = b, !.tokens = @ - Freed(d, Chosen(d))]
  OBVIOUS
<1>. HIDE DEF b, c
<1>7. call.tokens = Tokens(call.bundle) /\ call.visited \subseteq DOMAIN call.bundle
  BY <1>1 DEF EngineInv, Counted
<1>8. Tokens(b) \in Nat
  BY <1>4, TokensNat
<1>9. /\ c \in Calls /\ c.step = "hash" /\ c.bundle = b /\ c.stageBundle = call.stageBundle
      /\ c.tokens = Tokens(b) /\ c.visited = call.visited \cup {d} /\ c.valid = call.valid
  <2>1. call.tokens - Freed(d, Chosen(d)) = Tokens(b)
    BY <1>4, <1>7
  <2>2. c = [call EXCEPT !.visited = call.visited \cup {d}, !.bundle = b, !.tokens = Tokens(b)]
    BY <1>6, <2>1
  <2>3. call \in Calls /\ b \in Bundles /\ call.visited \cup {d} \in SUBSET ItemIds
    BY <1>1, <1>3, <1>4, CallFields DEF Calls
  <2>. QED
    BY <1>1, <1>8, <2>2, <2>3 DEF Calls
<1>10. /\ e \in Calls /\ e.step = "hash" /\ e.bundle = call.bundle /\ e.stageBundle = call.stageBundle
       /\ e.tokens = call.tokens /\ e.visited = call.visited \cup {d} /\ e.valid = call.valid
  BY <1>1, <1>3, CallFields DEF Calls
<1>. HIDE DEF e
<1>11. KeepsWhatMatters(call.bundle) /\ KeepsWhatMatters(call.stageBundle) /\ KeepsWhatMatters(b)
  BY <1>4 DEF EngineInv, MattersKept, KeepsWhatMatters
<1>12. ~HasStore => Grown(call.bundle) /\ Grown(call.stageBundle) /\ Grown(b)
  BY <1>4, <1>5 DEF EngineInv, MarkersStay, Grown
<1>13. LedgerTypeOK' /\ ~call.valid
  BY <1>1, CallFields DEF LedgerTypeOK, EngineInv, Judged
<1>14. store' \subseteq Texts
  <2>1. {d} \X Chosen(d) \subseteq Texts
    <3>1. Chosen(d) \subseteq PartsOf[d]
      BY ChosenIsLeft
    <3>. QED
      BY <1>3, <3>1 DEF Texts
  <2>. QED
    BY <1>1, <2>1, CallFields
<1>15. ASSUME call' = c PROVE EngineInv'
  BY <1>1, <1>2, <1>4, <1>7, <1>9, <1>11, <1>12, <1>13, <1>14, <1>15, StepKeeps
<1>16. ASSUME call' = e PROVE EngineInv'
  BY <1>1, <1>2, <1>7, <1>10, <1>11, <1>12, <1>13, <1>14, <1>16, StepKeeps
<1>. QED
  BY <1>1, <1>15, <1>16

\* The hashing stage is through.
LEMMA EndHashingKeeps == ASSUME EngineInv, EndHashing PROVE EngineInv'
<1>. DEFINE c == [call EXCEPT !.step = "delta", !.stageBundle = call.bundle]
<1>1. call' = c /\ call.step = "hash" /\ UNCHANGED <<records, now, host, store, request, result, calls>>
  BY DEF EndHashing
<1>2. /\ c \in Calls /\ c.step = "delta" /\ c.bundle = call.bundle
      /\ c.stageBundle = call.bundle /\ c.valid = call.valid
  BY CallFields DEF Calls, Steps
<1>3. LedgerTypeOK'
  BY <1>1, CallFields DEF LedgerTypeOK
<1>. HIDE DEF c
<1>. QED
  BY <1>1, <1>2, <1>3, CallFields, StepKeeps DEF EngineInv, MattersKept, Judged, MarkersStay

\* A stage fails, and the bundle is what it was before (executor.ts).
LEMMA FailStageKeeps == ASSUME EngineInv, FailStage PROVE EngineInv'
<1>. DEFINE c == [call EXCEPT !.step = "record", !.bundle = call.stageBundle, !.stageFailed = TRUE]
<1>1. /\ call' = c /\ call.step \in {"preserve", "prune", "hash", "delta"}
      /\ UNCHANGED <<records, now, host, store, request, result, calls>>
  BY DEF FailStage
<1>2. /\ c \in Calls /\ c.step = "record" /\ c.bundle = call.stageBundle
      /\ c.stageBundle = call.stageBundle /\ c.valid = call.valid
  BY CallFields DEF Calls, Steps
<1>3. LedgerTypeOK'
  BY <1>1, CallFields DEF LedgerTypeOK
<1>. HIDE DEF c
<1>. QED
  BY <1>1, <1>2, <1>3, CallFields, StepKeeps DEF EngineInv, MattersKept, Judged, MarkersStay

\* What the ledger is told of an item is a block hash.
LEMMA BlockIsHash == ASSUME EngineInv, NEW d \in DOMAIN call.bundle PROVE BlockOf(d) \in Blocks
<1>1. d \in ItemIds /\ New(call.bundle, d) \subseteq PartIds /\ IsFiniteSet(PartIds)
  BY CallFields, BundleIs, EngineAssumption DEF New
<1>2. Cardinality(New(call.bundle, d)) \in 0..Cardinality(PartIds) /\ 0 \in 0..Cardinality(PartIds)
  BY <1>1, FS_Subset, FS_CardinalityType
<1>3. \A n \in 0..Cardinality(PartIds) : <<d, n>> \in DOMAIN BlockHash
  BY <1>1, BlocksAssumption
<1>. QED
  BY <1>2, <1>3, BlocksAssumption DEF BlockOf

\* The elisions are recorded (engine/index.ts:177-200).
LEMMA RecordKeeps == ASSUME EngineInv, Record PROVE EngineInv'
<1>. DEFINE elided == {d \in DOMAIN call.bundle : New(call.bundle, d) # {}}
            blockOf == [d \in elided |-> BlockOf(d)]
            c == [call EXCEPT !.step = "validate"]
<1>1. /\ call' = c /\ call.step = "record" /\ UNCHANGED <<now, host, store, request, result, calls>>
      /\ records' = IF HasLedger THEN Recorded(records, blockOf, now) ELSE records
  BY DEF Record
<1>2. /\ c \in Calls /\ c.step = "validate" /\ c.bundle = call.bundle
      /\ c.stageBundle = call.stageBundle /\ c.valid = call.valid
  BY CallFields DEF Calls, Steps
<1>. HIDE DEF c
<1>3. DOMAIN blockOf \subseteq ItemIds /\ \A d \in DOMAIN blockOf : blockOf[d] \in Blocks
  BY CallFields, BundleIs, BlockIsHash
<1>4. LedgerTypeOK' /\ (HasLedger => \A d \in elided : d \in DOMAIN records' /\ records'[d].elisionTurn = now)
  <2>1. DOMAIN blockOf = elided
    OBVIOUS
  <2>. HIDE DEF elided, blockOf
  <2>2. CASE HasLedger
    BY <1>1, <1>3, <2>1, <2>2, CallFields, RecordedIsLedger DEF LedgerTypeOK
  <2>3. CASE ~HasLedger
    BY <1>1, <2>3, CallFields DEF LedgerTypeOK
  <2>. QED
    BY <2>2, <2>3
<1>. QED
  BY <1>1, <1>2, <1>4, CallFields, StepKeeps DEF EngineInv, MattersKept, Judged, MarkersStay

\* The verdict is that of the bundle.
LEMMA ValidateKeeps == ASSUME EngineInv, Validate PROVE EngineInv'
<1>. DEFINE ok == Passes(call.bundle)
            c  == [call EXCEPT !.step = "rehydrate", !.valid = ok]
<1>1. call' = c /\ call.step = "validate" /\ UNCHANGED <<records, now, host, store, request, result, calls>>
  BY DEF Validate
<1>2. ok \in BOOLEAN
  BY DEF Passes
<1>. HIDE DEF ok
<1>3. /\ c \in Calls /\ c.step = "rehydrate" /\ c.bundle = call.bundle
      /\ c.stageBundle = call.stageBundle /\ c.valid = ok
  BY <1>2, CallFields DEF Calls, Steps
<1>4. LedgerTypeOK'
  BY <1>1, CallFields DEF LedgerTypeOK
<1>. HIDE DEF c
<1>5. c.valid => Passes(c.bundle)
  BY <1>3 DEF ok
<1>6. HasLedger /\ ~HasStore
        => \A d \in DOMAIN c.bundle : New(c.bundle, d) # {} => d \in DOMAIN records' /\ records'[d].elisionTurn = now
  BY <1>1, <1>3 DEF EngineInv, ElisionsOnRecord, OnRecord
<1>. QED
  BY <1>1, <1>3, <1>4, <1>5, <1>6, CallFields, StepKeeps DEF EngineInv, MattersKept, MarkersStay

\* Without a store nothing is restored.
LEMMA NothingToRestore ==
  ASSUME ~HasStore, NEW b \in Bundles
  PROVE  Rehydrated(b) = b /\ RehydratedItems(b) = {}
<1>1. Rehydrated(b) = b
  BY BundleIs DEF Rehydrated
<1>. QED
  BY <1>1 DEF RehydratedItems

\* Restoring: the bundle is replaced only by one that passes, and where there is
\* no store nothing leaves the ledger.
LEMMA RehydrateKeeps == ASSUME EngineInv, Rehydrate PROVE EngineInv'
<1>. DEFINE b == Rehydrated(call.bundle)
            adopted == b # call.bundle /\ Passes(b)
            try == (DebtExceeded(call.bundle) \/ ~call.valid \/ Trust < MinConfidence) /\ ~call.stageFailed
            to == IF try /\ adopted THEN b ELSE call.bundle
            ok == call.valid \/ (try /\ adopted)
            c == [call EXCEPT !.step = "repair", !.bundle = to, !.valid = ok]
<1>1. /\ call.step = "rehydrate" /\ UNCHANGED <<now, host, store, request, result, calls>>
      /\ records' \in {records, Removed(records, RehydratedItems(call.bundle))}
  BY DEF Rehydrate
<1>2. call' = c
  <2>1. call.bundle = [call EXCEPT !.step = "repair"].bundle /\ call.valid \in BOOLEAN
    BY CallFields DEF Calls
  <2>2. CASE try
    BY <2>1, <2>2 DEF Rehydrate
  <2>3. CASE ~try
    <3>1. call' = [call EXCEPT !.step = "repair"]
      BY <2>3 DEF Rehydrate
    <3>2. to = call.bundle /\ ok = call.valid
      BY <2>1, <2>3
    <3>. HIDE DEF to, ok
    <3>. QED
      BY <3>1, <3>2, CallFields DEF Calls
  <2>. QED
    BY <2>2, <2>3
<1>3. b \in Bundles /\ DOMAIN b = DOMAIN call.bundle
  BY CallFields, RehydratedIsBundle
<1>4. /\ to \in Bundles /\ DOMAIN to = DOMAIN call.bundle
      /\ ok \in BOOLEAN /\ (ok => Passes(to))
  <2>. HIDE DEF b, try
  <2>1. call.valid \in BOOLEAN /\ (call.valid => Passes(call.bundle))
    BY CallFields DEF Calls, EngineInv, Judged
  <2>. QED
    BY <1>3, <2>1, CallFields DEF Passes
<1>5. ~HasStore => to = call.bundle
  BY CallFields, NothingToRestore
<1>6. LedgerTypeOK' /\ (~HasStore => DOMAIN records' = DOMAIN records /\ \A k \in DOMAIN records : records'[k] = records[k])
  <2>1. CASE records' = records
    BY <1>1, <2>1, CallFields DEF LedgerTypeOK
  <2>2. CASE records' = Removed(records, RehydratedItems(call.bundle))
    <3>1. ~HasStore => RehydratedItems(call.bundle) = {}
      BY CallFields, NothingToRestore
    <3>2. /\ DOMAIN records' \subseteq DOMAIN records
          /\ \A k \in DOMAIN records' : records'[k] = records[k]
          /\ ~HasStore => DOMAIN records' = DOMAIN records
      BY <2>2, <3>1, CallFields, RemovedIsLedger
    <3>. QED
      BY <1>1, <3>2, CallFields DEF LedgerTypeOK
  <2>. QED
    BY <1>1, <2>1, <2>2
<1>. HIDE DEF to, ok
<1>7. /\ c \in Calls /\ c.step = "repair" /\ c.bundle = to
      /\ c.stageBundle = call.stageBundle /\ c.valid = ok
  BY <1>4, CallFields DEF Calls, Steps
<1>. HIDE DEF c
<1>8. KeepsWhatMatters(to) /\ KeepsWhatMatters(call.stageBundle)
  BY <1>4 DEF EngineInv, MattersKept, KeepsWhatMatters
<1>9. ~HasStore => Grown(to) /\ Grown(call.stageBundle)
  BY <1>5 DEF EngineInv, MarkersStay
<1>10. HasLedger /\ ~HasStore
         => \A d \in DOMAIN to : New(to, d) # {} => d \in DOMAIN records' /\ records'[d].elisionTurn = now
  BY <1>1, <1>5, <1>6 DEF EngineInv, ElisionsOnRecord, OnRecord
<1>. QED
  BY <1>1, <1>2, <1>4, <1>6, <1>7, <1>8, <1>9, <1>10, CallFields, StepKeeps

\* Reverting: an item is what it was or what it has become.
LEMMA RepairKeeps == ASSUME EngineInv, Repair PROVE EngineInv'
<1>. DEFINE b == Reverted(call.bundle, Failing(call.bundle))
            adopted == ~call.valid /\ ~call.stageFailed /\ Repairable(call.bundle) /\ Passes(b)
            to == IF adopted THEN b ELSE call.bundle
            ok == call.valid \/ adopted
            c == [call EXCEPT !.step = "gate", !.bundle = to, !.valid = ok]
<1>1. call' = c /\ call.step = "repair" /\ UNCHANGED <<records, now, host, store, request, result, calls>>
  BY DEF Repair
<1>2. b \in Bundles /\ DOMAIN b = DOMAIN call.bundle
  BY CallFields, RevertedIsBundle DEF EngineInv, MattersKept, KeepsWhatMatters
<1>3. \A d \in DOMAIN call.bundle : b[d] = Given(d) \/ b[d] = call.bundle[d]
  BY DEF Reverted
<1>. HIDE DEF b
<1>4. /\ to \in Bundles /\ DOMAIN to = DOMAIN call.bundle
      /\ ok \in BOOLEAN /\ (ok => Passes(to))
  <2>1. call.valid \in BOOLEAN /\ (call.valid => Passes(call.bundle))
    BY <1>1, CallFields DEF Calls, EngineInv, Judged
  <2>. QED
    BY <1>2, <2>1, CallFields DEF Passes
<1>5. \A d \in DOMAIN to : to[d] = Given(d) \/ to[d] = call.bundle[d]
  BY <1>3, <1>4
<1>. HIDE DEF to, ok
<1>6. /\ c \in Calls /\ c.step = "gate" /\ c.bundle = to
      /\ c.stageBundle = call.stageBundle /\ c.valid = ok
  BY <1>4, CallFields DEF Calls, Steps
<1>. HIDE DEF c
<1>7. KeepsWhatMatters(to) /\ KeepsWhatMatters(call.stageBundle) /\ LedgerTypeOK'
  BY <1>1, <1>4, CallFields DEF EngineInv, MattersKept, KeepsWhatMatters, LedgerTypeOK
<1>8. ~HasStore => Grown(to) /\ Grown(call.stageBundle)
  BY <1>4, <1>5 DEF EngineInv, MarkersStay, Grown
<1>9. HasLedger /\ ~HasStore
        => \A d \in DOMAIN to : New(to, d) # {} => d \in DOMAIN records' /\ records'[d].elisionTurn = now
  BY <1>1, <1>4, <1>5 DEF EngineInv, ElisionsOnRecord, OnRecord, New
<1>. QED
  BY <1>1, <1>4, <1>6, <1>7, <1>8, <1>9, CallFields, StepKeeps

-----------------------------------------------------------------------------
(* Between two calls.                                                      *)

\* The call that is none.
LEMMA NoCallIs ==
  /\ NoCall \in Calls /\ NoCall.step = "idle" /\ ~NoCall.valid
  /\ NoCall.bundle = Empty /\ NoCall.stageBundle = Empty
  /\ NoRequest \in Requests /\ NoRequest.bundle = Empty
<1>1. NoRequest \in Requests /\ NoRequest.bundle = Empty
  BY EmptyIsBundle DEF NoRequest, Requests
<1>2. /\ Started(NoRequest) \in Calls /\ Started(NoRequest).bundle = Empty
      /\ Started(NoRequest).stageBundle = Empty /\ ~Started(NoRequest).valid
  BY <1>1, EmptyIsBundle DEF Started, Calls, Steps
<1>3. /\ NoCall \in Calls /\ NoCall.step = "idle" /\ ~NoCall.valid
      /\ NoCall.bundle = Empty /\ NoCall.stageBundle = Empty
  BY <1>2 DEF NoCall, Calls, Steps
<1>. QED
  BY <1>1, <1>3

\* With no call in progress the invariant asks for types alone.
LEMMA RestIsInvariant ==
  EngineTypeOK /\ call = NoCall /\ request = NoRequest => EngineInv
<1>. SUFFICES ASSUME EngineTypeOK, call = NoCall, request = NoRequest PROVE EngineInv
  OBVIOUS
<1>1. /\ call.step = "idle" /\ ~call.valid /\ call.bundle = Empty /\ call.stageBundle = Empty
      /\ request.bundle = Empty
  BY NoCallIs
<1>2. DOMAIN Empty = {}
  BY EmptyIsBundle
<1>3. AtRest
  BY DEF AtRest
<1>4. Unstaged /\ MattersKept /\ Judged /\ Counted /\ MarkersStay /\ ElisionsOnRecord
  BY <1>1, <1>2 DEF Unstaged, MattersKept, KeepsWhatMatters, Judged, Counted, MarkersStay, Grown, ElisionsOnRecord
<1>. QED
  BY <1>3, <1>4 DEF EngineInv

\* An answer.
LEMMA AnsweredKeeps ==
  ASSUME EngineInv, NEW b \in Bundles, NEW f \in BOOLEAN, Answered(b, f)
  PROVE  EngineInv'
<1>1. EngineTypeOK'
  BY NoCallIs DEF Answered, EngineInv, EngineTypeOK, LedgerTypeOK
<1>2. call' = NoCall /\ request' = NoRequest
  BY DEF Answered
<1>3. (call = NoCall /\ request = NoRequest)'
  BY <1>2 DEF NoCall, NoRequest, Started, Empty
<1>. QED
  BY <1>1, <1>3, RestIsInvariant, PTL

\* The gate hands back the bundle or the input.
LEMMA GateKeeps == ASSUME EngineInv, Gate PROVE EngineInv'
<1>. QED
  BY CallFields, AnsweredKeeps DEF Gate

\* An exception hands back the input.
LEMMA FatalKeeps == ASSUME EngineInv, Fatal PROVE EngineInv'
<1>. QED
  BY CallFields, AnsweredKeeps DEF Fatal

\* A call begins.
LEMMA AskKeeps ==
  ASSUME EngineInv, NEW req \in Requests, Ask(req)
  PROVE  EngineInv'
<1>1. /\ Idle /\ request' = req /\ call' = Started(req)
      /\ UNCHANGED <<records, now, host, store, result>>
      /\ calls' \in 0..MaxCalls
  BY EngineAssumption DEF Ask, EngineInv, EngineTypeOK
<1>2. /\ Started(req) \in Calls /\ Started(req).step = "plan" /\ ~Started(req).valid
      /\ Started(req).bundle = req.bundle /\ Started(req).stageBundle = req.bundle
      /\ req.bundle \in Bundles
  BY DEF Started, Requests, Calls, Steps
<1>. HIDE DEF Started
<1>3. EngineTypeOK'
  BY <1>1, <1>2 DEF EngineInv, EngineTypeOK, LedgerTypeOK
<1>4. AtRest' /\ Unstaged' /\ Judged' /\ Counted' /\ ElisionsOnRecord'
  BY <1>1, <1>2 DEF AtRest, Idle, Unstaged, Judged, Counted, ElisionsOnRecord
<1>5. MattersKept' /\ MarkersStay'
  BY <1>1, <1>2 DEF MattersKept, KeepsWhatMatters, MarkersStay, Grown, Given
<1>. QED
  BY <1>3, <1>4, <1>5 DEF EngineInv

\* What a budget is made of.
LEMMA BudgetFields ==
  ASSUME NEW budget \in Budgets
  PROVE  budget[1] \in Nat /\ budget[2] \in 0..10
BY EngineAssumption

\* Whole items make a request.
LEMMA FreshIsRequest ==
  ASSUME NEW budget \in Budgets, NEW D \in Asked, NEW lossy \in BOOLEAN
  PROVE  [bundle |-> [d \in D |-> {}], limit |-> budget[1], ratio |-> budget[2], lossy |-> lossy] \in Requests
<1>. DEFINE b == [d \in D |-> {}]
<1>1. D \subseteq ItemIds /\ b \in [D -> SUBSET PartIds]
  BY EngineAssumption
<1>2. b \in Bundles
  BY <1>1, BundleIfFunction
<1>. QED
  BY <1>2, BudgetFields DEF Requests

\* So does the last answer.
LEMMA AgainIsRequest ==
  ASSUME EngineInv, NEW budget \in Budgets
  PROVE  [bundle |-> result.bundle, limit |-> budget[1], ratio |-> budget[2], lossy |-> FALSE] \in Requests
<1>1. result.bundle \in Bundles
  BY DEF EngineInv, EngineTypeOK
<1>. QED
  BY <1>1, BudgetFields DEF Requests

\* The host announces a turn, tells of an access, or is started anew.
LEMMA HostKeeps ==
  ASSUME EngineInv, HostTurn \/ HostAccess \/ HostRestart
  PROVE  EngineInv'
<1>1. call = NoCall /\ request = NoRequest /\ UNCHANGED <<host, request, call, result>>
  BY DEF HostTurn, HostAccess, HostRestart, EngineInv, AtRest
<1>2. LedgerTypeOK' /\ store' \subseteq Texts /\ calls' \in 0..MaxCalls
  <2>1. ASSUME HostTurn PROVE LedgerTypeOK' /\ store' \subseteq Texts /\ calls' \in 0..MaxCalls
    BY <2>1 DEF HostTurn, NewTurn, EngineInv, EngineTypeOK, LedgerTypeOK
  <2>2. ASSUME HostAccess PROVE LedgerTypeOK' /\ store' \subseteq Texts /\ calls' \in 0..MaxCalls
    BY <2>2, UpdateAccessKeepsLedger DEF HostAccess, EngineInv, EngineTypeOK
  <2>3. ASSUME HostRestart PROVE LedgerTypeOK' /\ store' \subseteq Texts /\ calls' \in 0..MaxCalls
    BY <2>3, EmptyIsBundle, LedgerAssumption, EngineAssumption DEF HostRestart, LedgerTypeOK
  <2>. QED
    BY <2>1, <2>2, <2>3
<1>3. EngineTypeOK'
  BY <1>1, <1>2 DEF EngineInv, EngineTypeOK
<1>4. (call = NoCall /\ request = NoRequest)'
  BY <1>1 DEF NoCall, NoRequest, Started, Empty
<1>. QED
  BY <1>3, <1>4, RestIsInvariant, PTL

-----------------------------------------------------------------------------
(* The invariant holds throughout.                                         *)

\* The invariant holds initially.
LEMMA InitHolds == EngineInit => EngineInv
<1>. SUFFICES ASSUME EngineInit PROVE EngineInv
  OBVIOUS
<1>1. LedgerTypeOK
  BY LedgerAssumption DEF EngineInit, LedgerInit, LedgerTypeOK
<1>2. EngineTypeOK
  BY <1>1, NoCallIs, EmptyIsBundle, EngineAssumption DEF EngineInit, EngineTypeOK
<1>. QED
  BY <1>2, RestIsInvariant DEF EngineInit

\* It holds where nothing changes.
LEMMA StutterKeeps == ASSUME EngineInv, UNCHANGED engineVars PROVE EngineInv'
<1>1. EngineTypeOK' /\ AtRest' /\ Unstaged' /\ MattersKept' /\ Counted' /\ MarkersStay' /\ ElisionsOnRecord'
  BY DEF EngineInv, engineVars, EngineTypeOK, LedgerTypeOK, AtRest, Idle, Unstaged, MattersKept,
         KeepsWhatMatters, Given, Counted, Tokens, Size, MarkersStay, HasStore, Grown,
         ElisionsOnRecord, HasLedger, OnRecord, New
<1>2. Judged'
  BY PassesStable DEF EngineInv, engineVars, Judged
<1>. QED
  BY <1>1, <1>2 DEF EngineInv

\* Every step keeps it.
LEMMA NextKeeps == EngineInv /\ [EngineNext]_engineVars => EngineInv'
<1>. SUFFICES ASSUME EngineInv, [EngineNext]_engineVars PROVE EngineInv'
  OBVIOUS
<1>1. ASSUME Working PROVE EngineInv'
  BY <1>1, PlanKeeps, PassStageKeeps, PruneKeeps, HashItemKeeps, EndHashingKeeps, FailStageKeeps,
     RecordKeeps, ValidateKeeps, RehydrateKeeps, RepairKeeps, GateKeeps, FatalKeeps DEF Working
<1>2. ASSUME UNCHANGED engineVars PROVE EngineInv'
  BY <1>2, StutterKeeps
<1>3. ASSUME NEW budget \in Budgets,
             (\E D \in Asked : \E lossy \in BOOLEAN : AskFresh(D, budget, lossy)) \/ AskAgain(budget)
      PROVE  EngineInv'
  BY <1>3, FreshIsRequest, AgainIsRequest, AskKeeps DEF AskFresh, AskAgain
<1>. QED
  BY <1>1, <1>2, <1>3, HostKeeps DEF EngineNext

\* Types, and what ties the call in progress to the request, the ledger and the
\* verdict, hold throughout (engine/index.ts:113-490).
THEOREM EngineInvariant == EngineSpec => []EngineInv
BY InitHolds, NextKeeps, PTL DEF EngineSpec

-----------------------------------------------------------------------------
(* The engine keeps its promise.                                           *)

\* The request as the promise sees it.
AskedFor == [bundle |-> request.bundle, limit |-> request.limit, reversible |-> HasStore]

\* What the promise makes of a request.
LEMMA AskedForIs ==
  ASSUME request \in Requests
  PROVE  AskedFor \in [bundle : Bundles, limit : Nat, reversible : BOOLEAN]
BY DEF AskedFor, Requests, HasStore

\* The engine starts as the optimizer does.
LEMMA InitIsPromised == EngineInit => Promise!OptimizerInit
<1>. SUFFICES ASSUME EngineInit PROVE Promise!OptimizerInit
  OBVIOUS
<1>1. request \in Requests /\ request.bundle = Empty /\ result.bundle = Empty /\ store = {} /\ Idle
  BY NoCallIs DEF EngineInit, Idle
<1>2. AskedFor \in [bundle : Bundles, limit : Nat, reversible : BOOLEAN] /\ AskedFor.bundle = Empty
  BY <1>1, AskedForIs DEF AskedFor
<1>. QED
  BY <1>1, <1>2 DEF Promise!OptimizerInit, Promise!Unasked, AskedFor

\* Whatever a call does before it answers, the optimizer sees at most its store
\* grow.
LEMMA WorkIsPromised ==
  ASSUME EngineInv,
         Plan \/ PassStage \/ Prune \/ HashItem \/ EndHashing \/ FailStage \/ Record \/ Validate \/ Rehydrate \/ Repair
  PROVE  Promise!Keep
<1>1. /\ ~Idle /\ UNCHANGED <<host, request, result>> /\ store \subseteq store'
  BY DEF Plan, PassStage, Prune, HashItem, EndHashing, FailStage, Record, Validate, Rehydrate, Repair, Idle
<1>2. ~Idle'
  <2>1. call \in Calls /\ call'.step \in {"preserve", "prune", "hash", "delta", "record", "validate", "rehydrate", "repair", "gate"}
    <3>1. call \in Calls
      BY CallFields
    <3>2. CASE Plan \/ PassStage \/ EndHashing \/ FailStage \/ Record \/ Validate
      BY <3>1, <3>2 DEF Plan, PassStage, EndHashing, FailStage, Record, Validate, Calls, FirstStep
    <3>3. CASE Prune \/ HashItem
      BY <3>1, <3>3 DEF Prune, HashItem, Hashing, Calls
    <3>4. CASE Rehydrate \/ Repair
      BY <3>1, <3>4 DEF Rehydrate, Repair, Calls
    <3>. QED
      BY <3>1, <3>2, <3>3, <3>4
  <2>. QED
    BY <2>1 DEF Idle
<1>3. HasStore' = HasStore
  BY <1>1 DEF HasStore
<1>. QED
  BY <1>1, <1>2, <1>3 DEF Promise!Keep

\* What is handed back is the input or a bundle as promised.
LEMMA AnswerIsPromised ==
  ASSUME EngineInv, Gate \/ Fatal
  PROVE  Promise!Answer
<1>1. ~Idle
  BY DEF Gate, Fatal, Idle
<1>2. PICK b \in Bundles, f \in BOOLEAN :
        Answered(b, f) /\ (b = request.bundle \/ Promised(AskedFor, b, store))
  <2>1. CASE Accepted /\ Gate
    <3>1. Passes(call.bundle) /\ KeepsWhatMatters(call.bundle) /\ EngineTypeOK
      BY <2>1 DEF Accepted, EngineInv, Judged, MattersKept
    <3>2. Promised(AskedFor, call.bundle, store)
      BY <2>1, <3>1, Acceptable DEF AskedFor
    <3>. QED
      BY <2>1, <3>2, CallFields DEF Gate
  <2>2. CASE Fatal \/ (Gate /\ ~Accepted)
    BY <2>2, CallFields DEF Gate, Fatal
  <2>. QED
    BY <2>1, <2>2
<1>3. /\ result'.bundle = b /\ UNCHANGED store /\ HasStore' = HasStore
      /\ request' = NoRequest /\ call' = NoCall
  BY <1>2 DEF Answered, HasStore
<1>4. /\ request'.bundle = Empty /\ request'.limit \in Nat /\ Idle'
  BY <1>3, NoCallIs DEF Requests, Idle
<1>5. Empty \in Bundles /\ HasStore' \in BOOLEAN
  BY <1>3, EmptyIsBundle DEF HasStore
<1>. QED
  BY <1>1, <1>2, <1>3, <1>4, <1>5 DEF Promise!Answer, Promise!Unasked, AskedFor

\* A call of the engine is a call of the optimizer.
LEMMA AskIsPromised ==
  ASSUME EngineInv, NEW req \in Requests, Ask(req)
  PROVE  Promise!Ask
<1>1. Idle /\ request' = req /\ call' = Started(req) /\ UNCHANGED <<store, result, host>>
  BY DEF Ask
<1>2. ~Idle' /\ HasStore' \in BOOLEAN
  BY <1>1 DEF Started, Idle, HasStore
<1>. QED
  BY <1>1, <1>2 DEF Promise!Ask, Requests

\* Every step of the engine is a step of the optimizer or none.
LEMMA StepIsPromised == EngineInv /\ [EngineNext]_engineVars => [Promise!OptimizerNext]_(Promise!optimizerVars)
<1>. SUFFICES ASSUME EngineInv, [EngineNext]_engineVars
     PROVE  [Promise!OptimizerNext]_(Promise!optimizerVars)
  OBVIOUS
<1>1. ASSUME Working PROVE Promise!OptimizerNext
  BY <1>1, WorkIsPromised, AnswerIsPromised DEF Working, Promise!OptimizerNext
<1>2. ASSUME NEW budget \in Budgets,
             (\E D \in Asked : \E lossy \in BOOLEAN : AskFresh(D, budget, lossy)) \/ AskAgain(budget)
      PROVE  Promise!OptimizerNext
  <2>1. PICK req \in Requests : Ask(req)
    BY <1>2, FreshIsRequest, AgainIsRequest DEF AskFresh, AskAgain
  <2>. QED
    BY <2>1, AskIsPromised DEF Promise!OptimizerNext
<1>3. ASSUME HostTurn \/ HostAccess PROVE UNCHANGED (Promise!optimizerVars)
  BY <1>3 DEF HostTurn, HostAccess, Promise!optimizerVars, HasStore, Idle
<1>4. ASSUME HostRestart PROVE Promise!OptimizerNext
  BY <1>4 DEF HostRestart, Promise!OptimizerNext, Promise!Restart, HasStore, Idle
<1>5. ASSUME UNCHANGED engineVars PROVE UNCHANGED (Promise!optimizerVars)
  BY <1>5 DEF engineVars, Promise!optimizerVars, HasStore, Idle
<1>. QED
  BY <1>1, <1>2, <1>3, <1>4, <1>5 DEF EngineNext

\* The pipeline implements the optimizer: whatever stage, validation, repair or
\* failure a bundle came through, what is handed back is the input or keeps the
\* promise (engine/index.ts:113-490).
THEOREM EngineKeepsPromise == EngineSpec => KeepsPromise
<1>1. EngineSpec => EngineInit /\ [][EngineNext]_engineVars
  BY PTL DEF EngineSpec
<1>. QED
  BY <1>1, EngineInvariant, InitIsPromised, StepIsPromised, PTL DEF KeepsPromise, Promise!OptimizerSpec

-----------------------------------------------------------------------------
(* What is handed back elided is on record.                                *)

\* Only the gate hands back something elided, and what it hands back is on
\* record.
LEMMA AcceptedIsTracked ==
  ASSUME EngineInv, EngineNext, call.step = "gate", HasLedger, ~HasStore, ~result'.fallback,
         NEW d \in DOMAIN result'.bundle, result'.bundle[d] # Given(d)
  PROVE  d \in DOMAIN records' /\ records'[d].elisionTurn = now
<1>1. Gate \/ Fatal
  BY DEF EngineNext, Working, AskFresh, AskAgain, Ask, Idle, Plan, PassStage, Prune, HashItem, EndHashing,
         FailStage, Record, Validate, Rehydrate, Repair, HostTurn, HostAccess, HostRestart
<1>2. Answered(call.bundle, FALSE)
  BY <1>1 DEF Gate, Fatal, Answered
<1>3. result'.bundle = call.bundle /\ records' = records
  BY <1>2 DEF Answered
<1>4. Grown(call.bundle) /\ OnRecord(call.bundle)
  BY DEF EngineInv, MarkersStay, ElisionsOnRecord
<1>. QED
  BY <1>3, <1>4 DEF Grown, OnRecord, New

\* The step of ElidedIsTracked.
LEMMA StepIsTracked ==
  EngineInv /\ [EngineNext]_engineVars
    => [call.step = "gate" /\ HasLedger /\ ~HasStore /\ ~result'.fallback =>
          \A d \in DOMAIN result'.bundle :
            result'.bundle[d] # Given(d) => d \in DOMAIN records' /\ records'[d].elisionTurn = now]_engineVars
BY AcceptedIsTracked

\* To a host without a store nothing is handed back elided that the ledger does
\* not know as of this turn (engine/index.ts:177-200, confidence-ledger.ts:124-130).
THEOREM EngineElidedIsTracked == EngineSpec => ElidedIsTracked
<1>1. EngineSpec => [][EngineNext]_engineVars
  BY PTL DEF EngineSpec
<1>. QED
  BY <1>1, EngineInvariant, StepIsTracked, PTL DEF ElidedIsTracked

-----------------------------------------------------------------------------
(* The stage takes no more than is needed.                                 *)

\* Of the parts the trim takes, one that frees most may be left out and the need
\* is not met.
LEMMA TrimIsTight ==
  ASSUME NEW d \in ItemIds, NEW A, A \subseteq PartsOf[d], NEW needed \in Nat,
         NEW p \in Trimmed(d, A, needed),
         \A q \in Trimmed(d, A, needed) : Gain[d][q] <= Gain[d][p]
  PROVE  Freed(d, Trimmed(d, A, needed)) < needed + Gain[d][p]
<1>. DEFINE C == Trimmed(d, A, needed)
            T == {q \in C : Gain[d][q] = Gain[d][p]}
<1>1. C \subseteq A /\ IsFiniteSet(C) /\ IsFiniteSet(A) /\ IsFiniteSet(T)
  <2>1. C \subseteq A
    BY DEF Trimmed
  <2>. QED
    BY <2>1, PartsFinite, FS_Subset
<1>2. \A q \in A : q \in Nat /\ Gain[d][q] \in Nat
  BY EngineAssumption
<1>3. PICK last \in T : \A q \in T : q <= last
  <2>1. T \subseteq Nat /\ p \in T
    BY <1>1, <1>2
  <2>. HIDE DEF T
  <2>. QED
    BY <1>1, <2>1, GreatestNatural
<1>. DEFINE K == Cheaper(d, last, A)
<1>4. last \in C /\ Freed(d, K) < needed
  BY <1>3 DEF Trimmed
<1>5. C \ {last} \subseteq K
  <2>. SUFFICES ASSUME NEW q \in C, q # last PROVE q \in K
    OBVIOUS
  <2>1. q \in A /\ q \in Nat /\ last \in Nat /\ Gain[d][q] \in Nat /\ Gain[d][p] \in Nat /\ Gain[d][q] <= Gain[d][p]
    BY <1>1, <1>2, <1>4
  <2>2. Gain[d][last] = Gain[d][p]
    BY <1>3
  <2>3. Gain[d][q] = Gain[d][p] => q < last
    BY <1>3, <2>1
  <2>4. Gain[d][q] # Gain[d][p] => Gain[d][q] < Gain[d][p]
    BY <2>1
  <2>. QED
    BY <2>1, <2>2, <2>3, <2>4 DEF Cheaper
<1>6. K \subseteq A /\ IsFiniteSet(K)
  BY <1>1, FS_Subset DEF Cheaper
<1>. HIDE DEF C, T, K
<1>7. SumFunctionOnSet(Gain[d], C \ {last}) <= SumFunctionOnSet(Gain[d], K)
  BY <1>2, <1>5, <1>6, SumSubset
<1>8. SumFunctionOnSet(Gain[d], C) = Gain[d][last] + SumFunctionOnSet(Gain[d], C \ {last})
  BY <1>1, <1>2, <1>4, SumRemove
<1>9. Gain[d][last] = Gain[d][p] /\ Gain[d][p] \in Nat
  BY <1>1, <1>2, <1>3 DEF T, C
<1>10. SumFunctionOnSet(Gain[d], C \ {last}) \in Nat /\ SumFunctionOnSet(Gain[d], K) \in Nat
  <2>1. C \ {last} \subseteq A /\ IsFiniteSet(C \ {last})
    BY <1>1, FS_Subset
  <2>. QED
    BY <1>2, <1>6, <2>1, SumNat
<1>. QED
  BY <1>4, <1>7, <1>8, <1>9, <1>10 DEF Freed, C

\* An item of several parts: without the part that frees most its elision would
\* not meet the ceiling.
LEMMA HashItemIsTight ==
  ASSUME EngineInv, HashItem,
         NEW d \in DOMAIN call.bundle \ Whole, call'.bundle[d] # call.bundle[d],
         NEW p \in call'.bundle[d] \ call.bundle[d],
         \A q \in call'.bundle[d] \ call.bundle[d] : Gain[d][q] <= Gain[d][p]
  PROVE  call'.tokens + Gain[d][p] > call.ceiling
<1>. DEFINE A == PartsOf[d] \ call.bundle[d]
<1>1. d \in ItemIds /\ call.tokens \in Nat /\ call.ceiling \in Nat
  BY CallFields, BundleIs
<1>2. /\ call'.tokens = call.tokens - Freed(d, Chosen(d))
      /\ call'.bundle[d] = call.bundle[d] \cup Chosen(d)
  <2>. DEFINE m == Min(DOMAIN call.bundle \ call.visited)
  <2>1. call' = [call EXCEPT !.visited = @ \cup {m}, !.bundle[m] = @ \cup Chosen(m),
                             !.tokens = @ - Freed(m, Chosen(m))]
    <3>1. call' # [call EXCEPT !.visited = @ \cup {m}]
      BY CallFields DEF Calls
    <3>. QED
      BY <3>1 DEF HashItem
  <2>. HIDE DEF m
  <2>2. /\ call'.tokens = call.tokens - Freed(m, Chosen(m))
        /\ call'.bundle = [call.bundle EXCEPT ![m] = @ \cup Chosen(m)]
    BY <2>1, CallFields DEF Calls
  <2>3. m = d
    BY <2>2, CallFields, BundleIs
  <2>. QED
    BY <2>2, <2>3, CallFields, BundleIs
<1>3. Chosen(d) \subseteq A
  BY ChosenIsLeft
<1>4. call'.bundle[d] \ call.bundle[d] = Chosen(d) /\ p \in Chosen(d)
  BY <1>2, <1>3
<1>5. ~(call.tokens <= call.ceiling) /\ Chosen(d) = Trimmed(d, A, call.tokens - call.ceiling)
  BY <1>4 DEF Chosen
<1>. DEFINE needed == call.tokens - call.ceiling
<1>6. needed \in Nat
  BY <1>1, <1>5
<1>7. p \in Trimmed(d, A, needed) /\ \A q \in Trimmed(d, A, needed) : Gain[d][q] <= Gain[d][p]
  BY <1>4, <1>5
<1>8. Freed(d, Trimmed(d, A, needed)) < needed + Gain[d][p]
  <2>1. A \subseteq PartsOf[d]
    OBVIOUS
  <2>. HIDE DEF A, needed
  <2>. QED
    BY <1>1, <1>6, <1>7, <2>1, TrimIsTight
<1>9. Freed(d, Chosen(d)) \in Nat /\ Gain[d][p] \in Nat
  BY <1>1, <1>3, <1>4, FreedNat, EngineAssumption
<1>10. Freed(d, Chosen(d)) < needed + Gain[d][p]
  BY <1>5, <1>8
<1>. QED
  BY <1>1, <1>2, <1>9, <1>10

\* The step of TakesNoMoreThanNeeded.
LEMMA StepIsTight ==
  EngineInv /\ [EngineNext]_engineVars
    => [\A d \in DOMAIN call.bundle \ Whole :
          call.step = "hash" /\ call'.step = "hash" /\ call'.bundle[d] # call.bundle[d] =>
            \A p \in call'.bundle[d] \ call.bundle[d] :
              (\A q \in call'.bundle[d] \ call.bundle[d] : Gain[d][q] <= Gain[d][p])
                => call'.tokens + Gain[d][p] > call.ceiling]_engineVars
<1>. SUFFICES ASSUME EngineInv, EngineNext, call.step = "hash", call'.step = "hash" PROVE HashItem
  BY HashItemIsTight
<1>1. call \in Calls
  BY CallFields
<1>2. HashItem \/ EndHashing \/ FailStage
  BY DEF EngineNext, Working, AskFresh, AskAgain, Ask, Idle, Plan, PassStage, Prune,
         Record, Validate, Rehydrate, Repair, Gate, Fatal, HostTurn, HostAccess, HostRestart
<1>. QED
  BY <1>1, <1>2 DEF EndHashing, FailStage, Calls

\* A span is replaced only if the spans that free less do not free what the
\* budget still needs (token-hashing.ts:424-493).
THEOREM EngineTakesNoMoreThanNeeded == EngineSpec => TakesNoMoreThanNeeded
<1>1. EngineSpec => [][EngineNext]_engineVars
  BY PTL DEF EngineSpec
<1>. QED
  BY <1>1, EngineInvariant, StepIsTight, PTL DEF TakesNoMoreThanNeeded
=============================================================================

------------------------------- MODULE Engine -------------------------------
(***************************************************************************)
(* One optimize() call after another, as the command line, the MCP server  *)
(* and a multi-turn host make them: plan, run the stages, record what was  *)
(* elided, validate, rehydrate or repair what fails, and hand back either  *)
(* the bundle that came out or the input.                                  *)
(*                                                                         *)
(* A call is synchronous, so calls never interleave. What outlives a call  *)
(* is the store of elided blocks and the confidence ledger, when the host  *)
(* supplies them: both are changed by steps whose outcome may be thrown    *)
(* away.                                                                   *)
(*                                                                         *)
(* An item is named by its content and items are numbered in the order a   *)
(* bundle lists them. The parts of an item are the spans the stage could   *)
(* replace by a marker; a bundle says, for each of its items, which parts  *)
(* are markers in it. The knapsack and the scanners that find the parts    *)
(* have modules of their own: here the pruner keeps any items that fit,    *)
(* and the parts are given.                                                *)
(***************************************************************************)
EXTENDS ConfidenceLedger, FiniteSetsExt

CONSTANTS
  PartIds,       \* positions of parts in an item
  PartsOf,       \* item -> its parts
  Gain,          \* item -> part -> tokens its elision frees
  Frame,         \* item -> tokens of the item with all its parts elided
  DirectiveIn,   \* item -> the parts holding an imperative directive
  Names,         \* names of symbols and of content markers
  SymbolsIn,     \* item -> part -> the symbols named in it
  FrameSymbols,  \* item -> the symbols named outside its parts
  MarkersIn,     \* item -> part -> the content markers in it: headings, TD_PRESERVE
  FrameMarkers,  \* item -> the content markers outside its parts
  Whole,         \* items without a region: elided whole or not at all
  Protected,     \* items of a preserved kind or of role system
  Broken,        \* items their own validator rejects, elided or not
  BlockHash,     \* <<item, n>> -> the block hash of the item with n parts elided
  CachePrefix,   \* tokens at the head of a bundle the pruner keeps
  Hosts,         \* what a host may supply: sets of "store" and "ledger"
  Asked,         \* bound: the sets of items a host asks about
  Budgets,       \* <<maxInputTokens, targetReductionRatio in tenths>>, 0 for none
  MinConfidence, \* config.validation.minimumConfidence, in ten-thousandths
  MaxDebt,       \* the debt threshold
  MaxCalls       \* bound: the calls a host with a ledger makes of one process

ASSUME EngineAssumption ==
  /\ ItemIds \subseteq Nat /\ PartIds \subseteq Nat /\ IsFiniteSet(ItemIds)
  /\ PartsOf \in [ItemIds -> SUBSET PartIds] /\ IsFiniteSet(PartIds)
  /\ \A d \in ItemIds :
       /\ Gain[d] \in [PartsOf[d] -> Nat \ {0}]
       /\ DirectiveIn[d] \subseteq PartsOf[d]
       /\ {SymbolsIn[d], MarkersIn[d]} \subseteq [PartsOf[d] -> SUBSET Names]
       /\ d \in Whole => Cardinality(PartsOf[d]) = 1 /\ FrameSymbols[d] \cup FrameMarkers[d] = {}
  /\ {FrameSymbols, FrameMarkers} \subseteq [ItemIds -> SUBSET Names] /\ IsFiniteSet(Names)
  /\ Frame \in [ItemIds -> Nat \ {0}]
  /\ Protected \cup Broken \cup Whole \subseteq ItemIds
  /\ Hosts \subseteq SUBSET {"store", "ledger"} /\ Asked \subseteq SUBSET ItemIds
  /\ Budgets \subseteq Nat \X (0..10) /\ CachePrefix \in Nat
  /\ MinConfidence \in 0..Full /\ MaxDebt \in Nat /\ MaxCalls \in Nat

ASSUME BlocksAssumption ==
  /\ ItemIds \X (0..Cardinality(PartIds)) \subseteq DOMAIN BlockHash
  /\ \A x \in DOMAIN BlockHash : BlockHash[x] \in Blocks
  /\ \A x, y \in DOMAIN BlockHash : BlockHash[x] = BlockHash[y] => x = y

VARIABLES
  host,     \* what this host supplies
  store,    \* <<item, part>>: the elided texts the token hasher holds
  request,  \* what the call was given
  call,     \* the call in progress
  result,   \* the last call's finalBundle, and whether it fell back
  calls     \* how often a host with a ledger has called

engineVars == <<records, now, host, store, request, call, result, calls>>

-----------------------------------------------------------------------------
Empty == [d \in {} |-> {}]

Bundles == UNION {[D -> SUBSET PartIds] : D \in SUBSET ItemIds}

Texts == UNION {{d} \X PartsOf[d] : d \in ItemIds}

Requests == [bundle : Bundles, limit : Nat, ratio : 0..10, lossy : BOOLEAN]

NoRequest == [bundle |-> Empty, limit |-> 0, ratio |-> 0, lossy |-> FALSE]

Steps == {"idle", "plan", "preserve", "prune", "hash", "delta", "record", "validate",
          "rehydrate", "repair", "gate"}

Calls ==
  [step : Steps, bundle : Bundles, stageBundle : Bundles, visited : SUBSET ItemIds,
   tokens : Nat, ceiling : Nat, stageFailed : BOOLEAN, valid : BOOLEAN]

EngineTypeOK ==
  /\ LedgerTypeOK
  /\ host \in Hosts /\ store \subseteq Texts
  /\ request \in Requests
  /\ call \in Calls
  /\ result \in [bundle : Bundles, fallback : BOOLEAN]
  /\ calls \in 0..MaxCalls

Given(d) == request.bundle[d]

\* The parts of the item this call has replaced, as of bundle b.
New(b, d) == b[d] \ Given(d)

Size(d, marks) == Frame[d] + SumFunctionOnSet(Gain[d], PartsOf[d] \ marks)

Tokens(b) == SumFunction([d \in DOMAIN b |-> Size(d, b[d])])

Marked(b) == UNION {{d} \X b[d] : d \in DOMAIN b}

Restricted(b, D) == [d \in D |-> b[d]]

\* What can be read of an item of which some parts are markers. A name found
\* twice counts once, in an item as in a bundle.
SymbolsOf(d, marks) == FrameSymbols[d] \cup UNION {SymbolsIn[d][p] : p \in PartsOf[d] \ marks}

MarkersOf(d, marks) == FrameMarkers[d] \cup UNION {MarkersIn[d][p] : p \in PartsOf[d] \ marks}

Symbols(b) == UNION {SymbolsOf(d, b[d]) : d \in DOMAIN b}

ContentMarkers(b) == UNION {MarkersOf(d, b[d]) : d \in DOMAIN b}

-----------------------------------------------------------------------------
(* Budget and plan.                                                        *)

HasLimit == request.limit > 0
HasRatio == request.ratio > 0

\* 0 stands for no ceiling here: a ceiling of 0 bypasses the pruner, and the
\* hashing stage never reaches it.
Share(b) == (Tokens(b) * (10 - request.ratio)) \div 10

\* The tighter of the two ceilings, the ratio taken of the bundle at hand.
Ceiling(b) ==
  CASE HasLimit /\ HasRatio -> Least(request.limit, Share(b))
    [] HasLimit /\ ~HasRatio -> request.limit
    [] OTHER -> Share(b)

\* A budget plans the four stages; without one nothing is transformed.
FirstStep == IF HasLimit \/ HasRatio THEN "preserve" ELSE "record"

-----------------------------------------------------------------------------
(* pruning:topology-pruner and compression:token-hashing.                  *)

Earlier(d) == {e \in DOMAIN call.bundle : e < d}

\* Preserved kinds, system prompts, items holding a directive, and those that
\* begin within the cached prefix are kept whatever they weigh.
Pinned(d) ==
  \/ d \in Protected
  \/ DirectiveIn[d] \ Given(d) # {}
  \/ Tokens(Restricted(call.bundle, Earlier(d))) < CachePrefix

Kept(K, ceiling) ==
  LET pinned == {d \in DOMAIN call.bundle : Pinned(d)}
      free   == DOMAIN call.bundle \ pinned
      left   == Tokens(Restricted(call.bundle, pinned))
  IN IF Tokens(call.bundle) <= ceiling
     THEN K = DOMAIN call.bundle
     ELSE /\ pinned \subseteq K /\ K \subseteq DOMAIN call.bundle
          /\ K = pinned \/ Tokens(Restricted(call.bundle, K)) <= ceiling

\* Parts that the sort puts before p: those freeing less, then those before it.
Cheaper(d, p, A) ==
  {q \in A : Gain[d][q] < Gain[d][p] \/ (Gain[d][q] = Gain[d][p] /\ q < p)}

Freed(d, A) == SumFunctionOnSet(Gain[d], A)

\* Mutant: one more part is taken once nothing is needed any more.
Trimmed_OneOver(d, A, needed) == {p \in A : Freed(d, Cheaper(d, p, A)) <= needed}

\* Smallest first, until what was needed is freed.
Trimmed(d, A, needed) == {p \in A : Freed(d, Cheaper(d, p, A)) < needed}

\* What the stage would replace in the item by markers. An item without a region
\* goes whole, unless it holds a symbol that would go with it. (So would one that
\* came with all its regions elided and holds no symbol, were what is left of it
\* longer than a marker: taken not to be.)
Chosen(d) ==
  LET A == PartsOf[d] \ call.bundle[d]
  IN CASE call.tokens <= call.ceiling \/ d \in Protected -> {}
       [] OTHER -> IF d \in Whole THEN IF SymbolsOf(d, call.bundle[d]) = {} THEN A ELSE {}
                   ELSE Trimmed(d, A, call.tokens - call.ceiling)

-----------------------------------------------------------------------------
(* Validation of a bundle against the one asked for.                       *)

Changed(b) == {d \in DOMAIN b : b[d] # Given(d)}

DirectiveLost(b) == {d \in DOMAIN b : New(b, d) \cap DirectiveIn[d] # {}}

\* Mutant: a content marker that was there is taken for one that survived.
Unwitnessed_Existed(b) ==
  {d \in Changed(b) : SymbolsOf(d, Given(d)) = {} /\ MarkersOf(d, Given(d)) = {}}

\* Changed items that held no symbol and of whose content markers none survives.
Unwitnessed(b) ==
  {d \in Changed(b) : SymbolsOf(d, Given(d)) = {} /\ MarkersOf(d, b[d]) = {}}

\* Items in which an error is found that names them.
Failing(b) == DirectiveLost(b) \cup Unwitnessed(b) \cup (Broken \cap DOMAIN b)

\* The items scored are those that were kept, or all when none was.
Compared(before, b) == IF DOMAIN b = {} THEN before ELSE Restricted(before, DOMAIN b)

\* <<n, m>>: n parts in m of what was there are still there, the symbols weighing
\* 0.6 and the content markers 0.4, and one alone all when the other measures
\* nothing.
Retention(before, b) ==
  LET was     == Compared(before, b)
      symbols == Cardinality(Symbols(was))
      markers == Cardinality(ContentMarkers(was))
      keptS   == Cardinality(Symbols(was) \cap Symbols(b))
      keptM   == Cardinality(ContentMarkers(was) \cap ContentMarkers(b))
  IN CASE symbols > 0 /\ markers > 0 -> <<3 * keptS * markers + 2 * keptM * symbols, 5 * symbols * markers>>
       [] symbols > 0 /\ markers = 0 -> <<keptS, symbols>>
       [] symbols = 0 /\ markers > 0 -> <<keptM, markers>>
       [] OTHER                      -> <<1, 1>>

\* A drift score of more than 0.4 is refused.
DriftPasses(b) ==
  LET kept == Retention(request.bundle, b) IN 5 * kept[1] >= 3 * kept[2]

OverBudget(b) == HasLimit /\ Tokens(b) > request.limit

Passes(b) == Failing(b) = {} /\ DriftPasses(b) /\ ~OverBudget(b)

-----------------------------------------------------------------------------
(* Debt, rehydration, repair, corruption.                                  *)

HasStore == "store" \in host
HasLedger == "ledger" \in host

Trust == IF HasLedger THEN OverallConfidence(records, now) ELSE Full

Before(b) == SumFunction([d \in DOMAIN b |-> Size(d, Given(d))])

Gone(b) == SumFunction([d \in DOMAIN b |-> Freed(d, New(b, d))])

\* 0.5 a point of confidence lost, 0.35 of what was removed, 1.5 a turn of age,
\* the whole of it capped at 100.
DebtExceeded(b) ==
  LET age  == IF HasLedger THEN now - OldestTurn(records, now) ELSE 0
      rest == (50 * (Full - Trust) + 15000 * age) * Before(b) + 35 * Full * Gone(b)
  IN MaxDebt < 100 /\ rest > MaxDebt * Full * Before(b)

\* A ledger says which items to restore; without one every item is eligible.
Eligible(b) ==
  CASE HasLedger -> Candidates(records, now, 7000) \cap DOMAIN b
    [] ~HasLedger /\ HasStore -> DOMAIN b
    [] OTHER -> {}

\* Every marker whose text the store holds is replaced by that text, those the
\* item came with included.
Rehydrated(b) ==
  [d \in DOMAIN b |-> IF HasStore /\ d \in Eligible(b)
                       THEN {p \in b[d] : <<d, p>> \notin store} ELSE b[d]]

RehydratedItems(b) == {d \in DOMAIN b : Rehydrated(b)[d] # b[d]}

Reverted(b, D) == [d \in DOMAIN b |-> IF d \in D THEN Given(d) ELSE b[d]]

\* Reverting nothing, or everything there is, is not a repair.
Repairable(b) ==
  /\ Failing(b) \cap Changed(b) # {}
  /\ Reverted(b, Failing(b)) # request.bundle

\* Markers that name a text the store does not hold.
Corrupted(b) == HasStore /\ ~(Marked(b) \subseteq store)

-----------------------------------------------------------------------------
Idle == call.step = "idle"

Started(req) ==
  [step |-> "plan", bundle |-> req.bundle, stageBundle |-> req.bundle, visited |-> {},
   tokens |-> 0, ceiling |-> 0, stageFailed |-> FALSE, valid |-> FALSE]

NoCall == [Started(NoRequest) EXCEPT !.step = "idle"]

EngineInit ==
  /\ LedgerInit
  /\ host \in Hosts
  /\ store = {}
  /\ request = NoRequest
  /\ call = NoCall
  /\ result = [bundle |-> Empty, fallback |-> FALSE]
  /\ calls = 0

Ask(req) ==
  /\ Idle
  /\ HasLedger => calls < MaxCalls
  /\ calls' = IF HasLedger THEN calls + 1 ELSE calls
  /\ request' = req
  /\ call' = Started(req)
  /\ UNCHANGED <<records, now, host, store, result>>

\* The host asks about whole items, which the command line may have been unable
\* to decode without loss, or about the answer it got last, markers and all.
AskFresh(D, budget, lossy) ==
  /\ lossy => host = {}
  /\ Ask([bundle |-> [d \in D |-> {}], limit |-> budget[1], ratio |-> budget[2], lossy |-> lossy])

AskAgain(budget) ==
  /\ result.bundle # Empty
  /\ Ask([bundle |-> result.bundle, limit |-> budget[1], ratio |-> budget[2], lossy |-> FALSE])

Plan ==
  /\ call.step = "plan"
  /\ call' = [call EXCEPT !.step = FirstStep]
  /\ UNCHANGED <<records, now, host, store, request, result, calls>>

\* Two stages leave the items as they are: the directives are recorded beside
\* them, and no host supplies the base versions delta compression needs.
PassStage ==
  /\ call.step \in {"preserve", "delta"}
  /\ call' = [call EXCEPT !.step = IF @ = "preserve" THEN "prune" ELSE "record"]
  /\ UNCHANGED <<records, now, host, store, request, result, calls>>

Hashing(b) ==
  [call EXCEPT !.step = "hash", !.bundle = b, !.stageBundle = b, !.visited = {},
               !.tokens = Tokens(b), !.ceiling = Ceiling(b)]

Prune ==
  /\ call.step = "prune"
  /\ \E K \in SUBSET DOMAIN call.bundle :
       /\ IF Ceiling(call.bundle) = 0 THEN K = DOMAIN call.bundle ELSE Kept(K, Ceiling(call.bundle))
       /\ call' = Hashing(Restricted(call.bundle, K))
  /\ UNCHANGED <<records, now, host, store, request, result, calls>>

\* The next item of the bundle: its markers are rendered, and registered, before
\* the post-condition is asked about the item, which may refuse the splice.
HashItem ==
  /\ call.step = "hash"
  /\ call.visited # DOMAIN call.bundle
  /\ LET d == Min(DOMAIN call.bundle \ call.visited)
     IN /\ store' = IF HasStore THEN store \cup ({d} \X Chosen(d)) ELSE store
        /\ \/ call' = [call EXCEPT !.visited = @ \cup {d}, !.bundle[d] = @ \cup Chosen(d),
                                  !.tokens = @ - Freed(d, Chosen(d))]
           \/ call' = [call EXCEPT !.visited = @ \cup {d}]
  /\ UNCHANGED <<records, now, host, request, result, calls>>

EndHashing ==
  /\ call.step = "hash"
  /\ call.visited = DOMAIN call.bundle
  /\ call' = [call EXCEPT !.step = "delta", !.stageBundle = call.bundle]
  /\ UNCHANGED <<records, now, host, store, request, result, calls>>

\* A stage throws, or reports failure: what it did to the bundle is dropped, what
\* it put into the store stays, and no further stage runs.
FailStage ==
  /\ call.step \in {"preserve", "prune", "hash", "delta"}
  /\ call' = [call EXCEPT !.step = "record", !.bundle = call.stageBundle, !.stageFailed = TRUE]
  /\ UNCHANGED <<records, now, host, store, request, result, calls>>

\* An item elided whole is known by the hash of its text, one elided in part by
\* a hash of its own and of how many parts are gone.
BlockOf(d) ==
  BlockHash[<<d, IF d \in Whole THEN 0 ELSE Cardinality(New(call.bundle, d))>>]

\* Every item the stages elided is recorded at this turn.
Record ==
  /\ call.step = "record"
  /\ LET elided == {d \in DOMAIN call.bundle : New(call.bundle, d) # {}}
     IN records' = IF HasLedger THEN Recorded(records, [d \in elided |-> BlockOf(d)], now) ELSE records
  /\ call' = [call EXCEPT !.step = "validate"]
  /\ UNCHANGED <<now, host, store, request, result, calls>>

Validate ==
  /\ call.step = "validate"
  /\ call' = [call EXCEPT !.step = "rehydrate", !.valid = Passes(call.bundle)]
  /\ UNCHANGED <<records, now, host, store, request, result, calls>>

\* Debt, a failed validation or a doubtful elision: the eligible items are
\* restored, and leave the ledger, and only then it is seen whether that helps.
Rehydrate ==
  /\ call.step = "rehydrate"
  /\ IF (DebtExceeded(call.bundle) \/ ~call.valid \/ Trust < MinConfidence) /\ ~call.stageFailed
     THEN LET b == Rehydrated(call.bundle)
              adopted == b # call.bundle /\ Passes(b)
          IN /\ records' = IF HasLedger THEN Removed(records, RehydratedItems(call.bundle)) ELSE records
             /\ call' = [call EXCEPT !.step = "repair",
                                     !.bundle = IF adopted THEN b ELSE @,
                                     !.valid = @ \/ adopted]
     ELSE records' = records /\ call' = [call EXCEPT !.step = "repair"]
  /\ UNCHANGED <<now, host, store, request, result, calls>>

\* Mutant: repair is repeated until the bundle is valid.
Repair_ToFixpoint ==
  /\ call.step = "repair"
  /\ LET b == Reverted(call.bundle, Failing(call.bundle))
         adopted == ~call.valid /\ ~call.stageFailed /\ Repairable(call.bundle) /\ Passes(b)
     IN call' = [call EXCEPT !.step = IF call.valid \/ adopted \/ call.stageFailed THEN "gate" ELSE "validate",
                             !.bundle = IF adopted THEN b ELSE @,
                             !.valid = @ \/ adopted]
  /\ UNCHANGED <<records, now, host, store, request, result, calls>>

\* One pass: the items that errors name go back to what they were, and the
\* bundle is adopted if that makes it valid.
Repair ==
  /\ call.step = "repair"
  /\ LET b == Reverted(call.bundle, Failing(call.bundle))
         adopted == ~call.valid /\ ~call.stageFailed /\ Repairable(call.bundle) /\ Passes(b)
     IN call' = [call EXCEPT !.step = "gate",
                             !.bundle = IF adopted THEN b ELSE @,
                             !.valid = @ \/ adopted]
  /\ UNCHANGED <<records, now, host, store, request, result, calls>>

Accepted ==
  /\ call.valid /\ ~call.stageFailed /\ ~request.lossy
  /\ Trust >= MinConfidence
  /\ ~Corrupted(call.bundle)

Answered(b, fallback) ==
  /\ result' = [bundle |-> b, fallback |-> fallback]
  /\ call' = NoCall
  /\ request' = NoRequest
  /\ UNCHANGED <<records, now, host, store, calls>>

Gate ==
  /\ call.step = "gate"
  /\ IF Accepted THEN Answered(call.bundle, FALSE) ELSE Answered(request.bundle, TRUE)

\* An exception no stage handler catches: the input goes back, and what has been
\* stored or recorded by then stays so.
Fatal ==
  /\ call.step \in {"plan", "record", "validate", "rehydrate", "repair", "gate"}
  /\ Answered(request.bundle, TRUE)

-----------------------------------------------------------------------------
(* The host between two calls.                                             *)

HostTurn == Idle /\ HasLedger /\ (\E t \in Turns : NewTurn(t)) /\ UNCHANGED <<host, store, request, call, result, calls>>

HostAccess ==
  /\ Idle /\ HasLedger
  /\ \E k \in Keys : UpdateAccess(k)
  /\ UNCHANGED <<host, store, request, call, result, calls>>

\* The process is started anew; the client still has the last answer.
HostRestart ==
  /\ Idle /\ (store # {} \/ calls > 0)
  /\ store' = {} /\ records' = Empty /\ now' = 1 /\ calls' = 0
  /\ UNCHANGED <<host, request, call, result>>

Working ==
  \/ Plan \/ PassStage \/ Prune \/ HashItem \/ EndHashing \/ FailStage
  \/ Record \/ Validate \/ Rehydrate \/ Repair \/ Gate \/ Fatal

EngineNext ==
  \/ \E budget \in Budgets :
       \/ \E D \in Asked : \E lossy \in BOOLEAN : AskFresh(D, budget, lossy)
       \/ AskAgain(budget)
  \/ Working
  \/ HostTurn \/ HostAccess \/ HostRestart

EngineSpec == EngineInit /\ [][EngineNext]_engineVars /\ WF_engineVars(Working)

-----------------------------------------------------------------------------
(* Properties.                                                             *)

\* The promise to the caller, about a bundle that is not simply the input. No
\* protected item and none holding a directive is missing. In the items that are
\* kept no directive has gone and the syntax is valid; what has changed held a
\* symbol to measure the change by, or still shows a content marker; and of all
\* their symbols and content markers, weighed, three fifths are left. The limit is
\* met, and each marker can be turned back into its text when the host supplies a
\* store.
Promised(req, b, held) ==
  LET left == Retention(req.bundle, b)
  IN /\ DOMAIN b \subseteq DOMAIN req.bundle
     /\ \A d \in DOMAIN req.bundle \ DOMAIN b :
          d \notin Protected /\ DirectiveIn[d] \subseteq req.bundle[d]
     /\ \A d \in DOMAIN b :
          /\ b[d] \cap DirectiveIn[d] \subseteq req.bundle[d]
          /\ b[d] # req.bundle[d] =>
               SymbolsOf(d, req.bundle[d]) # {} \/ MarkersOf(d, b[d]) # {}
          /\ d \notin Broken
     /\ 5 * left[1] >= 3 * left[2]
     /\ req.limit > 0 => Tokens(b) <= req.limit
     /\ req.reversible => Marked(b) \subseteq held

\* The pipeline keeps the promise, whatever stage, validation, repair or failure
\* the bundle came through (engine/index.ts:113-490).
Promise == INSTANCE Optimizer WITH
  Requests   <- [bundle : Bundles, limit : Nat, reversible : BOOLEAN],
  Nothing    <- Empty,
  Acceptable <- Promised,
  asked      <- [bundle |-> request.bundle, limit |-> request.limit, reversible |-> HasStore],
  answer     <- result.bundle,
  held       <- store,
  busy       <- ~Idle

KeepsPromise == Promise!OptimizerSpec

\* Every call is answered, whatever fails on the way: restoring and reverting are
\* tried once each, and not until the bundle passes (engine/index.ts:281-345).
EveryCallAnswered == ~Idle ~> Idle

\* A span is replaced only if the spans that free less do not free what the
\* budget still needs (token-hashing.ts:424-493).
TakesNoMoreThanNeeded ==
  [][\A d \in DOMAIN call.bundle \ Whole :
       call.step = "hash" /\ call'.step = "hash" /\ call'.bundle[d] # call.bundle[d] =>
         \A p \in call'.bundle[d] \ call.bundle[d] :
           (\A q \in call'.bundle[d] \ call.bundle[d] : Gain[d][q] <= Gain[d][p])
             => call'.tokens + Gain[d][p] > call.ceiling]_engineVars

\* To a host without a store nothing is handed back elided that the ledger does
\* not know, as of this turn: an empty ledger may then stand for full trust
\* (engine/index.ts:177-200, confidence-ledger.ts:124-130). With a store, restoring
\* takes items off the ledger before it is known whether the restored bundle is used.
ElidedIsTracked ==
  [][call.step = "gate" /\ HasLedger /\ ~HasStore /\ ~result'.fallback =>
       \A d \in DOMAIN result'.bundle :
         result'.bundle[d] # Given(d) => d \in DOMAIN records' /\ records'[d].elisionTurn = now]_engineVars

\* What the documentation of the budget says of a ratio: it is "a statement about
\* the *input*" and "once resolved against the incoming bundle it is an ordinary
\* token ceiling" (budget/index.ts:12-14), so that no item is elided any more once
\* the bundle is within what was asked of the input (budget/index.ts:46-52).
StopsAtTarget ==
  [][call.step = "hash" /\ call'.bundle # call.bundle
       => Tokens(call.bundle) > Ceiling(request.bundle)]_engineVars
=============================================================================

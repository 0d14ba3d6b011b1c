------------------------------ MODULE Optimizer ------------------------------
(***************************************************************************)
(* What optimize() promises its caller, with nothing said of stages,       *)
(* validation, repair or fallback. A caller hands over a bundle of items,  *)
(* in each of which some parts may already stand as markers; the answer is *)
(* either that very bundle or an Acceptable one: items may be missing from *)
(* it and parts may have become markers, but nothing is lost that the      *)
(* promise protects.                                                       *)
(***************************************************************************)
CONSTANTS
  Requests,            \* what may be asked: records with a field bundle
  Bundles,             \* item -> the parts that are markers in it
  Nothing,             \* the bundle before the first one
  Acceptable(_, _, _)  \* Acceptable(asked, answer, held): the promise

VARIABLES
  asked,    \* the request
  answer,   \* the bundle handed back, or the one before it while none is
  held,     \* what the store beside the optimizer holds
  busy      \* a call is in progress

optimizerVars == <<asked, answer, held, busy>>

-----------------------------------------------------------------------------
Unasked == {r \in Requests : r.bundle = Nothing}

OptimizerInit ==
  /\ asked \in Unasked
  /\ answer = Nothing
  /\ held = {}
  /\ busy = FALSE

Ask ==
  /\ ~busy
  /\ asked' \in Requests
  /\ busy' = TRUE
  /\ UNCHANGED <<answer, held>>

\* While it works the optimizer may put more into its store, never less.
Keep ==
  /\ busy
  /\ held \subseteq held'
  /\ UNCHANGED <<asked, answer, busy>>

Answer ==
  /\ busy
  /\ answer' \in Bundles
  /\ answer' = asked.bundle \/ Acceptable(asked, answer', held)
  /\ asked' \in Unasked
  /\ busy' = FALSE
  /\ UNCHANGED held

\* The process ends between two calls, and the store with it.
Restart ==
  /\ ~busy
  /\ held' = {}
  /\ UNCHANGED <<asked, answer, busy>>

OptimizerNext == Ask \/ Keep \/ Answer \/ Restart

OptimizerSpec == OptimizerInit /\ [][OptimizerNext]_optimizerVars
=============================================================================

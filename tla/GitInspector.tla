----------------------------- MODULE GitInspector -----------------------------
(***************************************************************************)
(* What git says of the working tree the program runs in, and the answers  *)
(* that are reused for two seconds instead of asking again: one under the  *)
(* root of the repository, one under the directory asked about when git    *)
(* could not be asked. The directory is one below the root.                *)
(*                                                                         *)
(* Git is asked by three commands, one after the other. Each may take its  *)
(* time, in which the program waits but the tree does not, and each reads  *)
(* the tree at some moment of its run. A unit of time is one that no       *)
(* command exceeds; what the program does between two commands takes none. *)
(***************************************************************************)
EXTENDS Naturals, FiniteSets, Functions

CONSTANTS
  Paths,     \* paths, as git or as a host spells them
  Files,     \* those that git reports: relative to the root of the repository
  Trees,     \* what a working tree may be: records of codes and recent
  Ttl,       \* how long an answer is reused
  Patience   \* how long a command may take before it is given up

ASSUME GitAssumption ==
  /\ Files \subseteq Paths
  /\ \A t \in Trees : t.codes \in [Files -> {" ", "?", "M"} \X {" ", "?", "M"}] /\ t.recent \subseteq Files
  /\ Ttl \in Nat \ {0} /\ Patience \in Nat

VARIABLES
  tree,      \* the working tree as it is
  current,   \* tree -> time since the working tree was like that, up to Longest
  asking,    \* the command that runs, its time so far, and what git has said by then
  cache,     \* key -> a remembered answer and its age
  status     \* the last answer

gitVars == <<tree, current, asking, cache, status>>

-----------------------------------------------------------------------------
NotARepo == [isGitRepo |-> FALSE, allDirtyFiles |-> {}, recentCommitFiles |-> {}]

\* A file is staged by the first letter of its line, modified by the second, and
\* untracked by two question marks.
Staged(codes) == {p \in Files : codes[p][1] \notin {" ", "?"}}
Modified(codes) == {p \in Files : codes[p][2] \notin {" ", "?"}}
Untracked(codes) == {p \in Files : codes[p] = <<"?", "?">>}

Dirty(t) == Staged(t.codes) \cup Modified(t.codes) \cup Untracked(t.codes)

\* Of the trees the two commands saw. The commits may be missing from the answer.
Answer(dirty, recent) ==
  [isGitRepo |-> TRUE, allDirtyFiles |-> dirty, recentCommitFiles |-> recent]

Logs == {{}} \cup {t.recent : t \in Trees}

Answers == {NotARepo} \cup {Answer(Dirty(t), recent) : t \in Trees, recent \in Logs}

\* The time after which it no longer matters how long ago a tree was current.
Longest == Ttl + 2 * Patience

NotAsking == [step |-> "no", spent |-> 0, dirty |-> {}, recent |-> {}]

GitTypeOK ==
  /\ tree \in Trees
  /\ current \in [Trees -> 0..Longest] /\ current[tree] = 0
  /\ asking \in [step : {"no", "root", "status", "seen", "log", "read"}, spent : 0..Patience,
                 dirty : {{}} \cup {Dirty(t) : t \in Trees}, recent : Logs]
  /\ DOMAIN cache \subseteq {"cwd", "root"}
  /\ \A k \in DOMAIN cache : cache[k].result \in Answers /\ cache[k].age \in 0..Ttl
  /\ status \in Answers

Older(age, limit) == IF age < limit THEN age + 1 ELSE limit

\* Mutant: an answer is reused however old it is.
Young_Always(k) == k \in DOMAIN cache

Young(k) == k \in DOMAIN cache /\ cache[k].age < Ttl

Remembered(k, result) ==
  LET young == {j \in DOMAIN cache : Young(j)}
  IN [j \in young \cup {k} |-> IF j = k THEN [result |-> result, age |-> 0] ELSE cache[j]]

-----------------------------------------------------------------------------
GitInit ==
  /\ tree \in Trees
  /\ current = [t \in Trees |-> IF t = tree THEN 0 ELSE Longest]
  /\ asking = NotAsking
  /\ cache = [k \in {} |-> NotARepo]
  /\ status = NotARepo

Edit(t) ==
  /\ t # tree
  /\ tree' = t
  /\ current' = [current EXCEPT ![t] = 0]
  /\ UNCHANGED <<asking, cache, status>>

\* Also while a command runs, up to what it is allowed.
Pass ==
  /\ asking.step # "no" => asking.spent < Patience
  /\ asking' = IF asking.step = "no" THEN asking ELSE [asking EXCEPT !.spent = @ + 1]
  /\ current' = [t \in Trees |-> IF t = tree THEN 0 ELSE Older(current[t], Longest)]
  /\ cache' = [k \in DOMAIN cache |-> [cache[k] EXCEPT !.age = Older(@, Ttl)]]
  /\ UNCHANGED <<tree, status>>

\* The directory's own answer comes before that of the repository around it.
Reuse ==
  /\ asking.step = "no"
  /\ Young("cwd") \/ Young("root")
  /\ status' = IF Young("cwd") THEN cache["cwd"].result ELSE cache["root"].result
  /\ UNCHANGED <<tree, current, asking, cache>>

\* git rev-parse. Once the root is known its answer is looked for again, by the same
\* reading of the clock: nothing is found that was not found before.
Ask ==
  /\ asking.step = "no"
  /\ ~Young("cwd") /\ ~Young("root")
  /\ asking' = [asking EXCEPT !.step = "root"]
  /\ UNCHANGED <<tree, current, cache, status>>

FindRoot ==
  /\ asking.step = "root"
  /\ asking' = [asking EXCEPT !.step = "status", !.spent = 0]
  /\ UNCHANGED <<tree, current, cache, status>>

\* git status looks at the tree.
ReadStatus ==
  /\ asking.step = "status"
  /\ asking' = [asking EXCEPT !.step = "seen", !.dirty = Dirty(tree)]
  /\ UNCHANGED <<tree, current, cache, status>>

EndStatus ==
  /\ asking.step = "seen"
  /\ asking' = [asking EXCEPT !.step = "log", !.spent = 0]
  /\ UNCHANGED <<tree, current, cache, status>>

\* git log looks at the commits.
ReadLog ==
  /\ asking.step = "log"
  /\ asking' = [asking EXCEPT !.step = "read", !.recent = tree.recent]
  /\ UNCHANGED <<tree, current, cache, status>>

Asking == Ask \/ FindRoot \/ ReadStatus \/ EndStatus \/ ReadLog

\* The answer is as old as this moment, whenever the commands looked. Without the
\* log it is given too.
EndLog ==
  /\ asking.step \in {"log", "read"}
  /\ status' = Answer(asking.dirty, asking.recent)
  /\ cache' = Remembered("root", status')
  /\ asking' = NotAsking
  /\ UNCHANGED <<tree, current>>

\* Git is missing, does not answer in time, or knows of no repository.
GitFails ==
  /\ asking.step \in {"root", "status", "seen"}
  /\ status' = NotARepo
  /\ cache' = Remembered("cwd", NotARepo)
  /\ asking' = NotAsking
  /\ UNCHANGED <<tree, current>>

Inspected == Reuse \/ EndLog \/ GitFails

\* Time passes and files are edited between two inspections, and during one.
GitNext == (\E t \in Trees : Edit(t)) \/ Pass

GitSpec == GitInit /\ [][GitNext \/ Asking \/ Inspected]_gitVars

-----------------------------------------------------------------------------
\* An answer that is still reused, or was only just given, is what git would have said
\* less than the time to live ago, and the time of the commands that ran since: two for
\* the edited files, one for the commits, which may be those of another tree
\* (git-inspector.ts:86-202, 219-247).
StatusIsRecent ==
  \A k \in DOMAIN cache : Young(k) /\ cache[k].result.isGitRepo =>
    /\ \E t \in Trees : cache[k].result.allDirtyFiles = Dirty(t) /\ current[t] < Ttl + 2 * Patience
    /\ \E t \in Trees :
         cache[k].result.recentCommitFiles \in {{}, t.recent} /\ current[t] < Ttl + Patience
=============================================================================

------------------------- MODULE TopologyPrunerProofs -------------------------
(***************************************************************************)
(* The pruning stage, for any bundle, imports and working trees: what it   *)
(* believes of the repository is recent, its search finds the shortest     *)
(* distances, and its two solvers stay within the budget and choose as     *)
(* well as they claim.                                                     *)
(***************************************************************************)
EXTENDS TopologyPruner, OperatorLemmas

-----------------------------------------------------------------------------
(* Git: a remembered answer is no older than it says.                      *)

\* The time to live is a positive number.
LEMMA TtlType == Ttl \in Nat /\ Ttl > 0
<1>1. Ttl \in Nat \ {0}
  BY Zenon, GitAssumption
<1>. QED
  BY <1>1

\* So is the time a command is given.
LEMMA TimeTypes == Patience \in Nat /\ Longest \in Nat /\ Longest = Ttl + 2 * Patience
<1>1. Patience \in Nat
  BY Zenon, GitAssumption
<1>. QED
  BY <1>1, TtlType DEF Longest

\* Some tree with these edited files was current at most that long ago; when is the
\* time since each tree was.
SeenWithin(when, dirty, limit) == \E t \in Trees : dirty = Dirty(t) /\ when[t] <= limit

\* The commits, unless they are missing, are those of a tree current at most that long ago.
LoggedWithin(when, recent, limit) == recent = {} \/ \E t \in Trees : recent = t.recent /\ when[t] <= limit

\* A remembered answer is as old as it says, and as the commands that ran after git
\* looked; once it is too old to be used nothing is known of it.
Recent(when, entry) ==
  /\ entry \in [result : Answers, age : 0..Ttl]
  /\ entry.result = NotARepo
       \/ \E dirty, recent :
            /\ entry.result = Answer(dirty, recent)
            /\ entry.age < Ttl => /\ SeenWithin(when, dirty, entry.age + 2 * Patience)
                                 /\ LoggedWithin(when, recent, entry.age + Patience)

\* What git has said so far is no older than the time of its commands.
Underway(when, a) ==
  /\ a \in [step : {"no", "root", "status", "seen", "log", "read"}, spent : 0..Patience,
            dirty : SUBSET Files, recent : SUBSET Files]
  /\ a.step \notin {"seen", "log", "read"} => a.dirty = {}
  /\ a.step # "read" => a.recent = {}
  /\ a.step = "seen" => SeenWithin(when, a.dirty, a.spent)
  /\ a.step \in {"log", "read"} => SeenWithin(when, a.dirty, a.spent + Patience)
  /\ a.step = "read" => LoggedWithin(when, a.recent, a.spent)

GitInv ==
  /\ tree \in Trees
  /\ current \in [Trees -> 0..Longest] /\ current[tree] = 0
  /\ Underway(current, asking)
  /\ DOMAIN cache \subseteq {"cwd", "root"}
  /\ \A k \in DOMAIN cache : Recent(current, cache[k])
  /\ status \in Answers

\* What git reports are paths from the root.
LEMMA ReportedFiles ==
  ASSUME NEW t \in Trees
  PROVE  Dirty(t) \subseteq Files /\ t.recent \subseteq Files
BY Zenon, GitAssumption DEF Dirty, Staged, Modified, Untracked

\* Nothing is remembered, and nothing asked, at first.
LEMMA NotAskingIsUnderway == ASSUME NEW when PROVE Underway(when, NotAsking)
<1>1. /\ NotAsking.step = "no" /\ NotAsking.spent = 0 /\ NotAsking.dirty = {} /\ NotAsking.recent = {}
      /\ 0 \in 0..Patience
  BY TimeTypes DEF NotAsking
<1>2. NotAsking \in [step : {"no", "root", "status", "seen", "log", "read"}, spent : 0..Patience,
                     dirty : SUBSET Files, recent : SUBSET Files]
  BY <1>1 DEF NotAsking
<1>. QED
  BY <1>1, <1>2 DEF Underway

LEMMA GitInitHolds == GitInit => GitInv
<1>. SUFFICES ASSUME GitInit PROVE GitInv
  OBVIOUS
<1>1. current \in [Trees -> 0..Longest] /\ current[tree] = 0
  BY TimeTypes DEF GitInit
<1>2. Underway(current, asking)
  BY NotAskingIsUnderway DEF GitInit
<1>. QED
  BY <1>1, <1>2 DEF GitInit, GitInv, Answers

\* What was so within a limit is so within a higher one, of times that grew no faster.
LEMMA WithinGrows ==
  ASSUME NEW when, NEW later, NEW set, NEW limit \in Int, NEW more \in Int,
         \A t \in Trees : when[t] <= limit => later[t] <= more
  PROVE  /\ SeenWithin(when, set, limit) => SeenWithin(later, set, more)
         /\ LoggedWithin(when, set, limit) => LoggedWithin(later, set, more)
BY DEF SeenWithin, LoggedWithin

\* A unit of time makes every tree at most one older.
LEMMA OneOlder ==
  ASSUME GitInv, NEW t \in Trees, NEW limit \in Nat, current[t] <= limit,
         current' = [u \in Trees |-> IF u = tree THEN 0 ELSE Older(current[u], Longest)]
  PROVE  current'[t] <= limit + 1
<1>1. current[t] \in 0..Longest /\ Longest \in Nat
  BY TimeTypes DEF GitInv
<1>2. current'[t] = IF t = tree THEN 0 ELSE IF current[t] < Longest THEN current[t] + 1 ELSE Longest
  BY DEF Older
<1>. QED
  BY <1>1, <1>2

\* Time passes for the answers as for the tree, and for a command that runs.
LEMMA PassKeepsGit == ASSUME GitInv, Pass PROVE GitInv'
<1>. USE TtlType, TimeTypes
<1>1. current' \in [Trees -> 0..Longest] /\ current'[tree] = 0
  BY DEF Pass, GitInv, Older
<1>2. /\ current' = [t \in Trees |-> IF t = tree THEN 0 ELSE Older(current[t], Longest)]
      /\ DOMAIN cache' = DOMAIN cache /\ UNCHANGED <<tree, status>>
  BY DEF Pass
<1>3. ASSUME NEW limit \in Nat, NEW set
      PROVE  /\ SeenWithin(current, set, limit) => SeenWithin(current', set, limit + 1)
             /\ LoggedWithin(current, set, limit) => LoggedWithin(current', set, limit + 1)
  <2>1. \A t \in Trees : current[t] <= limit => current'[t] <= limit + 1
    BY <1>2, OneOlder
  <2>. QED
    BY <2>1, WithinGrows
<1>4. ASSUME NEW k \in DOMAIN cache PROVE Recent(current', cache'[k])
  <2>1. cache[k] \in [result : Answers, age : 0..Ttl] /\ Recent(current, cache[k])
    BY DEF GitInv, Recent
  <2>2. cache'[k] = [cache[k] EXCEPT !.age = Older(cache[k].age, Ttl)]
    BY DEF Pass
  <2>3. /\ cache'[k].result = cache[k].result /\ cache'[k].age = Older(cache[k].age, Ttl)
        /\ cache'[k] \in [result : Answers, age : 0..Ttl]
    BY <2>1, <2>2 DEF Older
  <2>4. CASE cache[k].result = NotARepo
    BY <2>3, <2>4 DEF Recent
  <2>5. CASE cache[k].result # NotARepo
    <3>1. PICK dirty, recent :
             /\ cache[k].result = Answer(dirty, recent)
             /\ cache[k].age < Ttl => /\ SeenWithin(current, dirty, cache[k].age + 2 * Patience)
                                    /\ LoggedWithin(current, recent, cache[k].age + Patience)
      BY <2>1, <2>5 DEF Recent
    <3>2. ASSUME cache'[k].age < Ttl
          PROVE  /\ SeenWithin(current', dirty, cache'[k].age + 2 * Patience)
                 /\ LoggedWithin(current', recent, cache'[k].age + Patience)
      <4>1. cache[k].age \in Nat /\ cache[k].age < Ttl /\ cache'[k].age = cache[k].age + 1
        BY <2>1, <2>3, <3>2 DEF Older
      <4>2. /\ cache[k].age + 2 * Patience \in Nat /\ cache[k].age + Patience \in Nat
            /\ cache'[k].age + 2 * Patience = (cache[k].age + 2 * Patience) + 1
            /\ cache'[k].age + Patience = (cache[k].age + Patience) + 1
        BY <4>1
      <4>3. SeenWithin(current, dirty, cache[k].age + 2 * Patience) /\ LoggedWithin(current, recent, cache[k].age + Patience)
        BY <3>1, <4>1
      <4>. QED
        BY Zenon, <1>3, <4>2, <4>3
    <3>. QED
      BY <2>3, <3>1, <3>2 DEF Recent
  <2>. QED
    BY <2>4, <2>5
<1>5. Underway(current', asking')
  <2>1. CASE asking.step = "no"
    BY <2>1 DEF Pass, GitInv, Underway
  <2>2. CASE asking.step # "no"
    <3>1. /\ asking' = [asking EXCEPT !.spent = asking.spent + 1] /\ asking.spent < Patience
          /\ Underway(current, asking)
      BY <2>2 DEF Pass, GitInv
    <3>2. /\ asking'.step = asking.step /\ asking'.spent = asking.spent + 1
          /\ asking'.dirty = asking.dirty /\ asking'.recent = asking.recent
          /\ asking.spent \in Nat /\ asking.spent + Patience \in Nat
          /\ asking'.spent + Patience = (asking.spent + Patience) + 1
      BY <3>1 DEF Underway
    <3>3. asking' \in [step : {"no", "root", "status", "seen", "log", "read"}, spent : 0..Patience,
                       dirty : SUBSET Files, recent : SUBSET Files]
      BY <3>1 DEF Underway
    <3>4. /\ SeenWithin(current, asking.dirty, asking.spent) => SeenWithin(current', asking'.dirty, asking'.spent)
          /\ SeenWithin(current, asking.dirty, asking.spent + Patience) =>
               SeenWithin(current', asking'.dirty, asking'.spent + Patience)
          /\ LoggedWithin(current, asking.recent, asking.spent) =>
               LoggedWithin(current', asking'.recent, asking'.spent)
      BY Zenon, <1>3, <3>2
    <3>. QED
      BY <3>1, <3>2, <3>3, <3>4 DEF Underway
  <2>. QED
    BY <2>1, <2>2
<1>. QED
  BY <1>1, <1>2, <1>4, <1>5 DEF GitInv

\* An edit makes another tree the current one; what is remembered ages on.
LEMMA EditKeepsGit == ASSUME GitInv, NEW t \in Trees, Edit(t) PROVE GitInv'
<1>1. current' \in [Trees -> 0..Longest] /\ current'[t] = 0 /\ UNCHANGED <<asking, cache, status>> /\ tree' = t
  BY TimeTypes DEF Edit, GitInv
<1>2. ASSUME NEW set, NEW limit \in Nat
      PROVE  /\ SeenWithin(current, set, limit) => SeenWithin(current', set, limit)
             /\ LoggedWithin(current, set, limit) => LoggedWithin(current', set, limit)
  <2>1. \A s \in Trees : current[s] <= limit => current'[s] <= limit
    BY DEF Edit, GitInv
  <2>. QED
    BY <2>1, WithinGrows
<1>3. ASSUME NEW k \in DOMAIN cache PROVE Recent(current', cache[k])
  <2>1. Recent(current, cache[k])
    BY DEF GitInv
  <2>2. cache[k].age \in Nat /\ cache[k].age + 2 * Patience \in Nat /\ cache[k].age + Patience \in Nat
    BY <2>1, TimeTypes, TtlType DEF Recent
  <2>. QED
    BY <1>2, <2>1, <2>2 DEF Recent
<1>4. Underway(current', asking)
  <2>1. Underway(current, asking)
    BY DEF GitInv
  <2>2. asking.spent \in Nat /\ asking.spent + Patience \in Nat
    BY <2>1, TimeTypes DEF Underway
  <2>. QED
    BY <1>2, <2>1, <2>2 DEF Underway
<1>. QED
  BY <1>1, <1>3, <1>4 DEF GitInv

\* The fields a command that follows another changes.
LEMMA NextCommand ==
  ASSUME NEW a \in [step : {"no", "root", "status", "seen", "log", "read"}, spent : 0..Patience,
                    dirty : SUBSET Files, recent : SUBSET Files],
         0 \in 0..Patience, NEW step \in {"root", "status", "log"}
  PROVE  /\ [a EXCEPT !.step = step] \in [step : {"no", "root", "status", "seen", "log", "read"},
                                          spent : 0..Patience, dirty : SUBSET Files, recent : SUBSET Files]
         /\ [a EXCEPT !.step = step, !.spent = 0] \in [step : {"no", "root", "status", "seen", "log", "read"},
                                                       spent : 0..Patience, dirty : SUBSET Files, recent : SUBSET Files]
OBVIOUS

\* A step of git's commands.
LEMMA AskingKeepsGit == ASSUME GitInv, Asking PROVE GitInv'
<1>. DEFINE A == [step : {"no", "root", "status", "seen", "log", "read"}, spent : 0..Patience,
                  dirty : SUBSET Files, recent : SUBSET Files]
<1>. USE TimeTypes
<1>1. /\ tree \in Trees /\ current \in [Trees -> 0..Longest] /\ current[tree] = 0 /\ Underway(current, asking)
      /\ UNCHANGED <<tree, current, cache, status>>
  BY DEF GitInv, Asking, Ask, FindRoot, ReadStatus, EndStatus, ReadLog
<1>2. asking \in A /\ asking.spent \in 0..Patience
  BY <1>1 DEF Underway
<1>3. Underway(current, asking')
  <2>1. CASE Ask \/ FindRoot
    <3>1. asking.dirty = {} /\ asking.recent = {}
      BY <1>1, <2>1 DEF Ask, FindRoot, Underway
    <3>2. 0 \in 0..Patience
      OBVIOUS
    <3>3. \/ asking' = [asking EXCEPT !.step = "root"]
          \/ asking' = [asking EXCEPT !.step = "status", !.spent = 0]
      BY <2>1 DEF Ask, FindRoot
    <3>4. asking' \in A
      BY Zenon, <1>2, <3>2, <3>3, NextCommand
    <3>5. asking'.step \in {"root", "status"} /\ asking'.dirty = {} /\ asking'.recent = {}
      BY <1>2, <3>1, <3>3
    <3>. QED
      BY <3>4, <3>5 DEF Underway
  <2>2. CASE ReadStatus
    <3>1. Dirty(tree) \subseteq Files
      BY <1>1, ReportedFiles
    <3>2. /\ asking' \in A /\ asking'.step = "seen" /\ asking'.spent = asking.spent
          /\ asking'.dirty = Dirty(tree) /\ asking'.recent = {}
      BY <1>1, <1>2, <2>2, <3>1 DEF ReadStatus, Underway
    <3>3. SeenWithin(current, asking'.dirty, asking'.spent)
      BY <1>1, <1>2, <3>2 DEF SeenWithin
    <3>. QED
      BY <3>2, <3>3 DEF Underway
  <2>3. CASE EndStatus
    <3>0. /\ asking' = [asking EXCEPT !.step = "log", !.spent = 0]
          /\ asking.step = "seen" /\ asking.recent = {} /\ 0 \in 0..Patience
      BY <1>1, <2>3 DEF EndStatus, Underway
    <3>1. /\ asking' \in A /\ asking'.step = "log" /\ asking'.spent = 0
          /\ asking'.dirty = asking.dirty /\ asking'.recent = {} /\ asking.step = "seen"
      BY <1>2, <3>0, NextCommand
    <3>2. \A t \in Trees : current[t] <= asking.spent => current[t] <= 0 + Patience
      BY <1>1, <1>2
    <3>3. SeenWithin(current, asking.dirty, asking.spent)
      BY <1>1, <3>1 DEF Underway
    <3>4. SeenWithin(current, asking'.dirty, asking'.spent + Patience)
      BY <1>2, <3>1, <3>2, <3>3 DEF SeenWithin
    <3>. QED
      BY <3>1, <3>4 DEF Underway
  <2>4. CASE ReadLog
    <3>1. tree.recent \subseteq Files
      BY <1>1, ReportedFiles
    <3>2. /\ asking' \in A /\ asking'.step = "read" /\ asking'.spent = asking.spent
          /\ asking'.dirty = asking.dirty /\ asking'.recent = tree.recent /\ asking.step = "log"
      BY <1>1, <1>2, <2>4, <3>1 DEF ReadLog
    <3>3. LoggedWithin(current, asking'.recent, asking'.spent)
      BY <1>1, <1>2, <3>2 DEF LoggedWithin
    <3>4. SeenWithin(current, asking'.dirty, asking'.spent + Patience)
      BY <1>1, <3>2 DEF Underway
    <3>. QED
      BY <3>2, <3>3, <3>4 DEF Underway
  <2>. QED
    BY <2>1, <2>2, <2>3, <2>4 DEF Asking
<1>. QED
  BY <1>1, <1>3 DEF GitInv

\* What is newly remembered is recent, and the rest is as recent as before.
LEMMA RememberedIsRecent ==
  ASSUME GitInv, NEW key \in {"cwd", "root"}, NEW result,
         cache' = Remembered(key, result), Recent(current, [result |-> result, age |-> 0])
  PROVE  DOMAIN cache' \subseteq {"cwd", "root"} /\ \A k \in DOMAIN cache' : Recent(current, cache'[k])
<1>1. DOMAIN cache' \subseteq {"cwd", "root"}
  BY DEF GitInv, Remembered
<1>2. ASSUME NEW k \in DOMAIN cache' PROVE Recent(current, cache'[k])
  <2>1. cache'[k] = IF k = key THEN [result |-> result, age |-> 0] ELSE cache[k]
    BY <1>2 DEF Remembered
  <2>2. CASE k = key
    BY <2>1, <2>2
  <2>3. CASE k # key
    <3>1. k \in DOMAIN cache
      BY <1>2, <2>3 DEF Remembered
    <3>. QED
      BY <2>1, <2>3, <3>1 DEF GitInv
  <2>. QED
    BY <2>2, <2>3
<1>. QED
  BY <1>1, <1>2

\* What an inspection learns is an answer, and is remembered as one of its age.
LEMMA InspectKeepsGit == ASSUME GitInv, Inspected PROVE GitInv'
<1>. USE TtlType, TimeTypes
<1>1. CASE Reuse
  <2>1. PICK k \in DOMAIN cache : status' = cache[k].result
    BY <1>1 DEF Reuse, Young
  <2>2. status' \in Answers
    BY <2>1 DEF GitInv, Recent
  <2>. QED
    BY <1>1, <2>2 DEF GitInv, Reuse
<1>2. CASE EndLog \/ GitFails
  <2>1. /\ asking' = NotAsking /\ UNCHANGED <<tree, current>>
        /\ \E key \in {"cwd", "root"} : cache' = Remembered(key, status')
    BY <1>2 DEF EndLog, GitFails
  <2>2. Underway(current', asking')
    BY <2>1, NotAskingIsUnderway
  <2>3. status' \in Answers /\ Recent(current, [result |-> status', age |-> 0])
    <3>1. CASE EndLog
      <4>. DEFINE dirty == asking.dirty
                  recent == asking.recent
      <4>1. status' = Answer(dirty, recent) /\ Underway(current, asking) /\ asking.step \in {"log", "read"}
        BY <3>1 DEF EndLog, GitInv
      <4>2. asking.spent \in 0..Patience /\ SeenWithin(current, dirty, asking.spent + Patience)
        BY <4>1 DEF Underway
      <4>3. recent = {} \/ LoggedWithin(current, recent, asking.spent)
        BY <4>1 DEF Underway
      <4>4. /\ \A t \in Trees : current[t] <= asking.spent + Patience => current[t] <= 0 + 2 * Patience
            /\ \A t \in Trees : current[t] <= asking.spent => current[t] <= 0 + Patience
        BY <4>2 DEF GitInv
      <4>5. PICK t \in Trees : dirty = Dirty(t)
        BY <4>2 DEF SeenWithin
      <4>6. recent \in Logs
        BY <4>3 DEF LoggedWithin, Logs
      <4>7. status' \in Answers
        BY <4>1, <4>5, <4>6 DEF Answers
      <4>8. SeenWithin(current, dirty, 0 + 2 * Patience) /\ LoggedWithin(current, recent, 0 + Patience)
        BY <4>2, <4>3, <4>4 DEF SeenWithin, LoggedWithin
      <4>. HIDE DEF dirty, recent
      <4>. QED
        BY <4>1, <4>7, <4>8 DEF Recent
    <3>2. CASE GitFails
      BY <3>2 DEF GitFails, Answers, Recent
    <3>. QED
      BY <1>2, <3>1, <3>2
  <2>4. DOMAIN cache' \subseteq {"cwd", "root"} /\ \A k \in DOMAIN cache' : Recent(current, cache'[k])
    BY <2>1, <2>3, RememberedIsRecent
  <2>. QED
    BY <2>1, <2>2, <2>3, <2>4 DEF GitInv
<1>. QED
  BY <1>1, <1>2 DEF Inspected

\* Git's part of the state stays while its variables do.
LEMMA GitFrame == ASSUME GitInv, UNCHANGED gitVars PROVE GitInv'
BY DEF gitVars, GitInv

\* Git's part of the state under every step of the stage.
LEMMA StepKeepsGit == ASSUME GitInv, [TopologyNext]_topologyVars PROVE GitInv'
<1>1. CASE InspectAgain \/ InspectGit
  BY <1>1, InspectKeepsGit DEF InspectAgain, InspectGit
<1>2. CASE TimePasses
  BY <1>2, PassKeepsGit, EditKeepsGit DEF TimePasses, GitNext
<1>3. CASE AskGit
  BY <1>3, AskingKeepsGit DEF AskGit
<1>4. CASE UNCHANGED gitVars
  BY <1>4, GitFrame
<1>. QED
  BY <1>1, <1>2, <1>3, <1>4 DEF TopologyNext, Visit, ScoreItems, Solve, topologyVars

\* So it holds in every state.
LEMMA GitInvariant == TopologySpec => []GitInv
<1>1. TopologyInit => GitInv
  BY GitInitHolds DEF TopologyInit
<1>. QED
  BY <1>1, StepKeepsGit, PTL DEF TopologySpec

\* A remembered answer that may still be used is recent.
LEMMA InvStatusIsRecent == ASSUME GitInv PROVE StatusIsRecent
<1>. SUFFICES ASSUME NEW k \in DOMAIN cache, Young(k), cache[k].result.isGitRepo
     PROVE /\ \E t \in Trees : cache[k].result.allDirtyFiles = Dirty(t) /\ current[t] < Ttl + 2 * Patience
           /\ \E t \in Trees :
                cache[k].result.recentCommitFiles \in {{}, t.recent} /\ current[t] < Ttl + Patience
  BY DEF StatusIsRecent
<1>. USE TtlType, TimeTypes
<1>1. Recent(current, cache[k]) /\ cache[k].age < Ttl /\ cache[k].age \in Nat
  BY DEF GitInv, Young, Recent
<1>2. cache[k].result # NotARepo
  BY DEF NotARepo
<1>3. PICK dirty, recent :
         /\ cache[k].result = Answer(dirty, recent)
         /\ SeenWithin(current, dirty, cache[k].age + 2 * Patience)
         /\ LoggedWithin(current, recent, cache[k].age + Patience)
  BY <1>1, <1>2 DEF Recent
<1>4. cache[k].result.allDirtyFiles = dirty /\ cache[k].result.recentCommitFiles = recent
  BY <1>3 DEF Answer
<1>5. \A t \in Trees : current[t] \in Int
  BY DEF GitInv
<1>6. \E t \in Trees : dirty = Dirty(t) /\ current[t] < Ttl + 2 * Patience
  BY <1>1, <1>3, <1>5 DEF SeenWithin
<1>7. \E t \in Trees : recent \in {{}, t.recent} /\ current[t] < Ttl + Patience
  <2>1. CASE recent = {}
    BY <2>1 DEF GitInv
  <2>2. CASE recent # {}
    BY <1>1, <1>3, <1>5, <2>2 DEF LoggedWithin
  <2>. QED
    BY <2>1, <2>2
<1>. QED
  BY <1>4, <1>6, <1>7

\* An answer that is still reused is one git would have given less than the time to
\* live ago and the time of its commands, however answers were reused, lost or asked
\* for again, and whatever was edited while git was asked.
THEOREM BelievesRecentStatus == TopologySpec => []StatusIsRecent
BY InvStatusIsRecent, GitInvariant, PTL

-----------------------------------------------------------------------------
(* The density order.                                                      *)

\* The library's greatest and least element, of two.
LEMMA MaxOfTwo ==
  ASSUME NEW a \in Int, NEW b \in Int
  PROVE  Max({a, b}) = IF a >= b THEN a ELSE b
BY DEF Max

\* The library's least element, of two.
LEMMA MinOfTwo ==
  ASSUME NEW a \in Int, NEW b \in Int
  PROVE  Min({a, b}) = IF a <= b THEN a ELSE b
BY DEF Min

\* A product of naturals is one.
LEMMA TimesNat == ASSUME NEW a \in Nat, NEW b \in Nat PROVE a * b \in Nat
OBVIOUS

\* Multiplication respects the order, and a positive factor can be cancelled.
LEMMA TimesMonotone ==
  ASSUME NEW a \in Nat, NEW b \in Nat, NEW c \in Nat, a <= b
  PROVE  a * c \in Nat /\ b * c \in Nat /\ a * c <= b * c
<1>1. PICK d \in Nat : b = a + d
  <2>1. b - a \in Nat /\ b = a + (b - a)
    OBVIOUS
  <2>. QED
    BY <2>1
<1>2. b * c = a * c + d * c /\ a * c \in Nat /\ d * c \in Nat
  BY <1>1
<1>. QED
  BY <1>2

\* The same, strictly.
LEMMA TimesStrict ==
  ASSUME NEW a \in Nat, NEW b \in Nat, NEW c \in Nat, c > 0, a < b
  PROVE  a * c < b * c
<1>1. (a + 1) * c <= b * c
  BY TimesMonotone
<1>2. (a + 1) * c = a * c + c /\ a * c \in Nat
  OBVIOUS
<1>3. b * c \in Nat
  OBVIOUS
<1>. QED
  BY <1>1, <1>2, <1>3

\* Of fractions with positive denominators, not less and more are transitive.
LEMMA FractionsOrdered ==
  ASSUME NEW a \in Nat, NEW b \in Nat, NEW c \in Nat,
         NEW p \in Nat, NEW q \in Nat, NEW r \in Nat, p > 0, q > 0, r > 0,
         b * p <= a * q, c * q <= b * r
  PROVE  /\ c * p <= a * r
         /\ b * p < a * q \/ c * q < b * r => c * p < a * r
<1>1. (b * p) * r <= (a * q) * r /\ (c * q) * p <= (b * r) * p
  BY TimesMonotone
<1>2. (b * p) * r = (b * r) * p /\ (a * q) * r = (a * r) * q /\ (c * q) * p = (c * p) * q
  OBVIOUS
<1>3. (c * p) * q <= (a * r) * q
  <2>1. (c * q) * p \in Nat /\ (b * p) * r \in Nat /\ (a * q) * r \in Nat
    OBVIOUS
  <2>. QED
    BY <1>1, <1>2, <2>1
<1>4. c * p <= a * r
  <2>1. c * p \in Nat /\ a * r \in Nat
    OBVIOUS
  <2>2. ~(a * r < c * p)
    <3>1. a * r < c * p => (a * r) * q < (c * p) * q
      BY <2>1, TimesStrict
    <3>2. (a * r) * q \in Nat /\ (c * p) * q \in Nat
      BY <2>1
    <3>. QED
      BY <1>3, <3>1, <3>2
  <2>. QED
    BY <2>1, <2>2
<1>5. ASSUME b * p < a * q \/ c * q < b * r PROVE c * p < a * r
  <2>1. (b * p) * r < (a * q) * r \/ (c * q) * p < (b * r) * p
    <3>1. b * p \in Nat /\ a * q \in Nat /\ c * q \in Nat /\ b * r \in Nat
      OBVIOUS
    <3>. QED
      BY <1>5, <3>1, TimesStrict
  <2>2. (c * q) * p \in Nat /\ (b * p) * r \in Nat /\ (a * q) * r \in Nat
    OBVIOUS
  <2>3. (c * p) * q < (a * r) * q
    BY <1>1, <1>2, <2>1, <2>2
  <2>4. c * p \in Nat /\ a * r \in Nat
    OBVIOUS
  <2>5. c * p # a * r
    <3>1. (c * p) * q \in Nat
      BY <2>4
    <3>. QED
      BY <2>3, <3>1
  <2>. QED
    BY <1>4, <2>4, <2>5
<1>. QED
  BY <1>4, <1>5

-----------------------------------------------------------------------------
\* What the solvers work on.
Thing == [weight : Nat, value : Nat, keep : BOOLEAN]

\* The weight density is taken by.
Mass(i) == Max({1, items[i].weight})

\* The parts of an item.
LEMMA ItemType ==
  ASSUME items \in Seq(Thing), NEW i \in All
  PROVE  /\ items[i].weight \in Nat /\ items[i].value \in Nat /\ items[i].keep \in BOOLEAN
         /\ Mass(i) \in Nat /\ Mass(i) > 0 /\ Mass(i) >= items[i].weight
         /\ items[i].weight > 0 => Mass(i) = items[i].weight
<1>1. items[i] \in Thing
  BY DEF All
<1>2. items[i].weight \in Nat /\ items[i].value \in Nat /\ items[i].keep \in BOOLEAN
  BY <1>1 DEF Thing
<1>3. Mass(i) = IF 1 >= items[i].weight THEN 1 ELSE items[i].weight
  BY <1>2, MaxOfTwo DEF Mass
<1>. QED
  BY <1>2, <1>3

\* i is at least as dense as j.
AsDense(i, j) == items[j].value * Mass(i) <= items[i].value * Mass(j)

\* The order of the greedy solver is by density first.
LEMMA DenserIsAsDense ==
  ASSUME items \in Seq(Thing), NEW i \in All, NEW j \in All, Denser(i, j)
  PROVE  AsDense(i, j)
<1>1. items[j].value * Mass(i) \in Nat /\ items[i].value * Mass(j) \in Nat
  BY ItemType
<1>. QED
  BY <1>1 DEF Denser, AsDense, Mass

\* It is a total order: of densities, then of values, then of places.
LEMMA DensityOrders ==
  ASSUME items \in Seq(Thing), NEW S, S \subseteq All
  PROVE  IsOrder(ByDensity, S)
<1>. DEFINE v(i) == items[i].value
            lead(i, j) == v(i) * Mass(j)
<1>0. \A i \in All : i \in Nat
  BY DEF All
<1>1. \A i, j \in All : lead(i, j) \in Nat /\ v(i) \in Nat /\ Mass(i) \in Nat /\ Mass(i) > 0
  BY ItemType
<1>2. \A i, j \in All :
        <<i, j>> \in ByDensity <=>
          \/ lead(i, j) > lead(j, i)
          \/ lead(i, j) = lead(j, i) /\ v(i) > v(j)
          \/ lead(i, j) = lead(j, i) /\ v(i) = v(j) /\ i < j
  BY DEF ByDensity, Denser, Mass
<1>3. ASSUME NEW i \in S, NEW j \in S, i # j
      PROVE  <<i, j>> \in ByDensity \/ <<j, i>> \in ByDensity
  <2>1. i \in All /\ j \in All
    OBVIOUS
  <2>. HIDE DEF v, lead
  <2>. QED
    BY <1>0, <1>1, <1>2, <1>3, <2>1
<1>4. ASSUME NEW i \in S, NEW j \in S, NEW k \in S, <<i, j>> \in ByDensity, <<j, k>> \in ByDensity
      PROVE  <<i, k>> \in ByDensity
  <2>1. i \in All /\ j \in All /\ k \in All
    OBVIOUS
  <2>2. /\ lead(k, i) <= lead(i, k)
        /\ lead(j, i) < lead(i, j) \/ lead(k, j) < lead(j, k) => lead(k, i) < lead(i, k)
    <3>1. lead(j, i) <= lead(i, j) /\ lead(k, j) <= lead(j, k)
      <4>1. lead(i, j) > lead(j, i) \/ lead(i, j) = lead(j, i)
        <5>. HIDE DEF v, lead
        <5>. QED
          BY <1>2, <1>4, <2>1
      <4>2. lead(j, k) > lead(k, j) \/ lead(j, k) = lead(k, j)
        <5>. HIDE DEF v, lead
        <5>. QED
          BY <1>2, <1>4, <2>1
      <4>3. /\ lead(i, j) \in Nat /\ lead(j, i) \in Nat
            /\ lead(j, k) \in Nat /\ lead(k, j) \in Nat
        BY <1>1, <2>1
      <4>. HIDE DEF v, lead
      <4>. QED
        BY <4>1, <4>2, <4>3
    <3>2. /\ v(i) \in Nat /\ v(j) \in Nat /\ v(k) \in Nat
          /\ Mass(i) \in Nat /\ Mass(j) \in Nat /\ Mass(k) \in Nat
          /\ Mass(i) > 0 /\ Mass(j) > 0 /\ Mass(k) > 0
      BY <1>1, <2>1
    <3>3. /\ v(k) * Mass(i) <= v(i) * Mass(k)
          /\ v(j) * Mass(i) < v(i) * Mass(j) \/ v(k) * Mass(j) < v(j) * Mass(k)
               => v(k) * Mass(i) < v(i) * Mass(k)
      <4>. HIDE DEF v
      <4>. QED
        BY <3>1, <3>2, FractionsOrdered
    <3>. QED
      BY <3>3
  <2>3. /\ lead(i, j) \in Nat /\ lead(j, i) \in Nat /\ lead(j, k) \in Nat /\ lead(k, j) \in Nat
        /\ lead(i, k) \in Nat /\ lead(k, i) \in Nat /\ v(i) \in Nat /\ v(j) \in Nat /\ v(k) \in Nat
        /\ i \in Nat /\ j \in Nat /\ k \in Nat
    BY <1>0, <1>1, <2>1
  <2>4. \/ lead(i, j) > lead(j, i)
        \/ lead(i, j) = lead(j, i) /\ v(i) > v(j)
        \/ lead(i, j) = lead(j, i) /\ v(i) = v(j) /\ i < j
    BY <1>2, <1>4, <2>1
  <2>5. \/ lead(j, k) > lead(k, j)
        \/ lead(j, k) = lead(k, j) /\ v(j) > v(k)
        \/ lead(j, k) = lead(k, j) /\ v(j) = v(k) /\ j < k
    BY <1>2, <1>4, <2>1
  <2>6. \/ lead(i, k) > lead(k, i)
        \/ lead(i, k) = lead(k, i) /\ v(i) > v(k)
        \/ lead(i, k) = lead(k, i) /\ v(i) = v(k) /\ i < k
    <3>. HIDE DEF v, lead
    <3>. QED
      BY <2>2, <2>3, <2>4, <2>5
  <2>. QED
    BY <1>2, <2>1, <2>6
<1>. QED
  BY <1>3, <1>4 DEF IsOrder

\* So is the order of the places.
LEMMA PositionOrders ==
  ASSUME items \in Seq(Thing), NEW S, S \subseteq All
  PROVE  IsOrder(ByPlace, S)
<1>1. All \subseteq Nat
  BY DEF All
<1>2. \A i, j \in All : <<i, j>> \in ByPlace <=> i < j
  BY DEF ByPlace
<1>. QED
  BY <1>1, <1>2 DEF IsOrder

\* There are finitely many items.
LEMMA AllFinite ==
  ASSUME items \in Seq(Thing)
  PROVE  /\ Len(items) \in Nat /\ All = DOMAIN items
         /\ IsFiniteSet(All) /\ All \subseteq Nat
         /\ \A S \in SUBSET All : IsFiniteSet(S)
<1>1. Len(items) \in Nat /\ All = DOMAIN items /\ All \subseteq Nat
  BY DEF All
<1>2. IsFiniteSet(All)
  BY <1>1, FS_Interval DEF All
<1>. QED
  BY <1>1, <1>2, FS_Subset

\* The candidates of the exact solver are all that is not pinned, in some order.
LEMMA ExactCandidates ==
  ASSUME items \in Seq(Thing), NEW S, S \subseteq All
  PROVE  Ordered(S, ByPlace) \in SetToSeqs(S)
<1>1. PICK s : Lists(s, S, ByPlace)
  BY AllFinite, PositionOrders, ListExists
<1>. QED
  BY <1>1 DEF Lists, Ordered

\* Those of the greedy solver too, none after a denser one.
LEMMA GreedyCandidates ==
  ASSUME items \in Seq(Thing), NEW S, S \subseteq All
  PROVE  /\ Ordered(S, ByDensity) \in SetToSeqs(S)
         /\ \A m \in 1..Cardinality(S) : \A n \in 1..(m - 1) :
              Denser(Ordered(S, ByDensity)[n], Ordered(S, ByDensity)[m])
<1>1. PICK s : Lists(s, S, ByDensity)
  BY AllFinite, DensityOrders, ListExists
<1>2. Lists(Ordered(S, ByDensity), S, ByDensity)
  BY <1>1 DEF Lists, Ordered
<1>. QED
  BY <1>2 DEF Lists, ByDensity

-----------------------------------------------------------------------------
(* Weights and values of sets of items.                                    *)

\* Weight and Value add up over disjoint sets.
LEMMA WeightSums ==
  ASSUME items \in Seq(Thing)
  PROVE  /\ \A S \in SUBSET All : Weight(S) \in Nat /\ Value(S) \in Nat
         /\ Weight({}) = 0 /\ Value({}) = 0
         /\ \A S \in SUBSET All : \A i \in All \ S :
              /\ Weight(S \cup {i}) = Weight(S) + items[i].weight
              /\ Value(S \cup {i}) = Value(S) + items[i].value
         /\ \A S, R \in SUBSET All : S \cap R = {} =>
              /\ Weight(S \cup R) = Weight(S) + Weight(R)
              /\ Value(S \cup R) = Value(S) + Value(R)
<1>. DEFINE f == [i \in All |-> items[i].weight]
            g == [i \in All |-> items[i].value]
<1>1. \A i \in All : f[i] = items[i].weight /\ f[i] \in Nat /\ g[i] = items[i].value /\ g[i] \in Nat
  BY ItemType
<1>2. \A S : Weight(S) = SumFunctionOnSet(f, S) /\ Value(S) = SumFunctionOnSet(g, S)
  BY DEF Weight, Value
<1>. HIDE DEF f, g
<1>3. \A S \in SUBSET All : IsFiniteSet(S)
  BY AllFinite
<1>4. \A S \in SUBSET All : Weight(S) \in Nat /\ Value(S) \in Nat
  <2>. SUFFICES ASSUME NEW S \in SUBSET All
                PROVE  SumFunctionOnSet(f, S) \in Nat /\ SumFunctionOnSet(g, S) \in Nat
    BY <1>2
  <2>. QED
    BY <1>1, <1>3, SumNat
<1>5. Weight({}) = 0 /\ Value({}) = 0
  BY <1>2, SumEmpty
<1>6. ASSUME NEW S \in SUBSET All, NEW i \in All \ S
      PROVE  /\ Weight(S \cup {i}) = Weight(S) + items[i].weight
             /\ Value(S \cup {i}) = Value(S) + items[i].value
  <2>1. /\ SumFunctionOnSet(f, S \cup {i}) = f[i] + SumFunctionOnSet(f, S)
        /\ SumFunctionOnSet(g, S \cup {i}) = g[i] + SumFunctionOnSet(g, S)
    BY <1>1, <1>3, SumAdd
  <2>2. Weight(S) \in Nat /\ Value(S) \in Nat
    BY <1>4
  <2>. QED
    BY <1>1, <1>2, <2>1, <2>2
<1>7. ASSUME NEW S \in SUBSET All, NEW R \in SUBSET All, S \cap R = {}
      PROVE  /\ Weight(S \cup R) = Weight(S) + Weight(R)
             /\ Value(S \cup R) = Value(S) + Value(R)
  BY <1>1, <1>2, <1>3, <1>7, SumDisjoint
<1>. QED
  BY <1>4, <1>5, <1>6, <1>7

\* More items weigh no less and are worth no less.
LEMMA MoreWeighs ==
  ASSUME items \in Seq(Thing), NEW R \in SUBSET All, NEW S \in SUBSET R
  PROVE  /\ Weight(S) <= Weight(R) /\ Value(S) <= Value(R)
         /\ Weight(R) = Weight(S) + Weight(R \ S) /\ Value(R) = Value(S) + Value(R \ S)
<1>1. S \in SUBSET All /\ R \ S \in SUBSET All /\ S \cap (R \ S) = {} /\ S \cup (R \ S) = R
  OBVIOUS
<1>2. Weight(R) = Weight(S) + Weight(R \ S) /\ Value(R) = Value(S) + Value(R \ S)
  BY <1>1, WeightSums
<1>3. /\ Weight(S) \in Nat /\ Value(S) \in Nat
      /\ Weight(R \ S) \in Nat /\ Value(R \ S) \in Nat
  BY <1>1, WeightSums
<1>. QED
  BY <1>2, <1>3

\* A set of one weighs what the one does.
LEMMA OneWeighs ==
  ASSUME items \in Seq(Thing), NEW i \in All
  PROVE  Weight({i}) = items[i].weight /\ Value({i}) = items[i].value
<1>1. {} \cup {i} = {i} /\ {} \in SUBSET All /\ i \in All \ {}
  OBVIOUS
<1>2. /\ Weight({} \cup {i}) = Weight({}) + items[i].weight
      /\ Value({} \cup {i}) = Value({}) + items[i].value
  BY <1>1, WeightSums
<1>. QED
  BY <1>1, <1>2, WeightSums, ItemType

\* A set weighs what it does without one of its items, and that one.
LEMMA WithoutOne ==
  ASSUME items \in Seq(Thing), NEW S \in SUBSET All, NEW i \in S
  PROVE  /\ Weight(S) = Weight(S \ {i}) + items[i].weight
         /\ Value(S) = Value(S \ {i}) + items[i].value
<1>1. S \ {i} \in SUBSET All /\ i \in All \ (S \ {i}) /\ (S \ {i}) \cup {i} = S
  OBVIOUS
<1>. QED
  BY <1>1, WeightSums

-----------------------------------------------------------------------------
(* The best value within a capacity.                                       *)

BestOf(S, c) == Max({Value(T) : T \in {U \in SUBSET S : Weight(U) <= c}})

\* It is attained, and not exceeded.
LEMMA BestIsBest ==
  ASSUME items \in Seq(Thing), NEW S \in SUBSET All, NEW c \in Nat
  PROVE  /\ BestOf(S, c) \in Nat
         /\ \E T \in SUBSET S : Weight(T) <= c /\ Value(T) = BestOf(S, c)
         /\ \A T \in SUBSET S : Weight(T) <= c => Value(T) <= BestOf(S, c)
<1>. DEFINE V == {Value(T) : T \in {U \in SUBSET S : Weight(U) <= c}}
<1>1. V \subseteq Nat /\ Value(S) \in Nat
  BY WeightSums
<1>2. \A x \in V : x <= Value(S)
  BY MoreWeighs
<1>3. {} \in {U \in SUBSET S : Weight(U) <= c}
  BY WeightSums
<1>4. V # {} /\ IsFiniteSet(V)
  <2>1. Value({}) \in V
    BY <1>3
  <2>2. IsFiniteSet(V)
    <3>. HIDE DEF V
    <3>. QED
      BY <1>1, <1>2, FS_BoundedSetOfNaturals
  <2>. QED
    BY <2>1, <2>2
<1>5. PICK m \in V : \A n \in V : n <= m
  <2>. HIDE DEF V
  <2>. QED
    BY <1>1, <1>4, GreatestNatural
<1>6. Max(V) \in V /\ \A n \in V : n <= Max(V)
  <2>. HIDE DEF V
  <2>1. m \in V /\ \A y \in V : m >= y
    BY <1>1, <1>5
  <2>2. Max(V) \in V /\ \A y \in V : Max(V) >= y
    BY <2>1 DEF Max
  <2>. QED
    BY <1>1, <2>2
<1>7. BestOf(S, c) = Max(V)
  BY DEF BestOf
<1>. QED
  BY <1>1, <1>6, <1>7

\* What attains it and is not exceeded is it.
LEMMA BestIsUnique ==
  ASSUME items \in Seq(Thing), NEW S \in SUBSET All, NEW c \in Nat, NEW b \in Nat,
         NEW T \in SUBSET S, Weight(T) <= c, Value(T) = b,
         \A U \in SUBSET S : Weight(U) <= c => Value(U) <= b
  PROVE  BestOf(S, c) = b
<1>1. BestOf(S, c) \in Nat /\ b <= BestOf(S, c)
  BY BestIsBest
<1>2. PICK U \in SUBSET S : Weight(U) <= c /\ Value(U) = BestOf(S, c)
  BY BestIsBest
<1>3. BestOf(S, c) <= b
  BY <1>2
<1>. QED
  BY <1>1, <1>3

\* Nothing is the best of nothing.
LEMMA BestOfNone ==
  ASSUME items \in Seq(Thing), NEW c \in Nat
  PROVE  BestOf({}, c) = 0
<1>1. {} \in SUBSET All /\ {} \in SUBSET {} /\ Weight({}) <= c /\ Value({}) = 0
  BY WeightSums
<1>2. ASSUME NEW U \in SUBSET {} PROVE Value(U) <= 0
  <2>1. U = {}
    OBVIOUS
  <2>2. Value(U) = 0
    BY <1>1, <2>1
  <2>. QED
    BY <2>2
<1>3. \A U \in SUBSET {} : Weight(U) <= c => Value(U) <= 0
  BY <1>2
<1>4. 0 \in Nat
  OBVIOUS
<1>. QED
  BY ONLY <1>1, <1>3, <1>4, items \in Seq(Thing), c \in Nat, BestIsUnique

\* The best with one more item is the best without it, or the item and the best of
\* what it leaves.
LEMMA BestWithOneMore ==
  ASSUME items \in Seq(Thing), NEW S \in SUBSET All, NEW x \in All \ S, NEW c \in Nat
  PROVE  BestOf(S \cup {x}, c) =
           IF /\ items[x].weight <= c
              /\ BestOf(S, c - items[x].weight) + items[x].value > BestOf(S, c)
           THEN BestOf(S, c - items[x].weight) + items[x].value
           ELSE BestOf(S, c)
<1>. DEFINE w == items[x].weight
            v == items[x].value
            R == S \cup {x}
<1>1. w \in Nat /\ v \in Nat /\ R \in SUBSET All
  BY ItemType
<1>2. BestOf(S, c) \in Nat
  BY BestIsBest
<1>3. PICK P \in SUBSET S : Weight(P) <= c /\ Value(P) = BestOf(S, c)
  BY BestIsBest
\* A set without x is worth no more than the best without it, one with x no more
\* than x and the best of what it leaves.
<1>4. ASSUME NEW U \in SUBSET R, Weight(U) <= c, x \notin U PROVE Value(U) <= BestOf(S, c)
  <2>1. U \in SUBSET S
    BY <1>4
  <2>. QED
    BY <1>4, <2>1, BestIsBest
<1>5. ASSUME NEW U \in SUBSET R, Weight(U) <= c, x \in U
      PROVE  w <= c /\ Value(U) <= BestOf(S, c - w) + v
  <2>1. U \in SUBSET All /\ U \ {x} \in SUBSET S
    BY <1>1
  <2>2. Weight(U) = Weight(U \ {x}) + w /\ Value(U) = Value(U \ {x}) + v
    BY <1>5, <2>1, WithoutOne
  <2>3. Weight(U \ {x}) \in Nat /\ Value(U \ {x}) \in Nat
    BY <2>1, WeightSums
  <2>4. c - w \in Nat /\ Weight(U \ {x}) <= c - w
    <3>. HIDE DEF w
    <3>. QED
      BY <1>1, <1>5, <2>2, <2>3
  <2>5. Value(U \ {x}) <= BestOf(S, c - w) /\ BestOf(S, c - w) \in Nat
    <3>. HIDE DEF w
    <3>. QED
      BY <2>1, <2>4, BestIsBest
  <2>. HIDE DEF w, v
  <2>. QED
    BY <1>1, <2>2, <2>3, <2>4, <2>5
<1>6. CASE w <= c /\ BestOf(S, c - w) + v > BestOf(S, c)
  <2>1. c - w \in Nat
    BY <1>1, <1>6
  <2>2. BestOf(S, c - w) \in Nat /\ \E T \in SUBSET S : Weight(T) <= c - w /\ Value(T) = BestOf(S, c - w)
    <3>. HIDE DEF w
    <3>. QED
      BY <2>1, BestIsBest
  <2>3. PICK T \in SUBSET S : Weight(T) <= c - w /\ Value(T) = BestOf(S, c - w)
    BY <2>2
  <2>4. T \in SUBSET All /\ x \in All \ T
    OBVIOUS
  <2>5. Weight(T \cup {x}) = Weight(T) + w /\ Value(T \cup {x}) = Value(T) + v /\ Weight(T) \in Nat
    BY <2>4, WeightSums
  <2>6. Weight(T \cup {x}) <= c /\ Value(T \cup {x}) = BestOf(S, c - w) + v
    <3>. HIDE DEF w, v
    <3>. QED
      BY <1>1, <2>3, <2>5
  <2>7. BestOf(S, c - w) + v \in Nat
    <3>. HIDE DEF w, v
    <3>. QED
      BY <1>1, <2>2
  <2>8. ASSUME NEW U \in SUBSET R, Weight(U) <= c PROVE Value(U) <= BestOf(S, c - w) + v
    <3>1. Value(U) \in Nat
      BY <1>1, WeightSums
    <3>. HIDE DEF w, v, R
    <3>. QED
      BY <1>2, <1>4, <1>5, <1>6, <2>7, <2>8, <3>1
  <2>9. T \cup {x} \in SUBSET R
    OBVIOUS
  <2>10. BestOf(R, c) = BestOf(S, c - w) + v
    <3>. HIDE DEF w, v, R
    <3>. QED
      BY <1>1, <2>6, <2>7, <2>8, <2>9, BestIsUnique
  <2>. QED
    BY <1>6, <2>10
<1>7. CASE ~(w <= c /\ BestOf(S, c - w) + v > BestOf(S, c))
  <2>1. ASSUME NEW U \in SUBSET R, Weight(U) <= c PROVE Value(U) <= BestOf(S, c)
    <3>1. Value(U) \in Nat
      BY <1>1, WeightSums
    <3>2. CASE x \notin U
      BY <1>4, <2>1, <3>2
    <3>3. CASE x \in U
      <4>1. w <= c /\ Value(U) <= BestOf(S, c - w) + v
        BY <1>5, <2>1, <3>3
      <4>2. c - w \in Nat
        BY <1>1, <4>1
      <4>3. BestOf(S, c - w) \in Nat
        <5>. HIDE DEF w
        <5>. QED
          BY <4>2, BestIsBest
      <4>. HIDE DEF w, v
      <4>. QED
        BY <1>1, <1>2, <1>7, <3>1, <4>1, <4>3
    <3>. QED
      BY <3>2, <3>3
  <2>2. P \in SUBSET R
    OBVIOUS
  <2>3. BestOf(R, c) = BestOf(S, c)
    <3>. HIDE DEF R
    <3>. QED
      BY <1>1, <1>2, <1>3, <2>1, <2>2, BestIsUnique
  <2>. QED
    BY <1>7, <2>3
<1>. QED
  BY <1>6, <1>7

-----------------------------------------------------------------------------
(* What the solvers have established at each of their steps.               *)

Over == Weight(All) > maxTokens

Unpinned == All \ Pinned

Picked == selected \ Pinned

\* The first n candidates.
Prefix(n) == {candidates[m] : m \in 1..n}

\* The nth candidate improves what the ones before it are worth within c.
Improves(n, c) ==
  LET i == candidates[n]
  IN /\ items[i].weight <= c
     /\ BestOf(Prefix(n - 1), c - items[i].weight) + items[i].value > BestOf(Prefix(n - 1), c)

\* The bits of the first n rows say where a candidate improved the best.
BitsTell(n) ==
  \A m \in Nat : \A c \in 0..residual : <<m, c>> \in bits <=> m \in 1..n /\ Improves(m, c)

\* The table gives the best of the candidates seen, for each capacity.
Filling ==
  /\ selected = Pinned
  /\ cap = residual
  /\ at \in 1..(Len(candidates) + 1)
  /\ BitsTell(at - 1)
  /\ dp = [c \in 0..residual |-> BestOf(Prefix(at - 1), c)]

\* What was picked, with the best of the rest within what is left, is optimal.
Tracing ==
  /\ at \in 0..Len(candidates)
  /\ cap \in 0..residual
  /\ BitsTell(Len(candidates))
  /\ dp[residual] = BestOf(Unpinned, residual)
  /\ Picked \cap Prefix(at) = {}
  /\ Weight(Picked) + cap <= residual
  /\ Value(Picked) + BestOf(Prefix(at), cap) = BestOf(Unpinned, residual)

Sorted ==
  \A m \in 1..Len(candidates) : \A n \in 1..(m - 1) : Denser(candidates[n], candidates[m])

\* A candidate is passed over because those picked before it leave too little.
PassedOver(n) ==
  candidates[n] \notin Picked =>
    Weight(Picked \cap Prefix(n - 1)) + items[candidates[n]].weight > residual

Packing ==
  /\ at \in 1..(Len(candidates) + 1)
  /\ Sorted
  /\ Picked \subseteq Prefix(at - 1)
  /\ Weight(Picked) <= residual
  /\ \A n \in 1..(at - 1) : PassedOver(n)

\* Of two candidates alike in weight the one picked is worth no less.
Preferred(P) ==
  \A i \in P, j \in Unpinned \ P :
    items[i].weight = items[j].weight => items[j].value <= items[i].value

Solved ==
  /\ Weight(Picked) <= residual
  /\ Preferred(Picked)
  /\ residual > 0 /\ Exact(Len(candidates), residual)
       => Value(Picked) = BestOf(Unpinned, residual) /\ dp[residual] = BestOf(Unpinned, residual)
  /\ residual > 0 /\ ~Exact(Len(candidates), residual)
       => BestOf(Unpinned, residual) <= 2 * Value(Picked)

Unsolved == phase \in {"inspect", "search", "start"}

Laid ==
  /\ candidates \in SetToSeqs(Unpinned)
  /\ residual = Capacity
  /\ Pinned \subseteq selected /\ selected \subseteq All
  /\ phase = "fill" => Exact(Len(candidates), residual) /\ Filling
  /\ phase = "trace" => Exact(Len(candidates), residual) /\ Tracing
  /\ phase = "greedy" => ~Exact(Len(candidates), residual) /\ Packing
  /\ phase = "done" => Solved

SolverInv ==
  /\ items \in Seq(Thing)
  /\ maxTokens \in Nat
  /\ phase \in {"inspect", "search", "start", "fill", "trace", "greedy", "done"}
  /\ Unsolved => at = 1 /\ bits = {}
  /\ phase \in {"fill", "trace", "greedy"} => Over
  /\ phase = "done" /\ ~Over => selected = All
  /\ ~Unsolved /\ Over => Laid

-----------------------------------------------------------------------------
\* What the pinned items leave, and the items they leave out.
LEMMA CapacityType ==
  ASSUME items \in Seq(Thing), maxTokens \in Nat
  PROVE  /\ Capacity \in Nat
         /\ Capacity = IF Weight(Pinned) <= maxTokens THEN maxTokens - Weight(Pinned) ELSE 0
         /\ Pinned \subseteq All /\ Weight(Pinned) \in Nat
         /\ Unpinned \subseteq All /\ Pinned \cup Unpinned = All /\ Pinned \cap Unpinned = {}
<1>1. Pinned \subseteq All
  BY DEF Pinned
<1>2. Weight(Pinned) \in Nat
  BY <1>1, WeightSums
<1>3. Capacity = IF 0 >= maxTokens - Weight(Pinned) THEN 0 ELSE maxTokens - Weight(Pinned)
  BY <1>2, MaxOfTwo DEF Capacity
<1>. QED
  BY <1>1, <1>2, <1>3 DEF Unpinned

\* The candidates: each unpinned item once.
LEMMA CandidateFacts ==
  ASSUME items \in Seq(Thing), candidates \in SetToSeqs(Unpinned)
  PROVE  /\ Len(candidates) \in Nat
         /\ Len(candidates) = Cardinality(Unpinned)
         /\ \A n \in 1..Len(candidates) : candidates[n] \in Unpinned /\ candidates[n] \in All
         /\ \A n, m \in 1..Len(candidates) : candidates[n] = candidates[m] => n = m
         /\ \A i \in Unpinned : \E n \in 1..Len(candidates) : candidates[n] = i
         /\ ToSet(candidates) = Unpinned
<1>1. Unpinned \subseteq All /\ IsFiniteSet(Unpinned)
  BY AllFinite DEF Unpinned
<1>. QED
  BY <1>1, ListIsWhole

\* The first n candidates are those before the nth, and the nth.
LEMMA PrefixFacts ==
  ASSUME items \in Seq(Thing), candidates \in SetToSeqs(Unpinned)
  PROVE  /\ Prefix(0) = {} /\ Prefix(Len(candidates)) = Unpinned
         /\ \A n \in 0..Len(candidates) : Prefix(n) \in SUBSET Unpinned /\ Prefix(n) \in SUBSET All
         /\ \A n \in 1..Len(candidates) :
              /\ n - 1 \in 0..Len(candidates)
              /\ Prefix(n) = Prefix(n - 1) \cup {candidates[n]}
              /\ candidates[n] \notin Prefix(n - 1)
<1>. DEFINE N == Len(candidates)
<1>1. /\ N \in Nat
      /\ \A n \in 1..N : candidates[n] \in Unpinned /\ candidates[n] \in All
      /\ \A n, m \in 1..N : candidates[n] = candidates[m] => n = m
      /\ \A i \in Unpinned : \E n \in 1..N : candidates[n] = i
  BY CandidateFacts
<1>. HIDE DEF N
<1>2. Prefix(0) = {} /\ Prefix(N) = Unpinned
  BY <1>1 DEF Prefix
<1>3. \A n \in 0..N : Prefix(n) \in SUBSET Unpinned /\ Prefix(n) \in SUBSET All
  BY <1>1 DEF Prefix
<1>4. ASSUME NEW n \in 1..N
      PROVE  /\ n - 1 \in 0..N
             /\ Prefix(n) = Prefix(n - 1) \cup {candidates[n]}
             /\ candidates[n] \notin Prefix(n - 1)
  <2>1. n - 1 \in 0..N /\ 1..n = (1..(n - 1)) \cup {n} /\ n \notin 1..(n - 1)
    BY <1>1
  <2>2. Prefix(n) = Prefix(n - 1) \cup {candidates[n]}
    BY <2>1 DEF Prefix
  <2>3. candidates[n] \notin Prefix(n - 1)
    BY <1>1, <2>1 DEF Prefix
  <2>. QED
    BY <2>1, <2>2, <2>3
<1>. QED
  BY <1>2, <1>3, <1>4 DEF N

\* What was chosen on top of the pinned items.
LEMMA PickedFacts ==
  ASSUME items \in Seq(Thing), maxTokens \in Nat, Laid
  PROVE  /\ Chosen = Picked /\ Picked \subseteq Unpinned /\ Picked \in SUBSET All
         /\ selected = Pinned \cup Picked
         /\ Weight(selected) = Weight(Pinned) + Weight(Picked)
         /\ Weight(Picked) \in Nat /\ Value(Picked) \in Nat
         /\ residual \in Nat
<1>1. Chosen = Picked /\ Picked \subseteq Unpinned /\ Picked \in SUBSET All /\ selected = Pinned \cup Picked
  BY CandidateFacts DEF Laid, Chosen, Picked, Unpinned
<1>2. Pinned \in SUBSET All /\ Pinned \cap Picked = {}
  BY CapacityType DEF Picked
<1>3. Weight(selected) = Weight(Pinned) + Weight(Picked)
  BY <1>1, <1>2, WeightSums
<1>. QED
  BY <1>1, <1>3, WeightSums, CapacityType DEF Laid

\* A row of the table: what BestWithOneMore says of the nth candidate.
LEMMA BestRow ==
  ASSUME items \in Seq(Thing), candidates \in SetToSeqs(Unpinned),
         NEW n \in 1..Len(candidates), NEW c \in Nat
  PROVE  BestOf(Prefix(n), c) =
           IF Improves(n, c)
           THEN BestOf(Prefix(n - 1), c - items[candidates[n]].weight) + items[candidates[n]].value
           ELSE BestOf(Prefix(n - 1), c)
<1>1. /\ Prefix(n - 1) \in SUBSET All
      /\ Prefix(n) = Prefix(n - 1) \cup {candidates[n]}
      /\ candidates[n] \in All \ Prefix(n - 1)
  BY PrefixFacts, CandidateFacts
<1>. QED
  BY <1>1, BestWithOneMore DEF Improves

\* The definitions depend on the items, the budget and what was picked only.
LEMMA Frame ==
  ASSUME UNCHANGED input
  PROVE  /\ \A S : Weight(S)' = Weight(S) /\ Value(S)' = Value(S)
         /\ \A S, c : BestOf(S, c)' = BestOf(S, c)
         /\ All' = All /\ Pinned' = Pinned /\ Unpinned' = Unpinned /\ Capacity' = Capacity
         /\ \A n : Prefix(n)' = Prefix(n)
         /\ \A n, c : Improves(n, c)' = Improves(n, c)
         /\ Over' = Over /\ Sorted' = Sorted
         /\ \A P : Preferred(P)' = Preferred(P)
<1>1. items' = items /\ maxTokens' = maxTokens /\ candidates' = candidates /\ residual' = residual
  BY DEF input
<1>2. All' = All
  BY <1>1 DEF All
<1>3. \A S : Weight(S)' = Weight(S) /\ Value(S)' = Value(S)
  BY <1>1, <1>2 DEF Weight, Value
<1>4. \A S, c : BestOf(S, c)' = BestOf(S, c)
  BY <1>1, <1>2 DEF BestOf, Weight, Value
<1>5. Pinned' = Pinned /\ Unpinned' = Unpinned
  BY <1>1, <1>2 DEF Pinned, Unpinned, Weight
<1>6. Capacity' = Capacity /\ Over' = Over
  BY <1>1, <1>2, <1>3, <1>5 DEF Capacity, Over
<1>7. \A n : Prefix(n)' = Prefix(n)
  BY <1>1 DEF Prefix
<1>8. \A n, c : Improves(n, c)' = Improves(n, c)
  BY <1>1, <1>2 DEF Improves, BestOf, Weight, Value, Prefix
<1>9. Sorted' = Sorted /\ \A P : Preferred(P)' = Preferred(P)
  BY <1>1, <1>5 DEF Sorted, Denser, Preferred
<1>. QED
  BY <1>2, <1>3, <1>4, <1>5, <1>6, <1>7, <1>8, <1>9

-----------------------------------------------------------------------------
(* The steps of the exact solver.                                          *)

\* A bundle within its ceiling is kept whole.
LEMMA PassThroughKeeps == ASSUME SolverInv, PassThrough PROVE SolverInv'
<1>1. UNCHANGED input /\ phase' = "done" /\ selected' = All /\ Weight(All) <= maxTokens
  BY DEF PassThrough
<1>2. items' = items /\ maxTokens' = maxTokens
  BY <1>1 DEF input
<1>3. Weight(All) \in Nat /\ maxTokens \in Nat
  BY WeightSums DEF SolverInv
<1>4. ~Over' /\ selected' = All'
  BY <1>1, <1>2, <1>3, Frame DEF Over
<1>. QED
  BY <1>1, <1>2, <1>4 DEF SolverInv, Unsolved

\* The solvers start with what is pinned and all that it leaves of the budget.
LEMMA ChooseKeeps == ASSUME SolverInv, Choose PROVE SolverInv'
<1>. DEFINE exact == Exact(Cardinality(Unpinned), Capacity)
<1>0. items \in Seq(Thing) /\ maxTokens \in Nat /\ at = 1 /\ bits = {} /\ phase = "start"
  BY DEF SolverInv, Unsolved, Choose
<1>1. /\ Weight(All) > maxTokens
      /\ selected' = Pinned /\ residual' = Capacity /\ cap' = Capacity
      /\ candidates' = IF exact THEN Ordered(Unpinned, ByPlace) ELSE Ordered(Unpinned, ByDensity)
      /\ dp' = [c \in 0..Capacity |-> 0]
      /\ phase' = IF Capacity = 0 \/ Unpinned = {} THEN "done" ELSE IF exact THEN "fill" ELSE "greedy"
      /\ items' = items /\ maxTokens' = maxTokens /\ bits' = {} /\ at' = 1
  BY <1>0 DEF Choose, Unpinned
<1>. HIDE DEF exact
<1>2. /\ All' = All /\ Pinned' = Pinned /\ Unpinned' = Unpinned /\ Capacity' = Capacity
      /\ \A S : Weight(S)' = Weight(S) /\ Value(S)' = Value(S)
  <2>1. All' = All
    BY <1>1 DEF All
  <2>2. \A S : Weight(S)' = Weight(S) /\ Value(S)' = Value(S)
    BY <1>1, <2>1 DEF Weight, Value
  <2>3. Pinned' = Pinned /\ Unpinned' = Unpinned
    BY <1>1, <2>1 DEF Pinned, Unpinned, Weight
  <2>. QED
    BY <1>1, <2>1, <2>2, <2>3 DEF Capacity
<1>3. \A S, c : BestOf(S, c)' = BestOf(S, c)
  BY <1>1, <1>2 DEF BestOf, Weight, Value
<1>4. Unpinned \subseteq All /\ Capacity \in Nat
  BY <1>0, CapacityType
<1>5. candidates' \in SetToSeqs(Unpinned)
  BY <1>0, <1>1, <1>4, ExactCandidates, GreedyCandidates
<1>6. Len(candidates') = Cardinality(Unpinned) /\ Cardinality(Unpinned) \in Nat
  BY <1>0, <1>4, <1>5, AllFinite, ListIsWhole
<1>7. exact <=> Exact(Len(candidates), residual)'
  BY <1>1, <1>6 DEF Exact, exact
<1>8. Picked' = {} /\ Weight({})' = 0 /\ Value({})' = 0
  BY <1>0, <1>1, <1>2, WeightSums DEF Picked
<1>9. Prefix(0)' = {}
  BY DEF Prefix
<1>10. \A c \in Nat : BestOf({}, c) = 0
  BY <1>0, BestOfNone
<1>11. CASE Unpinned = {} \/ Capacity = 0
  <2>1. phase' = "done"
    BY <1>1, <1>11
  <2>2. Preferred(Picked)'
    BY <1>8 DEF Preferred
  <2>3. residual' > 0 => BestOf(Unpinned, residual)' = 0 /\ dp'[residual'] = 0
    <3>1. residual' > 0 => Unpinned = {} /\ dp'[Capacity] = 0
      BY <1>1, <1>4, <1>11
    <3>2. BestOf(Unpinned, residual)' = BestOf(Unpinned, Capacity)
      BY <1>1, <1>2, <1>3
    <3>. QED
      BY <1>1, <1>4, <1>10, <3>1, <3>2
  <2>4. Value(Picked)' = 0 /\ Weight(Picked)' = 0
    BY <1>8
  <2>5. Solved'
    BY <1>1, <1>4, <2>2, <2>3, <2>4 DEF Solved
  <2>6. Laid'
    BY <1>1, <1>2, <1>4, <1>5, <2>1, <2>5, CapacityType, <1>0 DEF Laid
  <2>. QED
    BY <1>0, <1>1, <1>2, <2>1, <2>6 DEF SolverInv, Unsolved, Over
<1>12. CASE Unpinned # {} /\ Capacity # 0 /\ exact
  <2>1. phase' = "fill"
    BY <1>1, <1>12
  <2>2. BitsTell(at - 1)'
    <3>1. at' - 1 = 0 /\ bits' = {}
      BY <1>1
    <3>. QED
      BY <3>1 DEF BitsTell
  <2>3. dp' = [c \in 0..residual' |-> BestOf(Prefix(at - 1), c)']
    <3>1. at' - 1 = 0
      BY <1>1
    <3>2. \A c \in 0..Capacity : BestOf(Prefix(at - 1), c)' = 0
      BY <1>3, <1>4, <1>9, <1>10, <3>1 DEF Prefix
    <3>. QED
      BY <1>1, <3>2
  <2>4. Filling'
    <3>1. selected' = Pinned' /\ cap' = residual' /\ at' \in 1..(Len(candidates') + 1)
      BY <1>1, <1>2, <1>6
    <3>. QED
      BY <2>2, <2>3, <3>1 DEF Filling, Prefix
  <2>5. Laid'
    BY <1>0, <1>1, <1>2, <1>4, <1>5, <1>7, <1>12, <2>1, <2>4, CapacityType DEF Laid
  <2>. QED
    BY <1>0, <1>1, <1>2, <2>1, <2>5 DEF SolverInv, Unsolved, Over
<1>13. CASE Unpinned # {} /\ Capacity # 0 /\ ~exact
  <2>1. phase' = "greedy" /\ candidates' = Ordered(Unpinned, ByDensity)
    BY <1>1, <1>13
  <2>2. Sorted'
    <3>1. \A m \in 1..Cardinality(Unpinned) : \A n \in 1..(m - 1) :
            Denser(candidates'[n], candidates'[m])
      BY <1>0, <1>4, <2>1, GreedyCandidates
    <3>2. \A i, j : Denser(i, j)' = Denser(i, j)
      BY <1>1 DEF Denser
    <3>. QED
      BY <1>6, <3>1, <3>2 DEF Sorted
  <2>3. Packing'
    <3>1. at' = 1 /\ 1..(at' - 1) = {} /\ at' \in 1..(Len(candidates') + 1)
      BY <1>1, <1>6
    <3>2. Picked' \subseteq Prefix(at - 1)' /\ Weight(Picked)' <= residual'
      BY <1>1, <1>4, <1>8
    <3>. QED
      BY <2>2, <3>1, <3>2 DEF Packing
  <2>4. Laid'
    BY <1>0, <1>1, <1>2, <1>4, <1>5, <1>7, <1>13, <2>1, <2>3, CapacityType DEF Laid
  <2>. QED
    BY <1>0, <1>1, <1>2, <2>1, <2>4 DEF SolverInv, Unsolved, Over
<1>. QED
  BY <1>11, <1>12, <1>13

\* One row: each entry from the entries of the row before.
LEMMA FillRowKeeps == ASSUME SolverInv, FillRow PROVE SolverInv'
<1>. DEFINE N == Len(candidates)
            i == candidates[at]
            w == items[i].weight
            v == items[i].value
<1>1. /\ items \in Seq(Thing) /\ maxTokens \in Nat /\ phase = "fill" /\ Over /\ Laid
      /\ Exact(N, residual) /\ Filling
      /\ UNCHANGED input /\ phase' = "fill" /\ cap' = cap /\ selected' = selected /\ at' = at + 1
      /\ at <= N
  BY DEF SolverInv, Unsolved, FillRow, Laid
<1>2. /\ candidates \in SetToSeqs(Unpinned) /\ N \in Nat /\ at \in 1..N /\ residual \in Nat
      /\ i \in All /\ w \in Nat /\ v \in Nat
  <2>1. candidates \in SetToSeqs(Unpinned) /\ N \in Nat /\ residual \in Nat
    BY <1>1, CandidateFacts, PickedFacts DEF Laid
  <2>2. at \in 1..N
    BY <1>1, <2>1 DEF Filling
  <2>. QED
    BY <1>1, <2>1, <2>2, CandidateFacts, ItemType
<1>3. \A c \in 0..residual : Better(c) <=> Improves(at, c)
  <2>. SUFFICES ASSUME NEW c \in 0..residual PROVE Better(c) <=> Improves(at, c)
    OBVIOUS
  <2>1. dp[c] = BestOf(Prefix(at - 1), c)
    BY <1>1 DEF Filling
  <2>2. ASSUME w <= c PROVE Taken(c) = BestOf(Prefix(at - 1), c - w) + v
    <3>1. c - w \in 0..residual
      BY <1>2, <2>2
    <3>2. dp[c - w] = BestOf(Prefix(at - 1), c - w)
      BY <1>1, <3>1 DEF Filling
    <3>. QED
      BY <3>2 DEF Taken, Item
  <2>. QED
    BY <2>1, <2>2 DEF Better, Improves, Item
<1>4. \A c \in 0..residual : dp'[c] = BestOf(Prefix(at), c)
  <2>. SUFFICES ASSUME NEW c \in 0..residual PROVE dp'[c] = BestOf(Prefix(at), c)
    OBVIOUS
  <2>1. dp'[c] = IF Better(c) THEN Taken(c) ELSE dp[c]
    BY <1>1 DEF FillRow, Filling
  <2>2. dp[c] = BestOf(Prefix(at - 1), c)
    BY <1>1 DEF Filling
  <2>3. ASSUME Improves(at, c) PROVE Taken(c) = BestOf(Prefix(at - 1), c - w) + v
    <3>1. c - w \in 0..residual
      BY <1>2, <2>3 DEF Improves
    <3>2. dp[c - w] = BestOf(Prefix(at - 1), c - w)
      BY <1>1, <3>1 DEF Filling
    <3>. QED
      BY <3>2 DEF Taken, Item
  <2>4. c \in Nat
    BY <1>2
  <2>. QED
    BY <1>1, <1>2, <1>3, <2>1, <2>2, <2>3, <2>4, BestRow
<1>5. dp' = [c \in 0..residual |-> BestOf(Prefix(at), c)]
  <2>1. dp' = [c \in 0..residual |-> IF Better(c) THEN Taken(c) ELSE dp[c]]
    BY <1>1 DEF FillRow, Filling
  <2>. QED
    BY <1>4, <2>1
<1>6. ASSUME NEW m \in Nat, NEW c \in 0..residual
      PROVE  <<m, c>> \in bits' <=> m \in 1..at /\ Improves(m, c)
  <2>1. <<m, c>> \in bits' <=> <<m, c>> \in bits \/ (m = at /\ Better(c))
    <3>1. bits' = bits \cup {<<at, x>> : x \in {y \in DOMAIN dp : Better(y)}}
      BY DEF FillRow
    <3>2. DOMAIN dp = 0..residual
      BY <1>1 DEF Filling
    <3>. QED
      BY <3>1, <3>2
  <2>2. <<m, c>> \in bits <=> m \in 1..(at - 1) /\ Improves(m, c)
    BY <1>1 DEF Filling, BitsTell
  <2>3. m \in 1..at <=> m \in 1..(at - 1) \/ m = at
    BY <1>2
  <2>. QED
    BY <1>3, <2>1, <2>2, <2>3
<1>7. at' - 1 = at /\ at' \in 1..(N + 1) /\ residual' = residual /\ candidates' = candidates
  BY <1>1, <1>2 DEF input
<1>8. Filling'
  <2>1. BitsTell(at - 1)'
    BY <1>1, <1>6, <1>7, Frame DEF BitsTell
  <2>2. dp' = [c \in 0..residual' |-> BestOf(Prefix(at - 1), c)']
    BY <1>1, <1>5, <1>7, Frame
  <2>3. selected' = Pinned' /\ cap' = residual' /\ at' \in 1..(Len(candidates') + 1)
    BY <1>1, <1>7, Frame DEF Filling
  <2>. QED
    BY <2>1, <2>2, <2>3 DEF Filling
<1>9. Laid'
  BY <1>1, <1>7, <1>8, Frame DEF Laid, Exact, Picked
<1>. QED
  BY <1>1, <1>9, Frame DEF SolverInv, Unsolved, input

\* With the last row, the table has the best of all candidates.
LEMMA EndFillKeeps == ASSUME SolverInv, EndFill PROVE SolverInv'
<1>. DEFINE N == Len(candidates)
<1>1. /\ items \in Seq(Thing) /\ maxTokens \in Nat /\ phase = "fill" /\ Over /\ Laid
      /\ Exact(N, residual) /\ Filling
      /\ UNCHANGED input /\ phase' = "trace" /\ at' = N
      /\ cap' = cap /\ selected' = selected /\ dp' = dp /\ bits' = bits
      /\ at > N
  BY DEF SolverInv, Unsolved, EndFill, Laid
<1>2. /\ candidates \in SetToSeqs(Unpinned) /\ N \in Nat /\ residual \in Nat /\ at - 1 = N
      /\ Prefix(N) = Unpinned /\ Prefix(N) \in SUBSET All
  <2>1. candidates \in SetToSeqs(Unpinned) /\ N \in Nat /\ residual \in Nat
    BY <1>1, CandidateFacts, PickedFacts DEF Laid
  <2>2. at \in 1..(N + 1)
    BY <1>1 DEF Filling
  <2>3. at - 1 = N
    BY <1>1, <2>1, <2>2
  <2>4. Prefix(N) = Unpinned /\ Unpinned \subseteq All
    BY <1>1, <2>1, PrefixFacts, CapacityType
  <2>. QED
    BY <2>1, <2>3, <2>4
<1>3. residual' = residual /\ candidates' = candidates /\ Len(candidates') = N
  BY <1>1 DEF input, N
<1>4. Picked' = {} /\ Weight({}) = 0 /\ Value({}) = 0 /\ Picked' = Picked
  BY <1>1, Frame, WeightSums DEF Picked, Filling
<1>5. BestOf(Unpinned, residual) \in Nat
  BY <1>1, <1>2, BestIsBest
<1>6. BitsTell(N) /\ dp[residual] = BestOf(Unpinned, residual) /\ cap = residual
  BY <1>1, <1>2 DEF Filling
<1>7. BitsTell(N)'
  BY <1>1, <1>3, <1>6, Frame DEF BitsTell, N
<1>8. Tracing'
  <2>1. at' \in 0..N /\ cap' \in 0..residual
    BY <1>1, <1>2, <1>6
  <2>2. Picked' \cap Prefix(at)' = {} /\ Weight(Picked)' = 0 /\ Value(Picked)' = 0
    BY <1>1, <1>4, Frame
  <2>3. BestOf(Prefix(at), cap)' = BestOf(Unpinned, residual)
    BY <1>1, <1>2, <1>6, Frame DEF Prefix, BestOf, Weight, Value
  <2>. QED
    BY <1>1, <1>2, <1>3, <1>5, <1>6, <1>7, <2>1, <2>2, <2>3, Frame DEF Tracing, N
<1>9. Laid'
  BY <1>1, <1>3, <1>8, Frame DEF Laid, Exact, Picked, N
<1>. QED
  BY <1>1, <1>9, Frame DEF SolverInv, Unsolved, input

\* Tracing back takes a candidate where the table did, and what it is worth goes
\* over from the rest to what was picked.
LEMMA TraceBackKeeps == ASSUME SolverInv, TraceBack PROVE SolverInv'
<1>. DEFINE N == Len(candidates)
            i == candidates[at]
            w == items[i].weight
            v == items[i].value
<1>1. /\ items \in Seq(Thing) /\ maxTokens \in Nat /\ phase = "trace" /\ Over /\ Laid
      /\ Exact(N, residual) /\ Tracing
      /\ UNCHANGED input /\ phase' = "trace" /\ at' = at - 1 /\ dp' = dp /\ bits' = bits
      /\ at > 0
  BY DEF SolverInv, Unsolved, TraceBack, Laid
<1>2. /\ candidates \in SetToSeqs(Unpinned) /\ N \in Nat /\ residual \in Nat /\ at \in 1..N
      /\ i \in Unpinned /\ i \in All /\ w \in Nat /\ v \in Nat /\ cap \in 0..residual /\ cap \in Nat
      /\ i \notin Prefix(at - 1) /\ Prefix(at) = Prefix(at - 1) \cup {i}
      /\ Prefix(at - 1) \in SUBSET All
      /\ Picked \subseteq Unpinned /\ Picked \in SUBSET All
      /\ Weight(Picked) \in Nat /\ Value(Picked) \in Nat
  <2>1. candidates \in SetToSeqs(Unpinned) /\ N \in Nat /\ residual \in Nat
    BY <1>1, CandidateFacts, PickedFacts DEF Laid
  <2>2. at \in 1..N /\ cap \in 0..residual
    BY <1>1, <2>1 DEF Tracing
  <2>. QED
    BY <1>1, <2>1, <2>2, CandidateFacts, ItemType, PrefixFacts, PickedFacts
<1>3. i \notin Picked /\ Picked \cap Prefix(at - 1) = {}
  BY <1>1, <1>2 DEF Tracing
<1>4. <<at, cap>> \in bits <=> Improves(at, cap)
  BY <1>1, <1>2 DEF Tracing, BitsTell
<1>5. BestOf(Prefix(at), cap) =
        IF Improves(at, cap) THEN BestOf(Prefix(at - 1), cap - w) + v ELSE BestOf(Prefix(at - 1), cap)
  BY <1>1, <1>2, BestRow
<1>6. residual' = residual /\ candidates' = candidates /\ Len(candidates') = N
  BY <1>1 DEF input
<1>7. BitsTell(N)'
  BY <1>1, <1>6, Frame DEF BitsTell, Tracing
<1>8. /\ cap' \in 0..residual
      /\ Picked' \cap Prefix(at - 1) = {}
      /\ Picked' \subseteq Unpinned
      /\ selected' = selected \/ selected' = selected \cup {i}
      /\ Weight(Picked') + cap' <= residual
      /\ Value(Picked') + BestOf(Prefix(at - 1), cap') = BestOf(Unpinned, residual)
  <2>0. /\ Weight(Picked) + cap <= residual
        /\ Value(Picked) + BestOf(Prefix(at), cap) = BestOf(Unpinned, residual)
    BY <1>1 DEF Tracing
  <2>1. CASE <<at, cap>> \in bits
    <3>1. selected' = selected \cup {i} /\ cap' = cap - w
      BY <2>1 DEF TraceBack, Left, Item
    <3>2. Picked' = Picked \cup {i} /\ w <= cap
      BY <1>1, <1>2, <1>4, <2>1, <3>1, Frame DEF Picked, Unpinned, Improves
    <3>3. Weight(Picked') = Weight(Picked) + w /\ Value(Picked') = Value(Picked) + v
      BY <1>1, <1>2, <1>3, <3>2, WeightSums
    <3>4. cap - w \in Nat /\ cap - w \in 0..residual
      <4>. HIDE DEF w
      <4>. QED
        BY <1>2, <3>2
    <3>5. BestOf(Prefix(at - 1), cap - w) \in Nat
      <4>. HIDE DEF w
      <4>. QED
        BY <1>1, <1>2, <3>4, BestIsBest
    <3>6. Weight(Picked') + cap' <= residual
      <4>. HIDE DEF w, v
      <4>. QED
        BY <1>2, <2>0, <3>1, <3>3, <3>4
    <3>7. Value(Picked') + BestOf(Prefix(at - 1), cap') = BestOf(Unpinned, residual)
      <4>. HIDE DEF w, v
      <4>. QED
        BY <1>2, <1>4, <1>5, <2>0, <2>1, <3>1, <3>3, <3>5
    <3>. QED
      BY <1>2, <1>3, <3>1, <3>2, <3>4, <3>6, <3>7
  <2>2. CASE <<at, cap>> \notin bits
    <3>1. selected' = selected /\ cap' = cap
      BY <2>2 DEF TraceBack
    <3>2. Picked' = Picked
      BY <1>1, <3>1, Frame DEF Picked
    <3>. QED
      BY <1>2, <1>3, <1>4, <1>5, <2>0, <2>2, <3>1, <3>2
  <2>. QED
    BY <2>1, <2>2
<1>9. Tracing'
  <2>1. at' \in 0..N
    BY <1>1, <1>2
  <2>2. Weight(Picked)' = Weight(Picked') /\ Value(Picked)' = Value(Picked')
    BY <1>1, Frame DEF Weight, Value
  <2>3. BestOf(Prefix(at), cap)' = BestOf(Prefix(at - 1), cap')
    BY <1>1, Frame DEF Prefix, BestOf, Weight, Value
  <2>4. Prefix(at)' = Prefix(at - 1)
    BY <1>1, Frame DEF Prefix
  <2>5. dp'[residual'] = BestOf(Unpinned, residual)'
    BY <1>1, <1>6, Frame DEF Tracing
  <2>. QED
    BY <1>6, <1>7, <1>8, <1>1, <2>1, <2>2, <2>3, <2>4, <2>5, Frame DEF Tracing
<1>10. Pinned \subseteq selected' /\ selected' \subseteq All
  BY <1>1, <1>2, <1>8 DEF Laid
<1>11. Laid'
  BY <1>1, <1>6, <1>9, <1>10, Frame DEF Laid, Exact
<1>. QED
  BY <1>1, <1>11, Frame DEF SolverInv, Unsolved, input

\* In an optimal choice no item could be exchanged for a better one of its weight.
LEMMA OptimalIsPreferred ==
  ASSUME items \in Seq(Thing), NEW P \in SUBSET Unpinned, NEW c \in Nat, Weight(P) <= c,
         Value(P) = BestOf(Unpinned, c)
  PROVE  Preferred(P)
<1>. SUFFICES ASSUME NEW i \in P, NEW j \in Unpinned \ P, items[i].weight = items[j].weight
              PROVE  items[j].value <= items[i].value
  BY DEF Preferred
<1>. DEFINE Q == P \ {i}
            U == Q \cup {j}
<1>1. P \in SUBSET All /\ Unpinned \in SUBSET All /\ i \in All /\ j \in All /\ j \in All \ Q /\ Q \in SUBSET All
  BY DEF Unpinned
<1>2. Weight(P) = Weight(Q) + items[i].weight /\ Value(P) = Value(Q) + items[i].value
  BY <1>1, WithoutOne
<1>3. Weight(U) = Weight(Q) + items[j].weight /\ Value(U) = Value(Q) + items[j].value
  BY <1>1, WeightSums
<1>4. U \in SUBSET Unpinned
  OBVIOUS
<1>5. Value(Q) \in Nat /\ Weight(Q) \in Nat /\ items[i].value \in Nat /\ items[j].value \in Nat
  BY <1>1, WeightSums, ItemType
<1>6. Weight(U) <= c
  BY <1>2, <1>3
<1>7. Value(U) <= Value(P)
  <2>. HIDE DEF U
  <2>. QED
    BY <1>1, <1>4, <1>6, BestIsBest
<1>. HIDE DEF U, Q
<1>. QED
  BY <1>2, <1>3, <1>5, <1>7

\* Traced back to the first candidate, the choice is optimal.
LEMMA EndTraceKeeps == ASSUME SolverInv, EndTrace PROVE SolverInv'
<1>1. /\ items \in Seq(Thing) /\ maxTokens \in Nat /\ phase = "trace" /\ Over /\ Laid
      /\ Exact(Len(candidates), residual) /\ Tracing
      /\ UNCHANGED input /\ phase' = "done" /\ at = 0 /\ dp' = dp /\ selected' = selected
  BY DEF SolverInv, Unsolved, EndTrace, Laid
<1>2. /\ candidates \in SetToSeqs(Unpinned) /\ residual \in Nat /\ cap \in 0..residual
      /\ Picked \in SUBSET Unpinned /\ Weight(Picked) \in Nat /\ Value(Picked) \in Nat
  BY <1>1, PickedFacts DEF Laid, Tracing
<1>3. BestOf(Prefix(at), cap) = 0
  <2>1. Prefix(at) = {} /\ cap \in Nat
    BY <1>1, <1>2, PrefixFacts
  <2>2. BestOf({}, cap) = 0
    BY <1>1, <2>1, BestOfNone
  <2>. QED
    BY <2>1, <2>2
<1>4. Value(Picked) = BestOf(Unpinned, residual) /\ dp[residual] = BestOf(Unpinned, residual)
      /\ Weight(Picked) <= residual
  BY <1>1, <1>2, <1>3 DEF Tracing
<1>5. Preferred(Picked)
  BY <1>1, <1>2, <1>4, OptimalIsPreferred
<1>6. residual' = residual /\ candidates' = candidates /\ Picked' = Picked
  BY <1>1, Frame DEF input, Picked
<1>7. Solved'
  <2>1. Weight(Picked)' = Weight(Picked) /\ Value(Picked)' = Value(Picked)
    BY <1>6, Frame, <1>1 DEF Weight, Value
  <2>2. Preferred(Picked)'
    BY <1>1, <1>5, <1>6, Frame DEF Preferred
  <2>3. BestOf(Unpinned, residual)' = BestOf(Unpinned, residual)
    BY <1>1, <1>6, Frame DEF BestOf, Weight, Value
  <2>4. Exact(Len(candidates), residual)'
    BY <1>1, <1>6 DEF Exact
  <2>. QED
    BY <1>1, <1>4, <1>6, <2>1, <2>2, <2>3, <2>4 DEF Solved
<1>8. Laid'
  BY <1>1, <1>6, <1>7, Frame DEF Laid
<1>. QED
  BY <1>1, <1>8, Frame DEF SolverInv, Unsolved, input

-----------------------------------------------------------------------------
(* The steps of the greedy solver.                                         *)

\* A shorter prefix is part of a longer one, and lacks what comes after it.
LEMMA PrefixGrows ==
  ASSUME items \in Seq(Thing), candidates \in SetToSeqs(Unpinned),
         NEW n \in 1..Len(candidates), NEW m \in 1..n
  PROVE  Prefix(m - 1) \subseteq Prefix(n - 1) /\ candidates[n] \notin Prefix(m - 1)
<1>1. Len(candidates) \in Nat
  BY CandidateFacts
<1>2. 1..(m - 1) \subseteq 1..(n - 1)
  BY <1>1
<1>3. Prefix(m - 1) \subseteq Prefix(n - 1)
  BY <1>2 DEF Prefix
<1>. QED
  BY <1>3, PrefixFacts

\* The next candidate is taken if it fits; if not, the invariant remembers why.
LEMMA TakeDensestKeeps == ASSUME SolverInv, TakeDensest PROVE SolverInv'
<1>. DEFINE N == Len(candidates)
            i == candidates[at]
            w == items[i].weight
<1>1. /\ items \in Seq(Thing) /\ maxTokens \in Nat /\ phase = "greedy" /\ Over /\ Laid
      /\ ~Exact(N, residual) /\ Packing
      /\ UNCHANGED input /\ phase' = "greedy" /\ at' = at + 1
      /\ at <= N
  BY DEF SolverInv, Unsolved, TakeDensest, Laid
<1>2. /\ candidates \in SetToSeqs(Unpinned) /\ N \in Nat /\ residual \in Nat /\ at \in 1..N
      /\ i \in Unpinned /\ i \in All /\ w \in Nat
      /\ i \notin Prefix(at - 1) /\ Prefix(at) = Prefix(at - 1) \cup {i}
      /\ Picked \subseteq Unpinned /\ Picked \in SUBSET All /\ Chosen = Picked
      /\ Weight(Picked) \in Nat
  <2>1. candidates \in SetToSeqs(Unpinned) /\ N \in Nat /\ residual \in Nat
    BY <1>1, CandidateFacts, PickedFacts DEF Laid
  <2>2. at \in 1..N
    BY <1>1, <2>1 DEF Packing
  <2>. QED
    BY <1>1, <2>1, <2>2, CandidateFacts, ItemType, PrefixFacts, PickedFacts
<1>3. i \notin Picked /\ Picked \subseteq Prefix(at - 1) /\ Weight(Picked) <= residual
  BY <1>1, <1>2 DEF Packing
<1>4. residual' = residual /\ candidates' = candidates /\ Len(candidates') = N /\ items' = items
  BY <1>1 DEF input
<1>5. selected' = IF Weight(Picked) + w <= residual THEN selected \cup {i} ELSE selected
  BY <1>2 DEF TakeDensest, Fits, Item
<1>6. Picked' = IF Weight(Picked) + w <= residual THEN Picked \cup {i} ELSE Picked
  BY <1>1, <1>2, <1>5, Frame DEF Picked, Unpinned
<1>7. Picked' \subseteq Prefix(at) /\ Weight(Picked') <= residual
  <2>1. Weight(Picked \cup {i}) = Weight(Picked) + w
    BY <1>1, <1>2, <1>3, WeightSums
  <2>. QED
    BY <1>2, <1>3, <1>6, <2>1
<1>8. ASSUME NEW n \in 1..at
      PROVE  candidates[n] \notin Picked' =>
               Weight(Picked' \cap Prefix(n - 1)) + items[candidates[n]].weight > residual
  <2>. SUFFICES ASSUME candidates[n] \notin Picked'
                PROVE  Weight(Picked' \cap Prefix(n - 1)) + items[candidates[n]].weight > residual
    OBVIOUS
  <2>1. Prefix(n - 1) \subseteq Prefix(at - 1) /\ i \notin Prefix(n - 1)
    BY <1>1, <1>2, PrefixGrows
  <2>2. Picked' \cap Prefix(n - 1) = Picked \cap Prefix(n - 1)
    BY <1>6, <2>1
  <2>3. CASE n = at
    <3>1. ~(Weight(Picked) + w <= residual)
      BY <1>6, <2>3
    <3>2. Picked \cap Prefix(n - 1) = Picked
      BY <1>3, <2>3
    <3>. QED
      <4>1. Weight(Picked) + w > residual
        <5>. HIDE DEF w
        <5>. QED
          BY <1>2, <3>1
      <4>. QED
        BY <2>2, <2>3, <3>2, <4>1
  <2>4. CASE n # at
    <3>1. n \in 1..(at - 1) /\ candidates[n] \notin Picked
      BY <1>2, <1>6, <2>4
    <3>. QED
      BY <1>1, <2>2, <3>1 DEF Packing, PassedOver
  <2>. QED
    BY <2>3, <2>4
<1>9. Packing'
  <2>1. at' \in 1..(N + 1) /\ at' - 1 = at
    BY <1>1, <1>2
  <2>2. \A n \in 1..at : PassedOver(n)'
    BY <1>1, <1>4, <1>8, Frame DEF PassedOver, Weight, Prefix
  <2>3. Weight(Picked)' <= residual'
    BY <1>1, <1>4, <1>7, Frame DEF Weight
  <2>4. Picked' \subseteq Prefix(at - 1)'
    BY <1>1, <1>7, <2>1, Frame DEF Prefix
  <2>5. Sorted'
    BY <1>1, Frame DEF Packing
  <2>. QED
    BY <1>4, <2>1, <2>2, <2>3, <2>4, <2>5 DEF Packing
<1>10. Pinned \subseteq selected' /\ selected' \subseteq All
  BY <1>1, <1>2, <1>5 DEF Laid
<1>11. Laid'
  BY <1>1, <1>4, <1>9, <1>10, Frame DEF Laid, Exact
<1>. QED
  BY <1>1, <1>11, Frame DEF SolverInv, Unsolved, input

-----------------------------------------------------------------------------
\* What holds of the density of each item holds of sets of them.
LEMMA SparseSets ==
  ASSUME items \in Seq(Thing), NEW S \in SUBSET All, NEW a \in Nat, NEW b \in Nat
  PROVE  /\ (\A x \in S : items[x].value * a <= items[x].weight * b) => Value(S) * a <= Weight(S) * b
         /\ (\A x \in S : items[x].weight * a <= items[x].value * b) => Weight(S) * a <= Value(S) * b
<1>. DEFINE f == [i \in All |-> items[i].weight]
            g == [i \in All |-> items[i].value]
<1>1. \A x \in S : f[x] = items[x].weight /\ f[x] \in Nat /\ g[x] = items[x].value /\ g[x] \in Nat
  BY ItemType
<1>2. Weight(S) = SumFunctionOnSet(f, S) /\ Value(S) = SumFunctionOnSet(g, S)
  BY DEF Weight, Value
<1>3. IsFiniteSet(S)
  BY AllFinite
<1>. HIDE DEF f, g
<1>4. ASSUME \A x \in S : items[x].value * a <= items[x].weight * b
      PROVE  Value(S) * a <= Weight(S) * b
  <2>1. \A x \in S : g[x] \in Nat /\ f[x] \in Nat /\ g[x] * a <= f[x] * b
    BY <1>1, <1>4
  <2>. QED
    BY <1>2, <1>3, <2>1, SumScaled
<1>5. ASSUME \A x \in S : items[x].weight * a <= items[x].value * b
      PROVE  Weight(S) * a <= Value(S) * b
  <2>1. \A x \in S : f[x] \in Nat /\ g[x] \in Nat /\ f[x] * a <= g[x] * b
    BY <1>1, <1>5
  <2>. QED
    BY <1>2, <1>3, <2>1, SumScaled
<1>. QED
  BY <1>4, <1>5

\* The greedy choice lacks of any choice within the capacity no more than the value
\* of one item that fits: the densest it had to pass over.
LEMMA GreedyLacksOne ==
  ASSUME items \in Seq(Thing), candidates \in SetToSeqs(Unpinned), residual \in Nat, Sorted,
         NEW P \in SUBSET Unpinned, Weight(P) <= residual,
         \A n \in 1..Len(candidates) : candidates[n] \notin P =>
           Weight(P \cap Prefix(n - 1)) + items[candidates[n]].weight > residual,
         NEW T \in SUBSET Unpinned, Weight(T) <= residual
  PROVE  \/ Value(T) <= Value(P)
         \/ \E k \in Unpinned : items[k].weight <= residual /\ Value(T) <= Value(P) + items[k].value
<1>. DEFINE N == Len(candidates)
            F == {i \in Unpinned : items[i].weight <= residual}
            R == {n \in 1..N : candidates[n] \in F \ P}
<1>1. /\ N \in Nat /\ Unpinned \in SUBSET All
      /\ \A n \in 1..N : candidates[n] \in Unpinned /\ candidates[n] \in All
      /\ \A i \in Unpinned : \E n \in 1..N : candidates[n] = i
  BY CandidateFacts, CapacityType DEF Unpinned
<1>. HIDE DEF N
<1>2. ASSUME NEW S \in SUBSET Unpinned, Weight(S) <= residual PROVE S \subseteq F
  <2>. SUFFICES ASSUME NEW i \in S PROVE items[i].weight <= residual
    OBVIOUS
  <2>1. S \in SUBSET All /\ i \in All /\ {i} \in SUBSET S
    BY <1>1
  <2>2. Weight({i}) = items[i].weight /\ Weight({i}) <= Weight(S)
    BY <2>1, OneWeighs, MoreWeighs
  <2>3. items[i].weight \in Nat /\ Weight(S) \in Nat
    BY <2>1, ItemType, WeightSums
  <2>. QED
    BY <1>2, <2>2, <2>3
<1>3. P \subseteq F /\ T \subseteq F
  BY <1>2
<1>4. CASE R = {}
  <2>1. T \in SUBSET P
    BY <1>1, <1>3, <1>4
  <2>. QED
    BY <1>1, <2>1, MoreWeighs
<1>5. CASE R # {}
  <2>1. PICK n \in R : \A m \in R : n <= m
    <3>1. R \subseteq Nat
      BY <1>1
    <3>. HIDE DEF R
    <3>. QED
      BY <1>5, <3>1, LeastNatural
  <2>. DEFINE k == candidates[n]
              A == P \cap Prefix(n - 1)
              Q == A \cup {k}
              X == {x \in T \ Q : items[x].weight > 0}
              Z == {x \in T \ Q : ~(items[x].weight > 0)}
              Y == Q \ T
              C == T \cap Q
              w == items[k].weight
              v == items[k].value
  <2>2. /\ n \in 1..N /\ k \in F /\ k \notin P /\ k \in All /\ k \in Unpinned
        /\ w \in Nat /\ v \in Nat /\ w <= residual
        /\ A \in SUBSET All /\ Q \in SUBSET All /\ P \in SUBSET All /\ T \in SUBSET All
    BY <1>1, <2>1, ItemType
  <2>3. Weight(A) \in Nat /\ Weight(P) \in Nat /\ Weight(A) <= Weight(P)
    BY <2>2, WeightSums, MoreWeighs
  <2>4. Weight(A) + w > residual
    BY <2>2 DEF N
  <2>5. w > 0
    <3>. HIDE DEF w, A
    <3>. QED
      BY <2>2, <2>3, <2>4
  <2>6. Weight(Q) = Weight(A) + w /\ Value(Q) = Value(A) + v
    BY <2>2, WeightSums
  \* What fits and comes before k was picked.
  <2>7. ASSUME NEW m \in 1..N, candidates[m] \in F, m < n PROVE candidates[m] \in A
    <3>1. m \notin R /\ m \in 1..(n - 1)
      BY <1>1, <2>1, <2>7
    <3>. QED
      BY <2>7, <3>1 DEF Prefix
  <2>8. ASSUME NEW x \in X PROVE items[x].value * w <= items[x].weight * v
    <3>1. x \in F /\ x \notin Q /\ x \in All /\ items[x].weight > 0
      BY <1>1, <1>3
    <3>2. PICK m \in 1..N : candidates[m] = x
      BY <1>1, <3>1
    <3>3. m # n /\ ~(m < n)
      BY <2>7, <3>1, <3>2
    <3>4. n \in 1..(m - 1)
      BY <1>1, <2>2, <3>3
    <3>5. Denser(k, x)
      BY <3>2, <3>4 DEF Sorted, N
    <3>6. items[x].value * Mass(k) <= items[k].value * Mass(x)
      BY <2>2, <3>1, <3>5, DenserIsAsDense DEF AsDense
    <3>7. Mass(k) = w /\ Mass(x) = items[x].weight /\ items[x].weight \in Nat
      BY <2>2, <2>5, <3>1, ItemType
    <3>8. v * items[x].weight = items[x].weight * v
      BY <2>2, <3>7
    <3>9. items[x].value * w <= v * items[x].weight
      BY <3>6, <3>7
    <3>. QED
      BY <3>8, <3>9
  <2>9. ASSUME NEW y \in Y PROVE items[y].weight * v <= items[y].value * w
    <3>1. CASE y = k
      <4>1. w * v = v * w
        BY <2>2
      <4>2. w * v \in Nat /\ v * w \in Nat
        BY <2>2, TimesNat
      <4>3. w * v <= v * w
        <5>. HIDE DEF w, v
        <5>. QED
          BY <4>1, <4>2
      <4>. QED
        BY <3>1, <4>3
    <3>2. CASE y # k
      <4>1. PICK m \in 1..(n - 1) : y = candidates[m]
        BY <3>2 DEF Prefix
      <4>2. n \in 1..Len(candidates) /\ y \in All
        BY <2>2 DEF N
      <4>3. Denser(y, k)
        BY <4>1, <4>2 DEF Sorted
      <4>4. items[k].value * Mass(y) <= items[y].value * Mass(k)
        BY <2>2, <4>2, <4>3, DenserIsAsDense DEF AsDense
      <4>5. Mass(k) = w /\ Mass(y) \in Nat /\ items[y].weight \in Nat /\ items[y].weight <= Mass(y)
            /\ items[y].value \in Nat
        BY <2>2, <2>5, <4>2, ItemType
      <4>6. items[y].weight * v <= Mass(y) * v
        <5>. HIDE DEF v
        <5>. QED
          BY <2>2, <4>5, TimesMonotone
      <4>7. Mass(y) * v = v * Mass(y) /\ v * Mass(y) <= items[y].value * w
        BY <2>2, <4>4, <4>5
      <4>8. items[y].weight * v \in Nat /\ v * Mass(y) \in Nat /\ items[y].value * w \in Nat
        <5>1. v \in Nat /\ w \in Nat
          BY <2>2
        <5>2. items[y].weight \in Nat /\ items[y].value \in Nat /\ Mass(y) \in Nat
          BY <4>5
        <5>3. \A a, b \in Nat : a * b \in Nat
          OBVIOUS
        <5>. HIDE DEF v, w
        <5>. QED
          BY <5>1, <5>2, <5>3
      <4>. HIDE DEF w, v
      <4>. QED
        BY <4>6, <4>7, <4>8
    <3>. QED
      BY <3>1, <3>2
  <2>10. X \in SUBSET All /\ Y \in SUBSET All /\ Z \in SUBSET All /\ C \in SUBSET All
    BY <2>2
  <2>11. /\ Weight(X) \in Nat /\ Value(X) \in Nat /\ Weight(Y) \in Nat /\ Value(Y) \in Nat
         /\ Weight(Z) \in Nat /\ Value(Z) \in Nat /\ Weight(C) \in Nat /\ Value(C) \in Nat
         /\ Weight(T) \in Nat /\ Value(T) \in Nat /\ Weight(Q) \in Nat /\ Value(Q) \in Nat
         /\ Value(A) \in Nat /\ Value(P) \in Nat
    <3>. HIDE DEF X, Y, Z, C, Q, A
    <3>. QED
      BY <2>2, <2>10, WeightSums
  \* Items without weight are never passed over.
  <2>12. Z \subseteq P /\ Z \cap A = {}
    <3>. SUFFICES ASSUME NEW z \in Z, z \notin P PROVE FALSE
      OBVIOUS
    <3>1. z \in Unpinned /\ z \in All
      BY <2>2
    <3>2. PICK m \in 1..N : candidates[m] = z
      BY <1>1, <3>1
    <3>3. Weight(P \cap Prefix(m - 1)) + items[z].weight > residual
      BY <3>2 DEF N
    <3>4. items[z].weight = 0
      BY <3>1, ItemType
    <3>5. Weight(P \cap Prefix(m - 1)) \in Nat /\ Weight(P \cap Prefix(m - 1)) <= Weight(P)
      BY <2>2, WeightSums, MoreWeighs
    <3>. QED
      BY <2>3, <3>3, <3>4, <3>5
  <2>13. /\ Weight(Q) = Weight(C) + Weight(Y) /\ Value(Q) = Value(C) + Value(Y)
    <3>1. C \cup Y = Q /\ C \cap Y = {}
      OBVIOUS
    <3>. HIDE DEF C, Y, Q
    <3>. QED
      BY <2>10, <3>1, WeightSums
  <2>14. /\ Weight(T) = Weight(C) + (Weight(X) + Weight(Z))
         /\ Value(T) = Value(C) + (Value(X) + Value(Z))
    <3>1. C \cup (X \cup Z) = T /\ C \cap (X \cup Z) = {} /\ X \cap Z = {}
      OBVIOUS
    <3>. HIDE DEF C, X, Z
    <3>2. X \cup Z \in SUBSET All
      BY <2>10
    <3>3. Weight(T) = Weight(C) + Weight(X \cup Z) /\ Value(T) = Value(C) + Value(X \cup Z)
      BY <2>10, <3>1, <3>2, WeightSums
    <3>4. Weight(X \cup Z) = Weight(X) + Weight(Z) /\ Value(X \cup Z) = Value(X) + Value(Z)
      BY <2>10, <3>1, WeightSums
    <3>. QED
      BY <3>3, <3>4
  <2>15. Value(A) + Value(Z) <= Value(P)
    <3>1. A \cup Z \in SUBSET P /\ A \cap Z = {}
      BY <2>12
    <3>2. Value(A \cup Z) <= Value(P)
      <4>. HIDE DEF A, Z
      <4>. QED
        BY <2>2, <3>1, MoreWeighs
    <3>3. Value(A \cup Z) = Value(A) + Value(Z)
      <4>. HIDE DEF A, Z
      <4>. QED
        BY <2>2, <2>10, <3>1, WeightSums
    <3>. QED
      BY <3>2, <3>3
  <2>16. Value(X) * w <= Weight(X) * v /\ Weight(Y) * v <= Value(Y) * w
    <3>1. (\A x \in X : items[x].value * w <= items[x].weight * v) => Value(X) * w <= Weight(X) * v
      <4>. HIDE DEF X, w, v
      <4>. QED
        BY <2>2, <2>10, SparseSets
    <3>2. (\A y \in Y : items[y].weight * v <= items[y].value * w) => Weight(Y) * v <= Value(Y) * w
      <4>. HIDE DEF Y, w, v
      <4>. QED
        BY <2>2, <2>10, SparseSets
    <3>. QED
      BY <2>8, <2>9, <3>1, <3>2
  <2>17. w \in Nat /\ v \in Nat /\ k \in Unpinned /\ w <= residual /\ w = items[k].weight /\ v = items[k].value
    BY <2>2
  <2>. HIDE DEF X, Y, Z, C, A, Q, w, v, k, F, R
  <2>18. Weight(X) <= Weight(Y)
    <3>1. Weight(Q) > residual
      BY <2>4, <2>6
    <3>2. Weight(C) + (Weight(X) + Weight(Z)) <= residual
      BY <2>14
    <3>3. Weight(C) + Weight(Y) > residual
      BY <2>13, <3>1
    <3>4. Weight(C) \in Nat /\ Weight(X) \in Nat /\ Weight(Y) \in Nat /\ Weight(Z) \in Nat
      BY <2>11
    <3>. QED
      BY <3>2, <3>3, <3>4
  <2>19. Value(X) <= Value(Y)
    <3>1. Value(X) \in Nat /\ Weight(X) \in Nat /\ Weight(Y) \in Nat /\ Value(Y) \in Nat
      BY <2>11
    <3>2. Weight(X) * v <= Weight(Y) * v /\ Weight(X) * v \in Nat /\ Weight(Y) * v \in Nat
      BY <2>17, <2>18, <3>1, TimesMonotone
    <3>3. Value(X) * w \in Nat /\ Value(Y) * w \in Nat
      BY <2>17, <3>1, TimesNat
    <3>4. Value(X) * w <= Value(Y) * w
      <4>1. Value(X) * w <= Weight(X) * v /\ Weight(Y) * v <= Value(Y) * w
        BY <2>16
      <4>. HIDE DEF v, w
      <4>. QED
        BY <3>2, <3>3, <4>1
    <3>5. Value(Y) < Value(X) => Value(Y) * w < Value(X) * w
      BY <2>5, <2>17, <3>1, TimesStrict
    <3>. QED
      BY <3>1, <3>3, <3>4, <3>5
  <2>20. Value(T) <= Value(P) + v
    <3>1. /\ Value(X) \in Nat /\ Value(Y) \in Nat /\ Value(Z) \in Nat /\ Value(C) \in Nat
          /\ Value(A) \in Nat /\ Value(P) \in Nat
      BY <2>11
    <3>2. Value(C) + Value(Y) = Value(A) + v
      BY <2>6, <2>13
    <3>3. Value(T) = Value(C) + (Value(X) + Value(Z))
      BY <2>14
    <3>4. v \in Nat /\ Value(T) \in Nat
      BY <2>11, <2>17
    <3>5. Value(T) <= (Value(C) + Value(Y)) + Value(Z)
      BY <2>19, <3>1, <3>3
    <3>6. Value(T) <= (Value(A) + v) + Value(Z)
      BY <3>2, <3>5
    <3>. QED
      BY <2>15, <3>1, <3>4, <3>6
  <2>. QED
    BY <2>17, <2>20
<1>. QED
  BY <1>4, <1>5

-----------------------------------------------------------------------------
(* The end of the greedy solver.                                           *)

\* No candidate is left out for one of the same weight that is worth less.
LEMMA GreedyIsPreferred ==
  ASSUME items \in Seq(Thing), candidates \in SetToSeqs(Unpinned), residual \in Nat, Sorted,
         NEW P \in SUBSET Unpinned, Weight(P) <= residual,
         \A n \in 1..Len(candidates) : candidates[n] \notin P =>
           Weight(P \cap Prefix(n - 1)) + items[candidates[n]].weight > residual
  PROVE  Preferred(P)
<1>. SUFFICES ASSUME NEW i \in P, NEW j \in Unpinned \ P, items[i].weight = items[j].weight
              PROVE  items[j].value <= items[i].value
  BY DEF Preferred
<1>1. /\ P \in SUBSET All /\ i \in All /\ j \in All /\ i \in Unpinned /\ i # j
      /\ items[i].value \in Nat /\ items[j].value \in Nat /\ items[i].weight \in Nat
      /\ Mass(i) \in Nat /\ Mass(i) > 0 /\ Mass(j) = Mass(i)
  <2>1. Unpinned \in SUBSET All
    BY DEF Unpinned
  <2>. QED
    BY <2>1, ItemType DEF Mass
<1>2. PICK n \in 1..Len(candidates) : candidates[n] = i
  BY <1>1, CandidateFacts
<1>3. PICK m \in 1..Len(candidates) : candidates[m] = j
  BY CandidateFacts
<1>4. CASE n < m
  <2>1. n \in 1..(m - 1)
    BY <1>4, CandidateFacts
  <2>2. AsDense(i, j)
    BY <1>1, <1>2, <1>3, <2>1, DenserIsAsDense DEF Sorted
  <2>3. items[j].value * Mass(i) <= items[i].value * Mass(i)
    <3>1. items[j].value * Mass(i) <= items[i].value * Mass(j)
      BY <2>2 DEF AsDense
    <3>2. Mass(j) = Mass(i)
      BY <1>1
    <3>. QED
      BY <3>1, <3>2
  <2>4. items[j].value * Mass(i) \in Nat /\ items[i].value * Mass(i) \in Nat
    BY <1>1, TimesNat
  <2>5. items[i].value < items[j].value => items[i].value * Mass(i) < items[j].value * Mass(i)
    BY <1>1, TimesStrict
  <2>6. ~(items[i].value < items[j].value)
    BY <2>3, <2>4, <2>5
  <2>7. items[j].value \in Nat /\ items[i].value \in Nat
    BY <1>1
  <2>. QED
    BY <2>6, <2>7
<1>5. CASE ~(n < m)
  <2>. DEFINE A == P \cap Prefix(m - 1)
  <2>1. m \in 1..n
    BY <1>5, CandidateFacts
  <2>2. i \notin A
    BY <1>2, <2>1, PrefixGrows
  <2>3. A \in SUBSET All /\ A \cup {i} \in SUBSET P
    BY <1>1
  <2>4. Weight(A) + items[i].weight > residual
    BY <1>3
  <2>. HIDE DEF A
  <2>5. Weight(A \cup {i}) = Weight(A) + items[i].weight
    BY <1>1, <2>2, <2>3, WeightSums
  <2>6. Weight(A \cup {i}) <= Weight(P) /\ Weight(P) \in Nat /\ Weight(A) \in Nat
    BY <1>1, <2>3, MoreWeighs, WeightSums
  <2>. QED
    BY <1>1, <2>4, <2>5, <2>6
<1>. QED
  BY <1>4, <1>5

\* i is worth more than o, or the first of the two.
Leads(i, o) ==
  \/ items[i].value > items[o].value
  \/ items[i].value = items[o].value /\ i <= o

\* A set of items has one of greatest value.
LEMMA LeaderExists ==
  ASSUME items \in Seq(Thing), NEW F \in SUBSET All, F # {}
  PROVE  \E i \in F : \A o \in F : Leads(i, o)
<1>. DEFINE R == {p \in All \X All : Leads(p[2], p[1])}
            v(i) == items[i].value
<1>1. \A i \in All : i \in Nat /\ v(i) \in Nat
  BY ItemType DEF All
<1>2. \A i, o \in All : <<o, i>> \in R <=> v(i) > v(o) \/ (v(i) = v(o) /\ i <= o)
  BY DEF Leads
<1>3. IsOrder(R, F)
  <2>. HIDE DEF R, v
  <2>1. ASSUME NEW x \in F, NEW y \in F, x # y PROVE <<x, y>> \in R \/ <<y, x>> \in R
    <3>1. x \in All /\ y \in All
      OBVIOUS
    <3>. QED
      BY <1>1, <1>2, <2>1, <3>1
  <2>2. ASSUME NEW x \in F, NEW y \in F, NEW z \in F, <<x, y>> \in R, <<y, z>> \in R
        PROVE  <<x, z>> \in R
    <3>1. x \in All /\ y \in All /\ z \in All
      OBVIOUS
    <3>2. v(y) > v(x) \/ (v(y) = v(x) /\ y <= x)
      BY <1>2, <2>2, <3>1
    <3>3. v(z) > v(y) \/ (v(z) = v(y) /\ z <= y)
      BY <1>2, <2>2, <3>1
    <3>4. v(z) > v(x) \/ (v(z) = v(x) /\ z <= x)
      BY <1>1, <3>1, <3>2, <3>3
    <3>. QED
      BY <1>2, <3>1, <3>4
  <2>. QED
    BY <2>1, <2>2 DEF IsOrder
<1>4. IsFiniteSet(F)
  BY AllFinite
<1>5. PICK i \in F : \A o \in F \ {i} : <<o, i>> \in R
  <2>. HIDE DEF R
  <2>. QED
    BY <1>3, <1>4, LastExists
<1>6. \A o \in F : Leads(i, o)
  <2>1. Leads(i, i)
    BY <1>1 DEF Leads
  <2>. QED
    BY <1>5, <2>1
<1>. QED
  BY <1>6

\* What the comparison with the best single item makes of the greedy choice.
LEMMA GuardedIsHalf ==
  ASSUME items \in Seq(Thing), candidates \in SetToSeqs(Unpinned), residual \in Nat, Sorted,
         NEW P \in SUBSET Unpinned, Weight(P) <= residual,
         \A n \in 1..Len(candidates) : candidates[n] \notin P =>
           Weight(P \cap Prefix(n - 1)) + items[candidates[n]].weight > residual
  PROVE  /\ Guarded(P) \in SUBSET Unpinned
         /\ Weight(Guarded(P)) <= residual
         /\ Preferred(Guarded(P))
         /\ BestOf(Unpinned, residual) <= 2 * Value(Guarded(P))
<1>. DEFINE F == {i \in ToSet(candidates) : Fits(items[i].weight)}
            best == CHOOSE i \in F : \A o \in F : Leads(i, o)
            v == items[best].value
<1>1. Unpinned \in SUBSET All /\ P \in SUBSET All /\ Value(P) \in Nat
  <2>1. Unpinned \in SUBSET All
    BY DEF Unpinned
  <2>. QED
    BY <2>1, WeightSums
<1>2. F = {i \in Unpinned : items[i].weight <= residual}
  BY CandidateFacts DEF Fits
<1>3. Guarded(P) = IF F # {} /\ v > Value(P) THEN {best} ELSE P
  BY DEF Guarded, Leads
<1>4. F # {} => best \in F /\ \A o \in F : Leads(best, o)
  <2>1. F \in SUBSET All
    BY <1>1, <1>2
  <2>. HIDE DEF F
  <2>. QED
    BY <2>1, LeaderExists
<1>. HIDE DEF F, best
<1>5. F # {} => best \in All /\ best \in Unpinned /\ v \in Nat
  BY <1>1, <1>2, <1>4, ItemType
<1>6. \A o \in F : items[o].value \in Nat /\ items[o].value <= v
  <2>. SUFFICES ASSUME NEW o \in F PROVE items[o].value \in Nat /\ items[o].value <= v
    OBVIOUS
  <2>1. o \in All /\ F # {}
    BY <1>1, <1>2
  <2>2. items[o].value \in Nat /\ v \in Nat
    BY <1>5, <2>1, ItemType
  <2>3. v > items[o].value \/ v = items[o].value
    BY <1>4, <2>1 DEF Leads
  <2>. QED
    BY <2>2, <2>3
<1>7. PICK T \in SUBSET Unpinned : Weight(T) <= residual /\ Value(T) = BestOf(Unpinned, residual)
  BY <1>1, BestIsBest
<1>8. Value(T) \in Nat
  BY <1>1, WeightSums
<1>9. Value(T) <= Value(P) \/ \E k \in F : Value(T) <= Value(P) + items[k].value
  BY <1>2, <1>7, GreedyLacksOne
<1>10. Value(T) <= Value(P) \/ (F # {} /\ Value(T) <= Value(P) + v)
  <2>. HIDE DEF v
  <2>1. ASSUME NEW k \in F, Value(T) <= Value(P) + items[k].value
        PROVE  F # {} /\ Value(T) <= Value(P) + v
    <3>1. F # {} /\ items[k].value \in Nat /\ items[k].value <= v /\ v \in Nat
      BY <1>5, <1>6
    <3>. QED
      BY <1>1, <1>8, <2>1, <3>1
  <2>. QED
    BY <1>9, <2>1
<1>11. CASE F # {} /\ v > Value(P)
  <2>1. Guarded(P) = {best} /\ best \in Unpinned /\ best \in All /\ v \in Nat
    BY <1>3, <1>5, <1>11
  <2>2. Weight({best}) = items[best].weight /\ Value({best}) = v
    BY <2>1, OneWeighs
  <2>3. items[best].weight <= residual
    BY <1>2, <1>4, <1>11
  <2>4. Preferred({best})
    <3>. SUFFICES ASSUME NEW j \in Unpinned \ {best}, items[best].weight = items[j].weight
                  PROVE  items[j].value <= v
      BY DEF Preferred
    <3>1. j \in F
      BY <1>2, <2>3
    <3>. QED
      BY <1>6, <3>1
  <2>5. Value(T) <= 2 * v
    <3>. HIDE DEF v
    <3>. QED
      BY <1>1, <1>8, <1>10, <1>11, <2>1
  <2>. QED
    BY <1>7, <2>1, <2>2, <2>3, <2>4, <2>5
<1>12. CASE ~(F # {} /\ v > Value(P))
  <2>1. Guarded(P) = P
    BY <1>3, <1>12
  <2>2. Value(T) <= 2 * Value(P)
    <3>. HIDE DEF v
    <3>. QED
      BY <1>1, <1>5, <1>8, <1>10, <1>12
  <2>. QED
    BY <1>7, <2>1, <2>2, GreedyIsPreferred
<1>. QED
  BY <1>11, <1>12

\* The greedy solver's choice, or the one item that beats it.
LEMMA EndGreedyKeeps == ASSUME SolverInv, EndGreedy PROVE SolverInv'
<1>1. /\ items \in Seq(Thing) /\ maxTokens \in Nat /\ phase = "greedy" /\ Over /\ Laid
      /\ ~Exact(Len(candidates), residual) /\ Packing
      /\ UNCHANGED input /\ phase' = "done" /\ UNCHANGED <<dp, bits, at, cap>>
      /\ at > Len(candidates)
      /\ selected' = (selected \ Chosen) \cup Guarded(Chosen)
  BY DEF SolverInv, Unsolved, EndGreedy, Laid
<1>2. /\ candidates \in SetToSeqs(Unpinned) /\ residual \in Nat /\ Sorted
      /\ Picked \in SUBSET Unpinned /\ Weight(Picked) <= residual /\ Chosen = Picked
      /\ selected = Pinned \cup Picked
  BY <1>1, PickedFacts DEF Laid, Packing
<1>3. Len(candidates) \in Nat /\ at - 1 = Len(candidates)
  BY <1>1, <1>2, CandidateFacts DEF Packing
<1>4. \A n \in 1..Len(candidates) : candidates[n] \notin Picked =>
        Weight(Picked \cap Prefix(n - 1)) + items[candidates[n]].weight > residual
  BY <1>1, <1>3 DEF Packing, PassedOver
<1>. DEFINE G == Guarded(Picked)
<1>5. /\ G \in SUBSET Unpinned /\ Weight(G) <= residual /\ Preferred(G)
      /\ BestOf(Unpinned, residual) <= 2 * Value(G)
  BY <1>1, <1>2, <1>4, GuardedIsHalf
<1>. HIDE DEF G
<1>6. selected' = Pinned \cup G
  BY <1>1, <1>2 DEF Picked, G
<1>7. Picked' = G /\ selected' \subseteq All
  <2>1. selected' \ Pinned = G /\ selected' \subseteq All
    BY <1>5, <1>6, CapacityType DEF Unpinned, Pinned
  <2>. QED
    BY <1>1, <2>1, Frame DEF Picked
<1>8. residual' = residual /\ candidates' = candidates /\ Len(candidates') = Len(candidates)
  BY <1>1 DEF input
<1>9. Solved'
  BY <1>1, <1>5, <1>7, <1>8, Frame DEF Solved, Exact
<1>10. Laid'
  BY <1>1, <1>2, <1>6, <1>7, <1>8, <1>9, Frame DEF Laid
<1>. QED
  BY <1>1, <1>10, Frame DEF SolverInv, Unsolved, input

-----------------------------------------------------------------------------
(* The search from the edited files.                                       *)

Edited == status.allDirtyFiles

\* A distance is the length of a path from an edited file.
Reached ==
  /\ DOMAIN distance \subseteq Paths
  /\ \A p \in DOMAIN distance : distance[p] \in Nat
  /\ \A p \in Edited : p \in DOMAIN distance /\ distance[p] = 0
  /\ \A p \in DOMAIN distance :
       \/ p \in Edited
       \/ \E q \in DOMAIN distance : p \in Neighbours(q) /\ distance[p] = distance[q] + 1

\* The neighbours of p are known to be no further than one more.
Explored(p) ==
  \A q \in Neighbours(p) : q \in DOMAIN distance /\ distance[q] <= distance[p] + 1

\* The queue holds what was reached, in the order of distance, and of what is still
\* to be looked at no path is more than one further than the next.
Searching ==
  /\ Reached
  /\ Len(queue) \in Nat /\ queue \in Seq(Paths) /\ head \in 1..(Len(queue) + 1)
  /\ \A k \in 1..Len(queue) : queue[k] \in DOMAIN distance
  /\ \A p \in DOMAIN distance : \E k \in 1..Len(queue) : queue[k] = p
  /\ \A j, k \in 1..Len(queue) : j <= k => distance[queue[j]] <= distance[queue[k]]
  /\ head <= Len(queue) =>
       \A k \in 1..Len(queue) : distance[queue[k]] <= distance[queue[head]] + 1
  /\ \A k \in 1..(head - 1) : Explored(queue[k])

Measured == Reached /\ \A p \in DOMAIN distance : Explored(p)

SearchInv ==
  /\ GitInv
  /\ bundle \in Bundles
  /\ phase = "inspect" => head = 1
  /\ phase = "search" => Searching
  /\ phase \notin {"inspect", "search"} => Measured

\* The items of a bundle.
LEMMA BundleType ==
  ASSUME bundle \in Bundles
  PROVE  /\ Len(bundle) \in Nat /\ DOMAIN bundle = 1..Len(bundle)
         /\ \A i \in DOMAIN bundle :
              /\ bundle[i].path \in Paths \cup {NoPath}
              /\ bundle[i].weight \in Nat
              /\ bundle[i].kind \in {"prompt", "conversation", "file", "diff", "log"}
              /\ bundle[i].directive \in BOOLEAN /\ bundle[i].protected \in BOOLEAN
<1>. DEFINE E == [path : Paths \cup {NoPath}, weight : Nat,
                  kind : {"prompt", "conversation", "file", "diff", "log"},
                  directive : BOOLEAN, protected : BOOLEAN]
<1>1. Bundles \subseteq Seq(E)
  BY TopologyAssumption
<1>2. bundle \in Seq(E)
  BY <1>1
<1>3. Len(bundle) \in Nat /\ DOMAIN bundle = 1..Len(bundle) /\ \A i \in DOMAIN bundle : bundle[i] \in E
  <2>. HIDE DEF E
  <2>. QED
    BY <1>2
<1>. QED
  BY <1>3

\* The order a set is queued in has every element.
LEMMA QueuedSet ==
  ASSUME NEW S, IsFiniteSet(S)
  PROVE  /\ SetToSeq(S) \in Seq(S) /\ Len(SetToSeq(S)) \in Nat
         /\ \A k \in 1..Len(SetToSeq(S)) : SetToSeq(S)[k] \in S
         /\ \A x \in S : \E k \in 1..Len(SetToSeq(S)) : SetToSeq(S)[k] = x
<1>. DEFINE any == S \X S
<1>1. IsOrder(any, S)
  BY DEF IsOrder
<1>2. PICK s : Lists(s, S, any)
  <2>. HIDE DEF any
  <2>. QED
    BY <1>1, ListExists
<1>3. s \in [1..Cardinality(S) -> S] /\ IsInjective(s)
  BY <1>2 DEF Lists, SetToSeqs, IsInjective
<1>4. SetToSeq(S) \in [1..Cardinality(S) -> S] /\ IsInjective(SetToSeq(S))
  BY <1>3 DEF SetToSeq
<1>. HIDE DEF any
<1>5. SetToSeq(S) \in SetToSeqs(S)
  BY <1>4 DEF IsInjective, SetToSeqs
<1>6. /\ Cardinality(S) \in Nat /\ SetToSeq(S) \in Seq(S) /\ Len(SetToSeq(S)) = Cardinality(S)
      /\ \A x \in S : \E i \in 1..Cardinality(S) : SetToSeq(S)[i] = x
  BY <1>5, ListIsWhole
<1>. QED
  BY <1>4, <1>6

\* Only files of the bundle have neighbours, and those are of the bundle too.
LEMMA NeighboursArePaths ==
  ASSUME bundle \in Bundles, NEW p
  PROVE  Neighbours(p) \subseteq Paths
<1>1. Known \subseteq Paths
  BY BundleType DEF Known
<1>. QED
  BY <1>1 DEF Neighbours

\* What git knows of are paths, and there are finitely many.
LEMMA PathsFinite == ASSUME NEW S \in SUBSET Paths PROVE IsFiniteSet(S)
<1>1. IsFiniteSet(Paths)
  BY Zenon, TopologyAssumption
<1>. QED
  BY <1>1, FS_Subset

\* What git calls edited are paths.
LEMMA DirtyArePaths == ASSUME NEW a \in Answers PROVE a.allDirtyFiles \subseteq Paths
<1>1. CASE a = NotARepo
  BY <1>1 DEF NotARepo
<1>2. CASE a # NotARepo
  <2>1. PICK t \in Trees, recent \in Logs : a = Answer(Dirty(t), recent)
    BY <1>2 DEF Answers
  <2>2. a.allDirtyFiles = Dirty(t) /\ Files \subseteq Paths
    BY <2>1, Zenon, GitAssumption DEF Answer
  <2>. QED
    BY <2>2, ReportedFiles
<1>. QED
  BY <1>1, <1>2

\* The search starts from the edited files, at distance 0.
LEMMA InspectGitKeeps == ASSUME SearchInv, InspectGit PROVE SearchInv'
<1>1. /\ GitInv /\ bundle \in Bundles /\ phase = "inspect" /\ head = 1 /\ Inspected
      /\ distance' = [p \in Edited' |-> 0] /\ queue' = SetToSeq(Edited') /\ phase' = "search"
      /\ bundle' = bundle /\ head' = head /\ imports' = imports
  BY DEF SearchInv, InspectGit, Edited
<1>2. GitInv'
  BY <1>1, InspectKeepsGit
<1>3. Edited' \subseteq Paths
  BY <1>2, DirtyArePaths DEF GitInv, Edited
<1>. DEFINE s == SetToSeq(Edited')
<1>4. /\ s \in Seq(Edited') /\ Len(s) \in Nat /\ \A k \in 1..Len(s) : s[k] \in Edited'
      /\ \A x \in Edited' : \E k \in 1..Len(s) : s[k] = x
  BY <1>3, PathsFinite, QueuedSet
<1>5. queue' = s
  BY <1>1
<1>. HIDE DEF s
<1>6. DOMAIN distance' = Edited' /\ \A p \in Edited' : distance'[p] = 0
  BY <1>1
<1>7. Reached'
  BY <1>3, <1>6 DEF Reached
<1>8. queue' \in Seq(Paths) /\ Len(queue') \in Nat
  BY <1>3, <1>4, <1>5
<1>9. head' = 1
  BY <1>1
<1>10. Searching'
  BY <1>4, <1>5, <1>6, <1>7, <1>8, <1>9 DEF Searching
<1>. QED
  BY <1>1, <1>2, <1>10 DEF SearchInv

\* The graph does not change under the search.
LEMMA GraphFrame ==
  ASSUME bundle' = bundle, imports' = imports
  PROVE  \A p : Neighbours(p)' = Neighbours(p)
<1>1. Known' = Known
  BY DEF Known
<1>2. \A s : Resolved(s)' = Resolved(s)
  BY <1>1 DEF Resolved
<1>3. \A p : Edges(p)' = Edges(p)
  BY <1>2 DEF Edges
<1>. QED
  BY <1>1, <1>3 DEF Neighbours

\* Looking at the next path of the queue.
LEMMA VisitKeeps == ASSUME SearchInv, Visit PROVE SearchInv'
<1>. DEFINE L == Len(queue)
            p == queue[head]
            new == Neighbours(p) \ DOMAIN distance
            s == SetToSeq(new)
            D == DOMAIN distance
<1>1. /\ GitInv /\ bundle \in Bundles /\ phase = "search" /\ Searching /\ Reached
      /\ head \in 1..L /\ L \in Nat
      /\ distance' = [q \in D \cup new |-> IF q \in new THEN distance[p] + 1 ELSE distance[q]]
      /\ queue' = queue \o s /\ head' = head + 1
      /\ UNCHANGED <<phase, bundle, imports, status>> /\ UNCHANGED gitVars
  BY DEF SearchInv, Searching, Visit, Found, vars, gitVars
<1>2. GitInv' /\ Edited' = Edited /\ \A q : Neighbours(q)' = Neighbours(q)
  BY <1>1, GraphFrame, GitFrame DEF gitVars, Edited
<1>3. /\ s \in Seq(new) /\ Len(s) \in Nat /\ \A k \in 1..Len(s) : s[k] \in new
      /\ \A x \in new : \E k \in 1..Len(s) : s[k] = x
  <2>1. new \in SUBSET Paths
    BY <1>1, NeighboursArePaths
  <2>2. IsFiniteSet(new)
    BY <2>1, PathsFinite
  <2>. HIDE DEF new
  <2>. QED
    BY <2>2, QueuedSet
<1>4. new \subseteq Paths /\ new \subseteq Neighbours(p) /\ new \cap D = {} /\ Neighbours(p) \subseteq D \cup new
  BY <1>1, NeighboursArePaths
<1>5. /\ queue \in Seq(Paths) /\ p \in D /\ D \subseteq Paths
      /\ \A k \in 1..L : queue[k] \in D
      /\ \A q \in D : distance[q] \in Nat
      /\ \A q \in D : \E k \in 1..L : queue[k] = q
      /\ \A k \in 1..L : distance[queue[k]] <= distance[p] + 1
      /\ \A j, k \in 1..L : j <= k => distance[queue[j]] <= distance[queue[k]]
  BY <1>1 DEF Searching, Reached
<1>. HIDE DEF p, new, s
<1>6. /\ DOMAIN distance' = D \cup new
      /\ \A q \in D : distance'[q] = distance[q]
      /\ \A q \in new : distance'[q] = distance[p] + 1
  BY <1>1, <1>4
<1>7. /\ queue' \in Seq(Paths) /\ Len(queue') = L + Len(s) /\ L + Len(s) \in Nat
      /\ \A k \in 1..L : queue'[k] = queue[k]
      /\ \A k \in (L + 1)..(L + Len(s)) : queue'[k] = s[k - L] /\ k - L \in 1..Len(s)
  <2>1. s \in Seq(Paths)
    BY <1>3, <1>4
  <2>. HIDE DEF D
  <2>. QED
    BY <1>1, <1>3, <1>5, <2>1
<1>8. \A k \in 1..Len(queue') :
        \/ k \in 1..L /\ queue'[k] \in D /\ distance'[queue'[k]] = distance[queue[k]]
        \/ k \in (L + 1)..(L + Len(s)) /\ queue'[k] \in new /\ distance'[queue'[k]] = distance[p] + 1
  <2>. SUFFICES ASSUME NEW k \in 1..Len(queue')
                PROVE  \/ k \in 1..L /\ queue'[k] \in D /\ distance'[queue'[k]] = distance[queue[k]]
                       \/ /\ k \in (L + 1)..(L + Len(s)) /\ queue'[k] \in new
                          /\ distance'[queue'[k]] = distance[p] + 1
    OBVIOUS
  <2>1. CASE k \in 1..L
    BY <1>5, <1>6, <1>7, <2>1
  <2>2. CASE k \in (L + 1)..(L + Len(s))
    BY <1>3, <1>6, <1>7, <2>2
  <2>3. k \in 1..L \/ k \in (L + 1)..(L + Len(s))
    BY <1>1, <1>3, <1>7
  <2>. QED
    BY <2>1, <2>2, <2>3
<1>9. /\ Len(queue') \in Nat /\ Len(queue') >= L /\ head \in Nat /\ head + 1 <= Len(queue') + 1
       /\ head \in 1..L /\ L \in Nat /\ head' = head + 1
  <2>. HIDE DEF L
  <2>. QED
    BY <1>1, <1>3, <1>7
<1>10. \A k \in 1..Len(queue') :
         distance'[queue'[k]] \in Nat /\ distance'[queue'[k]] <= distance[p] + 1
  <2>. SUFFICES ASSUME NEW k \in 1..Len(queue')
                PROVE  distance'[queue'[k]] \in Nat /\ distance'[queue'[k]] <= distance[p] + 1
    OBVIOUS
  <2>1. distance[p] \in Nat
    BY <1>5
  <2>2. CASE k \in 1..L /\ distance'[queue'[k]] = distance[queue[k]]
    BY <1>5, <2>2
  <2>3. CASE distance'[queue'[k]] = distance[p] + 1
    BY <2>1, <2>3
  <2>. QED
    BY <1>8, <2>2, <2>3
<1>11. Reached'
  <2>1. \A q \in D \cup new : distance'[q] \in Nat
    BY <1>5, <1>6
  <2>2. \A q \in Edited : q \in D \cup new /\ distance'[q] = 0
    BY <1>1, <1>6 DEF Reached
  <2>3. ASSUME NEW q \in D \cup new
        PROVE  \/ q \in Edited
               \/ \E r \in D \cup new : q \in Neighbours(r) /\ distance'[q] = distance'[r] + 1
    <3>1. CASE q \in new
      BY <1>4, <1>5, <1>6, <3>1
    <3>2. CASE q \in D
      BY <1>1, <1>6, <3>2 DEF Reached
    <3>. QED
      BY <3>1, <3>2
  <2>. QED
    BY <1>2, <1>4, <1>5, <1>6, <2>1, <2>2, <2>3 DEF Reached
<1>12. \A q \in DOMAIN distance' : \E k \in 1..Len(queue') : queue'[k] = q
  <2>. SUFFICES ASSUME NEW q \in D \cup new PROVE \E k \in 1..Len(queue') : queue'[k] = q
    BY <1>6
  <2>1. CASE q \in D
    <3>1. PICK k \in 1..L : queue[k] = q
      BY <1>5, <2>1
    <3>. QED
      BY <1>1, <1>3, <1>7, <3>1
  <2>2. CASE q \in new
    <3>1. PICK k \in 1..Len(s) : s[k] = q
      BY <1>3, <2>2
    <3>2. L + k \in (L + 1)..(L + Len(s)) /\ (L + k) - L = k /\ L + k \in 1..(L + Len(s))
      <4>. HIDE DEF L
      <4>. QED
        BY <1>1, <1>3
    <3>3. queue'[L + k] = q
      BY <1>7, <3>1, <3>2
    <3>. QED
      BY <1>7, <3>2, <3>3
  <2>. QED
    BY <2>1, <2>2
<1>13. \A j, k \in 1..Len(queue') : j <= k => distance'[queue'[j]] <= distance'[queue'[k]]
  <2>. SUFFICES ASSUME NEW j \in 1..Len(queue'), NEW k \in 1..Len(queue'), j <= k
                PROVE  distance'[queue'[j]] <= distance'[queue'[k]]
    OBVIOUS
  <2>1. distance[p] + 1 \in Nat
    BY <1>5
  <2>2. CASE k \in 1..L
    <3>1. j \in 1..L
      BY <1>1, <2>2
    <3>2. distance'[queue'[j]] = distance[queue[j]] /\ distance'[queue'[k]] = distance[queue[k]]
      BY <1>5, <1>6, <1>7, <2>2, <3>1
    <3>. QED
      BY <1>5, <2>2, <3>1, <3>2
  <2>3. CASE k \notin 1..L
    <3>1. distance'[queue'[k]] = distance[p] + 1
      BY <1>8, <2>3
    <3>2. distance'[queue'[j]] <= distance[p] + 1
      BY <1>10
    <3>. QED
      BY <3>1, <3>2
  <2>. QED
    BY <2>2, <2>3
<1>14. head' <= Len(queue') =>
         \A k \in 1..Len(queue') : distance'[queue'[k]] <= distance'[queue'[head']] + 1
  <2>. SUFFICES ASSUME head + 1 <= Len(queue'), NEW k \in 1..Len(queue')
                PROVE  distance'[queue'[k]] <= distance'[queue'[head + 1]] + 1
    BY <1>1
  <2>1. head \in 1..Len(queue') /\ head + 1 \in 1..Len(queue') /\ head <= head + 1
    BY <1>1, <1>3, <1>7
  <2>2. distance'[queue'[head]] <= distance'[queue'[head + 1]]
    BY <1>13, <2>1
  <2>3. distance'[queue'[head]] = distance[p]
    BY <1>1, <1>5, <1>6, <1>7 DEF p
  <2>4. distance'[queue'[k]] <= distance[p] + 1
    BY <1>10
  <2>5. distance'[queue'[head + 1]] \in Nat /\ distance'[queue'[k]] \in Nat /\ distance[p] \in Nat
    BY <1>5, <1>10, <2>1
  <2>. QED
    BY <2>2, <2>3, <2>4, <2>5
<1>15. ASSUME NEW k \in 1..head PROVE Explored(queue[k])'
  <2>0. k \in 1..L
    BY <1>9
  <2>1. k \in 1..L /\ queue[k] \in D /\ queue'[k] = queue[k] /\ distance'[queue[k]] = distance[queue[k]]
    BY <1>5, <1>6, <1>7, <2>0
  <2>. SUFFICES ASSUME NEW q \in Neighbours(queue[k])
                PROVE  q \in D \cup new /\ distance'[q] <= distance[queue[k]] + 1
    BY <1>2, <1>6, <2>1 DEF Explored
  <2>2. CASE k = head
    <3>1. q \in D \cup new
      BY <1>4, <2>2 DEF p
    <3>2. CASE q \in new
      BY <1>5, <1>6, <2>2, <3>2 DEF p
    <3>3. CASE q \in D
      <4>1. PICK m \in 1..L : queue[m] = q
        BY <1>5, <3>3
      <4>. QED
        BY <1>5, <1>6, <2>2, <3>3, <4>1 DEF p
    <3>. QED
      BY <3>1, <3>2, <3>3
  <2>3. CASE k # head
    <3>1. k \in 1..(head - 1)
      BY <1>1, <2>3
    <3>. QED
      BY <1>1, <1>6, <3>1 DEF Searching, Explored
  <2>. QED
    BY <2>2, <2>3
<1>16. Searching'
  <2>1. Len(queue') \in Nat /\ head' \in 1..(Len(queue') + 1) /\ head' - 1 = head
    BY <1>9
  <2>2. \A k \in 1..Len(queue') : queue'[k] \in DOMAIN distance'
    BY <1>6, <1>8
  <2>3. ASSUME NEW k \in 1..(head' - 1) PROVE Explored(queue[k])'
    <3>1. k \in 1..head /\ queue'[k] = queue[k]
      BY <1>1, <1>7, <2>1
    <3>. QED
      BY <1>15, <3>1
  <2>. QED
    BY <1>7, <1>11, <1>12, <1>13, <1>14, <2>1, <2>2, <2>3 DEF Searching
<1>. QED
  BY <1>1, <1>2, <1>16 DEF SearchInv

-----------------------------------------------------------------------------
(* The scores, and the invariant of the stage.                             *)

\* The shape of the distance score.
LEMMA GraphScoreShape ==
  ASSUME Reached, NEW p
  PROVE  GraphScore(p) = IF p \notin DOMAIN distance THEN 5
                         ELSE IF distance[p] >= 3 THEN 10
                         ELSE IF distance[p] = 2 THEN 20
                         ELSE IF distance[p] = 1 THEN 30 ELSE 40
<1>1. CASE p \notin DOMAIN distance
  BY <1>1 DEF GraphScore
<1>2. CASE p \in DOMAIN distance
  <2>1. distance[p] \in Nat
    BY <1>2 DEF Reached
  <2>2. GraphScore(p) = Max({10, 40 - 10 * distance[p]})
    BY <1>2 DEF GraphScore
  <2>3. 40 - 10 * distance[p] \in Int
    BY <2>1
  <2>4. GraphScore(p) = IF 10 >= 40 - 10 * distance[p] THEN 10 ELSE 40 - 10 * distance[p]
    BY <2>2, <2>3, MaxOfTwo
  <2>. QED
    BY <1>2, <2>1, <2>4
<1>. QED
  BY <1>1, <1>2

\* The ceiling of 100 clamps items with a directive only.
LEMMA ScoreShape ==
  ASSUME Reached, NEW e
  PROVE  /\ Score(e) \in Nat
         /\ ~e.directive => Score(e) = GraphScore(LookedUp(e)) + GitScore(LookedUp(e)) + KindScore(e.kind)
         /\ GraphScore(LookedUp(e)) \in Nat /\ GitScore(LookedUp(e)) \in Nat /\ KindScore(e.kind) \in Nat
<1>. DEFINE a == GraphScore(LookedUp(e))
            b == GitScore(LookedUp(e))
            c == KindScore(e.kind)
            d == IF e.directive THEN 25 ELSE 0
<1>1. a \in 5..40
  BY GraphScoreShape
<1>2. b \in 0..30
  BY DEF GitScore
<1>3. c \in 5..30
  BY DEF KindScore
<1>4. d \in {0, 25} /\ (~e.directive => d = 0)
  OBVIOUS
<1>5. Score(e) = Min({100, a + b + c + d})
  BY DEF Score
<1>. HIDE DEF a, b, c, d
<1>6. a + b + c + d \in Int
  BY <1>1, <1>2, <1>3, <1>4
<1>7. Score(e) = IF 100 <= a + b + c + d THEN 100 ELSE a + b + c + d
  BY <1>5, <1>6, MinOfTwo
<1>8. Score(e) \in Nat /\ (d = 0 => Score(e) = a + b + c)
  BY <1>1, <1>2, <1>3, <1>4, <1>7
<1>. QED
  BY <1>1, <1>2, <1>3, <1>4, <1>8 DEF a, b, c

\* What the knapsack is given are items of its kind.
LEMMA ScoredType ==
  ASSUME Reached, bundle \in Bundles
  PROVE  [i \in DOMAIN bundle |-> Scored(bundle[i])] \in Seq(Thing)
<1>1. ASSUME NEW i \in DOMAIN bundle PROVE Scored(bundle[i]) \in Thing
  <2>1. bundle[i].weight \in Nat /\ Score(bundle[i]) \in Nat
    BY BundleType, ScoreShape
  <2>2. (bundle[i].protected \/ bundle[i].directive) \in BOOLEAN
    OBVIOUS
  <2>. QED
    BY <2>1, <2>2 DEF Scored, Thing
<1>2. Len(bundle) \in Nat /\ DOMAIN bundle = 1..Len(bundle)
  BY BundleType
<1>. QED
  BY <1>1, <1>2

PrunerInv ==
  /\ SolverInv
  /\ SearchInv
  /\ phase \notin {"inspect", "search"} => items = [i \in DOMAIN bundle |-> Scored(bundle[i])]

\* The invariant holds at first.
LEMMA InitHolds == TopologyInit => PrunerInv
<1>. SUFFICES ASSUME TopologyInit PROVE PrunerInv
  OBVIOUS
<1>1. GitInv
  BY GitInitHolds DEF TopologyInit
<1>2. items \in Seq(Thing) /\ phase = "inspect" /\ bits = {} /\ at = 1
  BY DEF TopologyInit
<1>3. maxTokens \in Nat
  BY KnapsackAssumption DEF TopologyInit
<1>. QED
  BY <1>1, <1>2, <1>3 DEF TopologyInit, SearchInit, PrunerInv, SolverInv, SearchInv, Unsolved

\* What the solver's steps leave alone.
LEMMA SearchFrame ==
  ASSUME SearchInv, UNCHANGED <<gitVars, searchVars>>,
         \/ phase' = phase
         \/ phase \notin {"inspect", "search"} /\ phase' \notin {"inspect", "search"}
  PROVE  /\ SearchInv'
         /\ DOMAIN bundle' = DOMAIN bundle /\ \A i \in DOMAIN bundle : Scored(bundle[i])' = Scored(bundle[i])
<1>1. /\ bundle' = bundle /\ imports' = imports /\ distance' = distance /\ queue' = queue /\ head' = head
      /\ UNCHANGED gitVars /\ status' = status
  BY DEF searchVars, gitVars
<1>2. GitInv'
  BY <1>1, GitFrame DEF SearchInv
<1>3. /\ \A p : Neighbours(p)' = Neighbours(p)
      /\ Edited' = Edited
  BY <1>1, GraphFrame DEF Edited
<1>4. Reached' <=> Reached
  BY <1>1, <1>3 DEF Reached
<1>5. \A p : Explored(p)' <=> Explored(p)
  BY <1>1, <1>3 DEF Explored
<1>6. (Searching' <=> Searching) /\ (Measured' <=> Measured)
  BY <1>1, <1>4, <1>5 DEF Searching, Measured, Explored
<1>7. \A p : GraphScore(p)' = GraphScore(p) /\ GitScore(p)' = GitScore(p)
  BY <1>1 DEF GraphScore, GitScore
<1>8. \A e : Score(e)' = Score(e)
  BY <1>7 DEF Score, LookedUp
<1>9. \A i \in DOMAIN bundle : Scored(bundle[i])' = Scored(bundle[i])
  BY <1>1, <1>8 DEF Scored
<1>. QED
  BY <1>1, <1>2, <1>6, <1>9 DEF SearchInv

\* The solver's steps.
LEMMA SolveKeepsSolver == ASSUME SolverInv, Next PROVE SolverInv'
BY PassThroughKeeps, ChooseKeeps, FillRowKeeps, EndFillKeeps, TraceBackKeeps, EndTraceKeeps,
   TakeDensestKeeps, EndGreedyKeeps DEF Next

\* The solver's steps, which leave the search's part alone.
LEMMA SolveKeeps == ASSUME PrunerInv, Solve PROVE PrunerInv'
<1>1. Next /\ UNCHANGED <<gitVars, searchVars>> /\ SolverInv /\ SearchInv
  BY DEF Solve, PrunerInv
<1>2. /\ phase \notin {"inspect", "search"} /\ phase' \notin {"inspect", "search"}
      /\ items' = items
  BY <1>1 DEF Next, PassThrough, Choose, FillRow, EndFill, TraceBack, EndTrace, TakeDensest, EndGreedy, input
<1>3. SolverInv'
  BY <1>1, SolveKeepsSolver
<1>4. /\ SearchInv' /\ DOMAIN bundle' = DOMAIN bundle
      /\ \A i \in DOMAIN bundle : Scored(bundle[i])' = Scored(bundle[i])
  BY <1>1, <1>2, SearchFrame
<1>5. items' = [i \in DOMAIN bundle |-> Scored(bundle[i])]
  BY <1>2 DEF PrunerInv
<1>6. items' = [i \in DOMAIN bundle' |-> Scored(bundle[i])']
  BY <1>4, <1>5
<1>. QED
  BY <1>3, <1>4, <1>6 DEF PrunerInv

\* Steps that leave the solver's part alone keep its invariant.
LEMMA SolverFrame ==
  ASSUME SolverInv, UNCHANGED vars
  PROVE  SolverInv'
<1>1. UNCHANGED input /\ UNCHANGED <<phase, dp, bits, at, cap, selected>>
  BY DEF vars, input
<1>2. Picked' = Picked
  BY <1>1, Frame DEF Picked
<1>. QED
  BY <1>1, <1>2, Frame DEF SolverInv, Unsolved, Laid, Solved, Filling, Tracing, Packing, BitsTell, PassedOver,
     Exact, Over, input

\* The end of the search, and what the knapsack is given.
LEMMA ScoreItemsKeeps == ASSUME PrunerInv, ScoreItems PROVE PrunerInv'
<1>1. /\ SolverInv /\ SearchInv /\ Searching /\ phase = "search" /\ phase' = "start"
      /\ head > Len(queue) /\ UNCHANGED <<gitVars, searchVars>> /\ UNCHANGED <<maxTokens, at, bits>>
      /\ items' = [i \in DOMAIN bundle |-> Scored(bundle[i])] /\ bundle \in Bundles
  BY DEF ScoreItems, PrunerInv, SearchInv
<1>2. Measured
  <2>1. Len(queue) \in Nat /\ head - 1 = Len(queue)
    BY <1>1 DEF Searching
  <2>2. ASSUME NEW p \in DOMAIN distance PROVE Explored(p)
    BY <1>1, <2>1 DEF Searching
  <2>. QED
    BY <1>1, <2>2 DEF Searching, Measured
<1>3. items' \in Seq(Thing)
  BY <1>1, <1>2, ScoredType DEF Measured
<1>4. SolverInv'
  BY <1>1, <1>3 DEF SolverInv, Unsolved
<1>5. /\ bundle' = bundle /\ imports' = imports /\ distance' = distance /\ queue' = queue /\ head' = head
      /\ UNCHANGED gitVars /\ status' = status
  BY <1>1 DEF searchVars, gitVars
<1>6. GitInv' /\ Edited' = Edited /\ \A p : Neighbours(p)' = Neighbours(p)
  BY <1>1, <1>5, GraphFrame, GitFrame DEF SearchInv, Edited
<1>7. Measured'
  BY <1>2, <1>5, <1>6 DEF Measured, Reached, Explored
<1>8. \A p : GraphScore(p)' = GraphScore(p) /\ GitScore(p)' = GitScore(p)
  BY <1>5 DEF GraphScore, GitScore
<1>9. \A e : Scored(e)' = Scored(e)
  BY <1>8 DEF Score, Scored, LookedUp
<1>10. items' = [i \in DOMAIN bundle' |-> Scored(bundle[i])']
  BY <1>1, <1>5, <1>9
<1>. QED
  BY <1>1, <1>4, <1>5, <1>6, <1>7, <1>10 DEF PrunerInv, SearchInv

\* Every step of the stage keeps the invariant.
LEMMA StepKeeps == ASSUME PrunerInv, [TopologyNext]_topologyVars PROVE PrunerInv'
<1>1. SolverInv /\ SearchInv /\ GitInv /\ GitInv'
  BY StepKeepsGit DEF PrunerInv, SearchInv
<1>2. CASE AskGit \/ InspectAgain \/ TimePasses
  <2>1. phase = "inspect" /\ UNCHANGED <<vars, searchVars>> /\ phase' = phase
    BY <1>2 DEF AskGit, InspectAgain, TimePasses, vars
  <2>2. SolverInv'
    BY <1>1, <2>1, SolverFrame
  <2>. QED
    BY <1>1, <2>1, <2>2 DEF PrunerInv, SearchInv, searchVars
<1>3. CASE InspectGit
  <2>1. /\ phase = "inspect" /\ phase' = "search"
        /\ UNCHANGED <<items, maxTokens, at, bits>>
    BY <1>3 DEF InspectGit
  <2>2. SolverInv'
    BY <1>1, <2>1 DEF SolverInv, Unsolved
  <2>. QED
    BY <1>1, <1>3, <2>1, <2>2, InspectGitKeeps DEF PrunerInv
<1>4. CASE Visit
  <2>1. UNCHANGED vars /\ phase = "search" /\ phase' = "search"
    BY <1>4 DEF Visit, vars
  <2>2. SolverInv'
    BY <1>1, <2>1, SolverFrame
  <2>. QED
    BY <1>1, <1>4, <2>1, <2>2, VisitKeeps DEF PrunerInv
<1>5. CASE ScoreItems
  BY <1>5, ScoreItemsKeeps
<1>6. CASE Solve
  BY <1>6, SolveKeeps
<1>7. CASE UNCHANGED topologyVars
  <2>1. UNCHANGED vars /\ UNCHANGED <<gitVars, searchVars>> /\ phase' = phase /\ items' = items
    BY <1>7 DEF topologyVars, vars
  <2>2. SolverInv'
    BY <1>1, <2>1, SolverFrame
  <2>3. /\ SearchInv' /\ DOMAIN bundle' = DOMAIN bundle
        /\ \A i \in DOMAIN bundle : Scored(bundle[i])' = Scored(bundle[i])
    BY <1>1, <2>1, SearchFrame
  <2>. QED
    BY <2>1, <2>2, <2>3 DEF PrunerInv
<1>. QED
  BY <1>2, <1>3, <1>4, <1>5, <1>6, <1>7 DEF TopologyNext

\* So it holds in every state.
LEMMA PrunerInvariant == TopologySpec => []PrunerInv
<1>1. PrunerInv /\ [TopologyNext]_topologyVars => PrunerInv'
  BY StepKeeps
<1>. QED
  BY <1>1, InitHolds, PTL DEF TopologySpec

-----------------------------------------------------------------------------
(* What follows.                                                           *)

\* A choice that had to be made.
LEMMA ChoiceMade ==
  ASSUME PrunerInv, Selecting
  PROVE  /\ items \in Seq(Thing) /\ maxTokens \in Nat /\ Laid /\ Solved
         /\ Optimum = BestOf(Unpinned, residual) /\ Chosen = Picked
<1>1. items \in Seq(Thing) /\ maxTokens \in Nat /\ Laid /\ Solved
  BY DEF PrunerInv, SolverInv, Selecting, Unsolved, Over, Laid
<1>2. ToSet(candidates) = Unpinned /\ Chosen = Picked
  BY <1>1, CandidateFacts, PickedFacts DEF Laid
<1>. QED
  BY <1>1, <1>2 DEF Optimum, BestOf

\* The choice and what is pinned weigh no more than the ceiling allows.
LEMMA InvWithinBudget == ASSUME PrunerInv PROVE WithinBudget
<1>. SUFFICES ASSUME Selecting
              PROVE  Pinned \subseteq selected /\ Weight(selected) <= Max({maxTokens, Weight(Pinned)})
  BY DEF WithinBudget
<1>1. items \in Seq(Thing) /\ maxTokens \in Nat /\ Laid /\ Solved
  BY ChoiceMade
<1>2. /\ Weight(selected) = Weight(Pinned) + Weight(Picked)
      /\ Weight(Picked) \in Nat /\ Weight(Picked) <= residual
  BY <1>1, PickedFacts DEF Solved
<1>3. /\ residual = IF Weight(Pinned) <= maxTokens THEN maxTokens - Weight(Pinned) ELSE 0
      /\ Weight(Pinned) \in Nat
  BY <1>1, CapacityType DEF Laid
<1>4. Max({maxTokens, Weight(Pinned)}) = IF maxTokens >= Weight(Pinned) THEN maxTokens ELSE Weight(Pinned)
  BY <1>1, <1>3, MaxOfTwo
<1>5. Weight(selected) <= Max({maxTokens, Weight(Pinned)})
  BY <1>1, <1>2, <1>3, <1>4
<1>. QED
  BY <1>1, <1>5 DEF Laid

\* What is protected or holds a directive is pinned, so it stays.
LEMMA InvProtectedIsKept == ASSUME PrunerInv PROVE ProtectedIsKept
<1>. SUFFICES ASSUME phase = "done", NEW i \in DOMAIN bundle, bundle[i].directive \/ bundle[i].protected
              PROVE  i \in selected
  BY DEF ProtectedIsKept
<1>1. items = [j \in DOMAIN bundle |-> Scored(bundle[j])] /\ items \in Seq(Thing)
  BY DEF PrunerInv, SolverInv
<1>2. i \in All /\ items[i].keep
  BY <1>1, AllFinite DEF Scored
<1>3. i \in Pinned
  BY <1>2 DEF Pinned
<1>4. CASE Over
  BY <1>3, <1>4 DEF PrunerInv, SolverInv, Unsolved, Laid
<1>5. CASE ~Over
  BY <1>2, <1>5 DEF PrunerInv, SolverInv
<1>. QED
  BY <1>4, <1>5

\* Whatever the bundle, the graph and the working tree: what is pinned, holds a
\* directive or is protected stays, and the rest fits in what that leaves of the
\* budget.
THEOREM PrunerStaysLegal == TopologySpec => []ChoiceIsLegal
<1>1. PrunerInv => ChoiceIsLegal
  BY InvWithinBudget, InvProtectedIsKept DEF ChoiceIsLegal
<1>. QED
  BY <1>1, PrunerInvariant, PTL

\* The exact solver's table and the choice its bits lead back to are optimal, for
\* any items and any budget.
THEOREM ExactSolverIsOptimal == TopologySpec => []ExactIsOptimal
<1>1. PrunerInv => ExactIsOptimal
  BY ChoiceMade DEF ExactIsOptimal, Solved
<1>. QED
  BY <1>1, PrunerInvariant, PTL

\* The greedy solver's choice is worth at least half of the best one.
THEOREM GreedySolverIsHalf == TopologySpec => []GreedyIsHalf
<1>1. ASSUME PrunerInv PROVE GreedyIsHalf
  <2>. SUFFICES ASSUME Selecting, ~Exact(Len(candidates), residual), residual > 0
                PROVE  2 * Value(Chosen) >= Optimum
    BY DEF GreedyIsHalf
  <2>1. BestOf(Unpinned, residual) <= 2 * Value(Picked) /\ Optimum = BestOf(Unpinned, residual) /\ Chosen = Picked
    BY <1>1, ChoiceMade DEF Solved
  <2>2. BestOf(Unpinned, residual) \in Nat /\ Value(Picked) \in Nat
    BY <1>1, ChoiceMade, CapacityType, PickedFacts, BestIsBest DEF Laid
  <2>. QED
    BY <2>1, <2>2
<1>. QED
  BY <1>1, PrunerInvariant, PTL

-----------------------------------------------------------------------------
\* Alike in weight, the item kept scores no less; alike in kind, it is no further.
LEMMA InvNearerIsKept == ASSUME PrunerInv PROVE NearerIsKept
<1>. SUFFICES ASSUME Selecting, NEW i \in selected \ Pinned, NEW j \in All \ selected,
                     bundle[i].weight = bundle[j].weight, bundle[i].kind = bundle[j].kind,
                     LookedUp(bundle[i]) \notin status.recentCommitFiles \ status.allDirtyFiles
              PROVE  Grade(bundle[i]) <= Grade(bundle[j])
  BY DEF NearerIsKept
<1>1. /\ items \in Seq(Thing) /\ Laid /\ Solved /\ Pinned \subseteq selected /\ selected \subseteq All
      /\ items = [k \in DOMAIN bundle |-> Scored(bundle[k])] /\ Reached /\ DOMAIN bundle = All
  <2>1. items \in Seq(Thing) /\ Laid /\ Solved
    BY ChoiceMade
  <2>2. items = [k \in DOMAIN bundle |-> Scored(bundle[k])] /\ Reached
    BY DEF PrunerInv, SearchInv, Selecting, Measured
  <2>. QED
    BY <2>1, <2>2, AllFinite DEF Laid
<1>2. i \in Picked /\ i \in Unpinned /\ j \in Unpinned \ Picked /\ i \in All /\ j \in All
  BY <1>1 DEF Picked, Unpinned
<1>3. /\ items[i].weight = bundle[i].weight /\ items[i].value = Score(bundle[i])
      /\ items[j].weight = bundle[j].weight /\ items[j].value = Score(bundle[j])
      /\ items[i].keep = (bundle[i].protected \/ bundle[i].directive)
      /\ items[j].keep = (bundle[j].protected \/ bundle[j].directive)
  BY <1>1, <1>2 DEF Scored
<1>4. ~items[i].keep /\ ~items[j].keep
  BY <1>2 DEF Unpinned, Pinned
<1>5. ~bundle[i].directive /\ ~bundle[j].directive
  BY <1>3, <1>4
<1>6. Score(bundle[j]) <= Score(bundle[i])
  BY <1>1, <1>2, <1>3 DEF Solved, Preferred
<1>. DEFINE p == LookedUp(bundle[i])
            q == LookedUp(bundle[j])
            c == KindScore(bundle[i].kind)
<1>7. /\ Score(bundle[i]) = GraphScore(p) + GitScore(p) + c
      /\ Score(bundle[j]) = GraphScore(q) + GitScore(q) + c
      /\ GraphScore(p) \in Nat /\ GitScore(p) \in Nat /\ GraphScore(q) \in Nat /\ GitScore(q) \in Nat /\ c \in Nat
  BY <1>1, <1>5, ScoreShape
<1>8. p \notin status.recentCommitFiles \ status.allDirtyFiles
  OBVIOUS
<1>. DEFINE grade(x) == IF x \notin DOMAIN distance THEN 4
                        ELSE IF distance[x] >= 3 THEN 3 ELSE distance[x]
<1>9. Grade(bundle[i]) = grade(p) /\ Grade(bundle[j]) = grade(q)
  <2>1. ASSUME NEW e, LookedUp(e) \in DOMAIN distance
        PROVE  Min({3, distance[LookedUp(e)]}) = IF 3 <= distance[LookedUp(e)] THEN 3 ELSE distance[LookedUp(e)]
    <3>1. distance[LookedUp(e)] \in Nat
      BY <1>1, <2>1 DEF Reached
    <3>. QED
      BY <3>1, MinOfTwo
  <2>2. ASSUME NEW x \in DOMAIN distance PROVE distance[x] \in Nat
    BY <1>1 DEF Reached
  <2>. QED
    BY <2>1, <2>2 DEF Grade
<1>. HIDE DEF p, q, c
<1>10. GraphScore(q) + GitScore(q) <= GraphScore(p) + GitScore(p)
  BY <1>6, <1>7
<1>11. \A x \in DOMAIN distance : distance[x] \in Nat
  BY <1>1 DEF Reached
<1>12. CASE p \in Edited
  <2>1. p \in DOMAIN distance /\ distance[p] = 0
    BY <1>1, <1>12 DEF Reached
  <2>2. grade(p) <= grade(q)
    BY <1>11, <2>1
  <2>. QED
    BY <1>9, <2>2 DEF p, q
<1>13. CASE p \notin Edited
  <2>1. GitScore(p) = 0
    BY <1>8, <1>13 DEF GitScore, Edited
  <2>2. GraphScore(q) <= GraphScore(p)
    BY <1>7, <1>10, <2>1
  <2>3. /\ GraphScore(p) = IF p \notin DOMAIN distance THEN 5
                           ELSE IF distance[p] >= 3 THEN 10
                           ELSE IF distance[p] = 2 THEN 20
                           ELSE IF distance[p] = 1 THEN 30 ELSE 40
        /\ GraphScore(q) = IF q \notin DOMAIN distance THEN 5
                           ELSE IF distance[q] >= 3 THEN 10
                           ELSE IF distance[q] = 2 THEN 20
                           ELSE IF distance[q] = 1 THEN 30 ELSE 40
    BY <1>1, GraphScoreShape
  <2>4. grade(p) <= grade(q)
    <3>1. CASE p \notin DOMAIN distance
      BY <1>11, <2>2, <2>3, <3>1
    <3>2. CASE p \in DOMAIN distance
      BY <1>11, <2>2, <2>3, <3>2
    <3>. QED
      BY <3>1, <3>2
  <2>. QED
    BY <1>9, <2>4 DEF p, q
<1>. QED
  BY <1>12, <1>13

\* Of two items alike in weight and kind the one found nearer to an edited file, in
\* the graph as the items' paths are spelled, is never the one to go, whichever
\* solver ran.
THEOREM NearerIsNeverPruned == TopologySpec => []NearerIsKept
BY InvNearerIsKept, PrunerInvariant, PTL

-----------------------------------------------------------------------------
(* The distances are the shortest.                                         *)

\* The paths around those of a set, and the set itself.
Wider(S) == S \cup UNION {Neighbours(p) : p \in S}

\* What was reached within n imports.
Ball(n) == {p \in DOMAIN distance : distance[p] <= n}

\* When the search is over, what it reached within one more import is what lies
\* around what it reached.
LEMMA BallGrows ==
  ASSUME Measured, NEW n \in Nat
  PROVE  Ball(0) = Edited /\ Ball(n + 1) = Wider(Ball(n))
<1>1. /\ \A p \in DOMAIN distance : distance[p] \in Nat /\ Explored(p)
      /\ \A p \in Edited : p \in DOMAIN distance /\ distance[p] = 0
  BY DEF Measured, Reached
<1>2. ASSUME NEW p \in DOMAIN distance, distance[p] > 0 \/ p \notin Edited
      PROVE  \E q \in DOMAIN distance : p \in Neighbours(q) /\ distance[p] = distance[q] + 1
  BY <1>1, <1>2 DEF Measured, Reached
<1>3. Ball(0) = Edited
  <2>1. ASSUME NEW p \in Ball(0) PROVE p \in Edited
    <3>1. p \in DOMAIN distance /\ distance[p] = 0
      BY <1>1 DEF Ball
    <3>. QED
      BY <1>1, <1>2, <3>1
  <2>. QED
    BY <1>1, <2>1 DEF Ball
<1>4. ASSUME NEW p \in Ball(n + 1) PROVE p \in Wider(Ball(n))
  <2>1. p \in DOMAIN distance /\ distance[p] \in Nat /\ distance[p] <= n + 1
    BY <1>1 DEF Ball
  <2>2. CASE distance[p] <= n
    BY <2>1, <2>2 DEF Ball, Wider
  <2>3. CASE ~(distance[p] <= n)
    <3>1. PICK q \in DOMAIN distance : p \in Neighbours(q) /\ distance[p] = distance[q] + 1
      BY <1>2, <2>1, <2>3
    <3>2. q \in Ball(n)
      BY <1>1, <2>1, <3>1 DEF Ball
    <3>. QED
      BY <3>1, <3>2 DEF Wider
  <2>. QED
    BY <2>2, <2>3
<1>5. ASSUME NEW p \in Wider(Ball(n)) PROVE p \in Ball(n + 1)
  <2>1. CASE p \in Ball(n)
    BY <1>1, <2>1 DEF Ball
  <2>2. CASE p \notin Ball(n)
    <3>1. PICK q \in Ball(n) : p \in Neighbours(q)
      BY <2>2 DEF Wider
    <3>2. q \in DOMAIN distance /\ distance[q] \in Nat /\ distance[q] <= n
      BY <1>1 DEF Ball
    <3>3. p \in DOMAIN distance /\ distance[p] <= distance[q] + 1 /\ distance[p] \in Nat
      BY <1>1, <3>1, <3>2 DEF Explored
    <3>. QED
      BY <3>2, <3>3 DEF Ball
  <2>. QED
    BY <2>1, <2>2
<1>. QED
  BY <1>3, <1>4, <1>5

\* What the search reached within n imports satisfies the reference's recursion,
\* and only that does.
LEMMA InvShortestDistances == ASSUME PrunerInv PROVE ShortestDistances
<1>. DEFINE around == [p \in Paths |-> Neighbours(p)]
            C == Cardinality(Paths)
<1>. SUFFICES ASSUME phase = "start"
              PROVE  \A p \in Paths : \A n \in DOMAIN Within(around) :
                        p \in Within(around)[n] <=> p \in DOMAIN distance /\ distance[p] <= n
  BY DEF ShortestDistances
<1>. DEFINE Grown(g) == [n \in 0..C |-> IF n = 0 THEN Edited
                                        ELSE g[n - 1] \cup UNION {around[p] : p \in g[n - 1]}]
            f == [n \in 0..C |-> Ball(n)]
<1>1. Measured /\ Reached /\ C \in Nat
  <2>1. IsFiniteSet(Paths)
    BY PathsFinite
  <2>. QED
    BY <2>1, FS_CardinalityType DEF PrunerInv, SearchInv, Measured
<1>2. \A n \in Nat : Ball(n) \subseteq Paths
  BY <1>1 DEF Ball, Reached
<1>3. \A n \in Nat : Wider(Ball(n)) = Ball(n) \cup UNION {around[p] : p \in Ball(n)}
  BY <1>2 DEF Wider
<1>4. f = Grown(f)
  <2>1. ASSUME NEW n \in 0..C, n # 0
        PROVE  Ball(n) = f[n - 1] \cup UNION {around[p] : p \in f[n - 1]}
    <3>1. n - 1 \in Nat /\ (n - 1) + 1 = n /\ n - 1 \in 0..C
      BY <1>1, <2>1
    <3>2. Ball((n - 1) + 1) = Wider(Ball(n - 1))
      BY <1>1, <3>1, BallGrows
    <3>3. f[n - 1] = Ball(n - 1)
      BY <3>1
    <3>. HIDE DEF f, around
    <3>. QED
      BY <1>3, <3>1, <3>2, <3>3
  <2>2. Ball(0) = Edited
    BY <1>1, BallGrows
  <2>. HIDE DEF around
  <2>. QED
    BY <2>1, <2>2
<1>5. Within(around) = CHOOSE g : g = Grown(g)
  BY DEF Within, Edited
<1>6. Within(around) = Grown(Within(around))
  <2>. HIDE DEF Grown, f
  <2>. QED
    BY <1>4, <1>5
<1>. DEFINE g == Within(around)
            T == {n \in Nat : n \in 0..C => g[n] = Ball(n)}
<1>7. /\ DOMAIN g = 0..C /\ g[0] = Edited
      /\ \A n \in 1..C : g[n] = g[n - 1] \cup UNION {around[p] : p \in g[n - 1]}
  <2>1. g = [n \in 0..C |-> IF n = 0 THEN Edited ELSE g[n - 1] \cup UNION {around[p] : p \in g[n - 1]}]
    BY <1>6
  <2>. HIDE DEF g, around
  <2>2. 0 \in 0..C /\ \A n \in 1..C : n \in 0..C /\ n # 0
    BY <1>1
  <2>3. DOMAIN g = 0..C /\ g[0] = Edited
    BY <2>1, <2>2, Zenon
  <2>4. ASSUME NEW n \in 1..C PROVE g[n] = g[n - 1] \cup UNION {around[p] : p \in g[n - 1]}
    BY <2>1, <2>2, Zenon
  <2>. QED
    BY <2>3, <2>4
<1>. HIDE DEF g, around, C
<1>8. 0 \in T
  BY <1>1, <1>7, BallGrows
<1>9. ASSUME NEW n \in Nat, n \in T PROVE n + 1 \in T
  <2>. SUFFICES ASSUME n + 1 \in 0..C PROVE g[n + 1] = Ball(n + 1)
    OBVIOUS
  <2>1. n \in 0..C /\ n + 1 \in 1..C /\ (n + 1) - 1 = n
    BY <1>1
  <2>2. g[n] = Ball(n)
    BY <1>9, <2>1
  <2>3. g[n + 1] = g[n] \cup UNION {around[p] : p \in g[n]}
    BY <1>7, <2>1
  <2>. QED
    BY <1>1, <1>3, <2>2, <2>3, BallGrows
<1>10. \A n \in 0..C : g[n] = Ball(n)
  <2>1. ASSUME NEW n \in Nat PROVE n \in T
    <3>. HIDE DEF T
    <3>. QED
      BY <1>8, <1>9, NatInductionBySet
  <2>. QED
    BY <1>1, <2>1
<1>. QED
  BY <1>7, <1>10 DEF g, Ball

\* One search from all the paths git named finds every path connected to one of them
\* in the graph, and how far it is from the nearest, for any imports and any spelling.
THEOREM SearchFindsShortest == TopologySpec => []ShortestDistances
BY InvShortestDistances, PrunerInvariant, PTL
=============================================================================

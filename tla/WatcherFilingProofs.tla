------------------------- MODULE WatcherFilingProofs -------------------------
(***************************************************************************)
(* What the watcher asks for is justified: a task is filed only for a      *)
(* repository in scope that was behind and whose owner had consented, and  *)
(* the consent question is put only to the owner of one that would get a   *)
(* task but for the answer.                                                *)
(*                                                                         *)
(* The cycle reads HEAD, go.mod and the consent at three different times.  *)
(* What makes the verdict right all the same is that commits do not change *)
(* and HEAD only moves on: each read sees the commit the one before it saw *)
(* or a later one.                                                         *)
(*                                                                         *)
(* The other way round, a repository is passed over only for a reason, and *)
(* the cursor file, which holds most of the reasons, names nothing that    *)
(* did not happen.                                                         *)
(***************************************************************************)
EXTENDS WatcherCompletionProofs

\* Commit j of r is not before h, and declares g.
Declares(r, h, g, j) == j \in h..HeadOf(r) /\ commits[r][j].goMod = g

\* Some commit of r from h on declares g.
GoModSeen(r, h, g) == \E j \in SHA : Declares(r, h, g, j)

\* Some commit of r from h on declares g, and it or a later one holds consent c.
ConsentSeen(r, h, g, c) ==
  \E j \in SHA : /\ Declares(r, h, g, j)
                 /\ \E k \in j..HeadOf(r) : commits[r][k].consent = c

\* The steps at which the candidate's consent has been read.
ConsentRead == pc \in {"open_update_pr", "decide"}

\* The candidate is what the repository has been through since its HEAD was read.
GatheredInv ==
  /\ latestGo <= latest
  /\ GoModRead => GoModSeen(Current, cand.headSHA, cand.goMod)
  /\ ConsentRead =>
       /\ ConsentSeen(Current, cand.headSHA, cand.goMod, cand.consent)
       /\ cand.consent # "malformed"

\* The commits of a default branch stay what they are.
LEMMA CommitsStay ==
  ASSUME TypeInv, [Next]_vars, NEW r \in Repo, NEW j \in 1..HeadOf(r)
  PROVE  commits'[r][j] = commits[r][j]
<1>1. CASE UNCHANGED commits
  BY <1>1
<1>2. ASSUME NEW q \in Repo, NEW c \in Commit, AddCommit(q, c)
      PROVE  commits'[r][j] = commits[r][j]
  <2>1. commits \in [Repo -> Seq(Commit)] /\ commits[r] \in Seq(Commit)
    BY DEF TypeInv, TypeOK, WorldTypeOK
  <2>2. commits'[r] = IF r = q THEN Append(commits[r], c) ELSE commits[r]
    BY <1>2, <2>1 DEF AddCommit
  <2> QED BY <2>1, <2>2 DEF HeadOf
<1> QED BY <1>1, <1>2, OneCommit

\* A release that has appeared stays, and newer ones only come.
LEMMA LatestMoves ==
  ASSUME TypeInv, TypeInv', [Next]_vars
  PROVE  latest \in Nat /\ latest' \in Nat /\ latest <= latest'
<1>1. latest \in Nat /\ latest' \in Nat
  BY WorldAssumption DEF TypeInv, TypeOK, WorldTypeOK, Version
<1>2. CASE Environment
  BY <1>1, <1>2, WorldStepType DEF Environment, TypeInv, TypeOK
<1>3. CASE (\E f \in BOOLEAN : LoadCursor(f)) \/ Progress \/ Failure
  BY <1>1, <1>3, CycleStepWorld
<1>4. CASE UNCHANGED vars
  BY <1>1, <1>4 DEF vars, worldVars
<1> QED BY <1>1, <1>2, <1>3, <1>4 DEF Next

\* What has been seen of a branch stays seen.
LEMMA SeenStays ==
  ASSUME TypeInv, [Next]_vars, NEW r \in Repo, NEW h \in SHA, NEW g, NEW c
  PROVE  /\ GoModSeen(r, h, g) => GoModSeen(r, h, g)'
         /\ ConsentSeen(r, h, g, c) => ConsentSeen(r, h, g, c)'
<1>1. HeadOf(r) \in Nat /\ HeadOf(r)' \in Nat /\ HeadOf(r) <= HeadOf(r)'
  BY HeadMoves
<1>2. SHA \subseteq Nat \ {0}
  BY WorldAssumption DEF SHA
<1>3. ASSUME NEW j \in SHA, Declares(r, h, g, j)
      PROVE  Declares(r, h, g, j)'
  <2>1. j \in h..HeadOf(r) /\ j \in 1..HeadOf(r) /\ j \in h..HeadOf(r)'
    BY <1>1, <1>2, <1>3 DEF Declares
  <2> QED BY <1>3, <2>1, CommitsStay DEF Declares
<1>4. ASSUME NEW j \in SHA, NEW k \in j..HeadOf(r), commits[r][k].consent = c
      PROVE  k \in j..HeadOf(r)' /\ commits'[r][k].consent = c
  <2>1. k \in 1..HeadOf(r) /\ k \in j..HeadOf(r)'
    BY <1>1, <1>2
  <2> QED BY <1>4, <2>1, CommitsStay
<1>5. GoModSeen(r, h, g) => GoModSeen(r, h, g)'
  BY <1>3 DEF GoModSeen
<1>6. ConsentSeen(r, h, g, c) => ConsentSeen(r, h, g, c)'
  BY <1>3, <1>4 DEF ConsentSeen
<1> QED BY <1>5, <1>6

\* What has been observed of a repository stays observed, of every later
\* release as well, and from every earlier commit on.
LEMMA ObservedStays ==
  ASSUME TypeInv, [Next]_vars, NEW r \in Repo, NEW h \in SHA, NEW c,
         NEW v \in Nat, NEW w \in Nat, v <= w, NEW l \in SHA, l <= h,
         Observed(r, h, v, c)
  PROVE  Observed(r, l, w, c)'
<1>1. HeadOf(r) \in Nat /\ HeadOf(r)' \in Nat /\ HeadOf(r) <= HeadOf(r)'
  BY HeadMoves
<1>2. SHA \subseteq Nat \ {0} /\ Version \subseteq Nat
  BY WorldAssumption DEF SHA, Version
<1>3. PICK j \in h..HeadOf(r) :
        /\ Behind(commits[r][j].goMod, v)
        /\ \E k \in j..HeadOf(r) : commits[r][k].consent = c
  BY DEF Observed
<1>4. PICK k \in j..HeadOf(r) : commits[r][k].consent = c
  BY <1>3
<1>5. j \in 1..HeadOf(r) /\ j \in l..HeadOf(r)' /\ k \in 1..HeadOf(r) /\ k \in j..HeadOf(r)'
  BY <1>1, <1>2
<1>6. commits'[r][j] = commits[r][j] /\ commits'[r][k] = commits[r][k]
  BY <1>5, CommitsStay
<1>7. Behind(commits'[r][j].goMod, w)
  <2>1. commits[r][j].goMod \in Version /\ commits[r][j].goMod < v
    BY <1>3 DEF Behind
  <2>2. commits[r][j].goMod \in Nat
    BY <1>2, <2>1
  <2>3. commits[r][j].goMod < w
    BY <2>1, <2>2
  <2> QED BY <1>6, <2>1, <2>3 DEF Behind
<1> QED BY <1>4, <1>5, <1>6, <1>7 DEF Observed

-----------------------------------------------------------------------------
(* What the cycle has read *)

\* The cycle's target is a release that has appeared.
LEMMA TargetSteps ==
  ASSUME TypeInv, [Next]_vars
  PROVE  latestGo' \in {latestGo, latest, None}
<1>1. CASE UNCHANGED vars \/ Environment
  BY <1>1 DEF vars, Environment, cycleVars
<1>2. CASE \E f \in BOOLEAN : LoadCursor(f)
  BY <1>2 DEF LoadCursor
<1>3. CASE Progress
  BY <1>3 DEF Progress, LatestStable, ListRepos, GetHeadSHA, GetGoMod, GetMaintainerConfig,
     OpenUpdatePRGate, SuppressInFlight, SkipRepo, PublishCreate, SkipCompleted, NotMerged,
     CompleteTask, SaveCursor, NextRepo, NextMerged, GoTo, IdleCycle
<1>4. CASE Failure
  BY <1>4 DEF Failure, AbortEarly, DropRepo, RateLimited, PublishFails, CompleteFails,
     MergedCallFails, MergedRateLimited, Cancelled, SaveFails, Crash, LoseCursor, NextRepo,
     NextMerged, GoTo, IdleCycle, cycleVars
<1> QED BY <1>1, <1>2, <1>3, <1>4 DEF Next

\* How a cycle comes to, or stays at, a step after the read of the consent.
LEMMA ConsentReadSteps ==
  ASSUME TypeInv, [Next]_vars, ConsentRead'
  PROVE  \/ GetMaintainerConfig /\ HeadCommit(Current).consent # "malformed"
         \/ ConsentRead /\ UNCHANGED <<latestGo, listing, i, cand>>
<1> USE DEF ConsentRead
<1>1. CASE UNCHANGED vars \/ Environment
  BY <1>1 DEF vars, Environment, cycleVars
<1>2. CASE \E f \in BOOLEAN : LoadCursor(f)
  BY <1>2 DEF LoadCursor
<1>3. CASE GetMaintainerConfig
  BY <1>3 DEF GetMaintainerConfig, NextRepo
<1>4. CASE OpenUpdatePRGate
  BY <1>4 DEF OpenUpdatePRGate, NextRepo, GoTo
<1>5. CASE LatestStable \/ ListRepos \/ GetHeadSHA \/ GetGoMod \/ SuppressInFlight
           \/ SkipRepo \/ PublishCreate \/ SkipCompleted \/ NotMerged \/ SaveCursor
           \/ (\E r \in Repo : CompleteTask(r))
  BY <1>5 DEF LatestStable, ListRepos, GetHeadSHA, GetGoMod, SuppressInFlight, SkipRepo,
     PublishCreate, SkipCompleted, NotMerged, CompleteTask, SaveCursor, NextRepo, NextMerged,
     GoTo, IdleCycle
<1>6. CASE Failure
  BY <1>6 DEF Failure, AbortEarly, DropRepo, RateLimited, PublishFails, CompleteFails,
     MergedCallFails, MergedRateLimited, Cancelled, SaveFails, Crash, LoseCursor, NextRepo,
     NextMerged, GoTo, IdleCycle, cycleVars
<1> QED BY <1>1, <1>2, <1>3, <1>4, <1>5, <1>6 DEF Next, Progress

\* The reads of a cycle come in order, each of a commit that was HEAD then.
LEMMA GatheredStep ==
  ASSUME TypeInv, TypeInv', CompletionInv, GatheredInv, [Next]_vars
  PROVE  GatheredInv'
<1>1. latestGo' <= latest'
  <2>1. latestGo \in Nat
    BY WorldAssumption DEF TypeInv, TypeOK, CycleTypeOK, Version, None
  <2> QED BY <2>1, LatestMoves, TargetSteps DEF GatheredInv, None
<1>2. ASSUME GoModRead'
      PROVE  GoModSeen(Current, cand.headSHA, cand.goMod)'
  <2>1. CASE GetGoMod
    <3>1. /\ Current \in Repo /\ Current' = Current /\ commits' = commits
          /\ cand.headSHA \in SHA /\ cand'.headSHA = cand.headSHA
          /\ cand'.goMod = commits[Current][HeadOf(Current)].goMod
      BY <2>1, CurrentType DEF GetGoMod, GoTo, Current, TypeInv, TypeOK, CycleTypeOK,
         ControlInv, Candidate, AtRepo, worldVars, github, HeadCommit
    <3>2. HeadOf(Current) \in SHA /\ HeadOf(Current)' = HeadOf(Current)
      BY <3>1 DEF TypeInv, TypeOK, WorldTypeOK, HeadOf
    <3>3. HeadOf(Current) \in cand.headSHA..HeadOf(Current)
      BY <2>1, <3>1, <3>2, WorldAssumption
         DEF GetGoMod, CompletionInv, CandidateOrdered, HeadRead, SHA
    <3> QED BY <3>1, <3>2, <3>3 DEF GoModSeen, Declares
  <2>2. CASE /\ GoModRead
             /\ UNCHANGED <<latestGo, listing, i>>
             /\ cand'.goMod = cand.goMod /\ cand'.headSHA = cand.headSHA
    <3>1. Current \in Repo /\ Current' = Current /\ cand.headSHA \in SHA
      BY <2>2, CurrentType DEF GoModRead, Current, TypeInv, TypeOK, ControlInv, AtRepo
    <3>2. PICK r \in Repo, h \in SHA, g \in GoMod :
            r = Current /\ h = cand.headSHA /\ g = cand.goMod
      BY <3>1 DEF TypeInv, TypeOK, CycleTypeOK, Candidate
    <3>3. GoModSeen(r, h, g)
      BY <2>2, <3>2 DEF GatheredInv
    <3>4. GoModSeen(r, h, g)'
      BY <3>3, SeenStays
    <3>5. r = Current' /\ h = cand'.headSHA /\ g = cand'.goMod
      BY <2>2, <3>1, <3>2
    <3> QED BY <3>4, <3>5 DEF GoModSeen, Declares
  <2> QED BY <1>2, <2>1, <2>2, GoModReadSteps
<1>3. ASSUME ConsentRead'
      PROVE  /\ ConsentSeen(Current, cand.headSHA, cand.goMod, cand.consent)'
             /\ cand'.consent # "malformed"
  <2>1. CASE GetMaintainerConfig /\ HeadCommit(Current).consent # "malformed"
    <3>1. /\ Current' = Current /\ commits' = commits /\ cand'.headSHA = cand.headSHA
          /\ cand'.goMod = cand.goMod
          /\ cand'.consent = commits[Current][HeadOf(Current)].consent
          /\ cand'.consent # "malformed"
      BY <2>1 DEF GetMaintainerConfig, GoTo, Current, TypeInv, TypeOK, CycleTypeOK,
         Candidate, worldVars, github, HeadCommit
    <3>2. Current \in Repo /\ GoModSeen(Current, cand.headSHA, cand.goMod)
      BY <2>1, CurrentType
         DEF GetMaintainerConfig, GatheredInv, GoModRead, TypeInv, TypeOK, AtRepo
    <3>3. PICK j \in SHA : Declares(Current, cand.headSHA, cand.goMod, j)
      BY <3>2 DEF GoModSeen
    <3>4. HeadOf(Current) \in SHA /\ cand.headSHA \in SHA
      BY <2>1, <3>2 DEF GetMaintainerConfig, TypeInv, TypeOK, WorldTypeOK, ControlInv
    <3>5. HeadOf(Current) \in j..HeadOf(Current)
      BY <3>3, <3>4, WorldAssumption DEF Declares, SHA
    <3>6. HeadOf(Current)' = HeadOf(Current)
      BY <3>1 DEF HeadOf
    <3>7. Declares(Current, cand.headSHA, cand.goMod, j)'
      BY <3>1, <3>3, <3>6 DEF Declares
    <3> QED BY <3>1, <3>5, <3>6, <3>7 DEF ConsentSeen
  <2>2. CASE ConsentRead /\ UNCHANGED <<latestGo, listing, i, cand>>
    <3>1. Current \in Repo /\ Current' = Current /\ cand.headSHA \in SHA
      BY <2>2, CurrentType DEF ConsentRead, Current, TypeInv, TypeOK, ControlInv, AtRepo
    <3>2. PICK r \in Repo, h \in SHA, g \in GoMod, c \in Consent :
            r = Current /\ h = cand.headSHA /\ g = cand.goMod /\ c = cand.consent
      BY <3>1 DEF TypeInv, TypeOK, CycleTypeOK, Candidate
    <3>3. ConsentSeen(r, h, g, c) /\ c # "malformed"
      BY <2>2, <3>2 DEF GatheredInv
    <3>4. ConsentSeen(r, h, g, c)'
      BY <3>3, SeenStays
    <3>5. r = Current' /\ h = cand'.headSHA /\ g = cand'.goMod /\ c = cand'.consent
      BY <2>2, <3>1, <3>2
    <3> QED BY <3>3, <3>4, <3>5 DEF ConsentSeen, Declares
  <2> QED BY <1>3, <2>1, <2>2, ConsentReadSteps
<1> QED BY <1>1, <1>2, <1>3 DEF GatheredInv, GoModRead, ConsentRead

-----------------------------------------------------------------------------
(* The verdict *)

\* What the candidate shows was so at its HEAD or since.
LEMMA CandidateObserved ==
  ASSUME TypeInv, GatheredInv, pc = "decide", GoBehind
  PROVE  /\ Current \in Repo /\ cand.headSHA \in SHA
         /\ latestGo \in Nat /\ latest \in Nat /\ latestGo <= latest
         /\ Observed(Current, cand.headSHA, latestGo, cand.consent)
<1>1. Current \in Repo /\ cand.headSHA \in SHA /\ latestGo <= latest
  BY CurrentType DEF TypeInv, TypeOK, AtRepo, ControlInv, GatheredInv
<1>2. latestGo \in Nat /\ latest \in Nat
  BY WorldAssumption DEF TypeInv, TypeOK, CycleTypeOK, WorldTypeOK, Version, None
<1>3. ConsentSeen(Current, cand.headSHA, cand.goMod, cand.consent)
  BY DEF GatheredInv, ConsentRead
<1>4. Observed(Current, cand.headSHA, latestGo, cand.consent)
  BY <1>3 DEF ConsentSeen, Declares, Observed, GoBehind
<1> QED BY <1>1, <1>2, <1>4

\* What a candidate skipped for the missing answer is known to be.
LEMMA UndecidedMeans ==
  ASSUME NEW r, SkipReason(r) = "auto_update_undecided"
  PROVE  /\ Allowed(r)
         /\ GoBehind
         /\ cand.consent \notin {"granted", "refused"}
<1>1. StaticFilters(Allowlist, FilterCandidate(r)) = "auto_update_undecided"
  <2>1. SHAUnchangedFilter(mem[r].lastSeenHeadSHA, mem[r].lastSeenGoVersion, None,
                           FilterCandidate(r)) # "auto_update_undecided"
    BY DEF SHAUnchangedFilter, Pass
  <2> QED BY <2>1, Zenon DEF SkipReason, CycleFilter, Then, Pass
<1>2. /\ RepoAllowlistFilter(Allowlist, FilterCandidate(r)) = Pass
      /\ GoBehindFilter(FilterCandidate(r)) = Pass
      /\ AutoUpdateFilter(FilterCandidate(r)) = "auto_update_undecided"
  BY <1>1 DEF StaticFilters, Then, RepoAllowlistFilter, GoModPresentFilter,
     GoModParsableFilter, GoBehindFilter, Pass
<1>3. Allowed(r)
  BY <1>2 DEF RepoAllowlistFilter, FilterCandidate, Pass, Allowed
<1>4. GoBehind
  BY <1>2 DEF GoBehindFilter, FilterCandidate, Pass
<1>5. cand.consent \notin {"granted", "refused"}
  BY <1>2 DEF AutoUpdateFilter, FilterCandidate, Pass
<1> QED BY <1>3, <1>4, <1>5

\* How a decision task comes to be.
LEMMA NewDecision ==
  ASSUME TypeInv, [Next]_vars, NEW r \in decisions' \ decisions
  PROVE  pc = "decide" /\ r = Current /\ SkipReason(r) = "auto_update_undecided"
<1>1. CASE UNCHANGED vars \/ Environment
  BY <1>1, WorldStepType DEF vars, worldVars, controller, Environment, TypeInv, TypeOK
<1>2. CASE \E f \in BOOLEAN : LoadCursor(f)
  BY <1>2 DEF LoadCursor, worldVars, controller
<1>3. CASE SkipRepo
  BY <1>3 DEF SkipRepo
<1>4. CASE Progress /\ ~SkipRepo
  BY <1>4 DEF Progress, LatestStable, ListRepos, GetHeadSHA, GetGoMod, GetMaintainerConfig,
     OpenUpdatePRGate, SuppressInFlight, PublishCreate, SkipCompleted, NotMerged,
     CompleteTask, SaveCursor, worldVars, controller
<1>5. CASE Failure
  BY <1>5 DEF Failure, AbortEarly, DropRepo, RateLimited, PublishFails, CompleteFails,
     MergedCallFails, MergedRateLimited, Cancelled, SaveFails, Crash, LoseCursor,
     worldVars, controller
<1> QED BY <1>1, <1>2, <1>3, <1>4, <1>5 DEF Next

-----------------------------------------------------------------------------

\* The invariant under which both verdicts are justified.
JustifiedInv == TypeInv /\ CompletionInv /\ GatheredInv

\* The invariant holds when the watcher starts.
LEMMA JustifiedInit == Init => JustifiedInv
<1>1. Init => GatheredInv
  <2> SUFFICES ASSUME Init PROVE GatheredInv
    OBVIOUS
  <2>1. pc = "idle" /\ latestGo = 0 /\ latest \in Nat
    BY WorldAssumption DEF Init, WorldInit, None
  <2> QED BY <2>1 DEF GatheredInv, GoModRead, ConsentRead
<1> QED BY <1>1, TypeInit, CompletionInit DEF JustifiedInv

\* The invariant is kept by every step.
LEMMA JustifiedStep == JustifiedInv /\ [Next]_vars => JustifiedInv'
<1> SUFFICES ASSUME JustifiedInv, [Next]_vars PROVE JustifiedInv'
  OBVIOUS
<1>1. TypeInv'
  BY TypeStep DEF JustifiedInv
<1> QED BY <1>1, CompletionStep, GatheredStep DEF JustifiedInv

\* Every task filed is for a repository in scope, for a release that had
\* appeared, and for a repository that was behind it and consented.
THEOREM FilingsJustified == Spec => []FiledJustified
<1>1. Init => FiledJustified
  BY DEF Init, WorldInit, FiledJustified
<1>2. JustifiedInv /\ FiledJustified /\ [Next]_vars => FiledJustified'
  <2>1. SUFFICES ASSUME JustifiedInv, FiledJustified, [Next]_vars, NEW t \in filed'
                 PROVE  /\ Allowed(t.repo)
                        /\ t.go <= latest'
                        /\ Observed(t.repo, t.sha, t.go, "granted")'
    BY DEF FiledJustified
  <2>2. TypeInv /\ TypeInv'
    BY <2>1, JustifiedStep DEF JustifiedInv
  <2>3. t \in Task
    BY <2>1, <2>2 DEF TypeInv, TypeOK, WorldTypeOK
  <2>4. t.repo \in Repo /\ t.go \in Nat /\ t.sha \in SHA /\ t.sha \in Nat
    BY <2>3, WorldAssumption DEF Task, Version, SHA
  <2>5. /\ Allowed(t.repo)
        /\ t.go <= latest
        /\ Observed(t.repo, t.sha, t.go, "granted")
    <3>1. CASE t \in filed
      BY <2>1, <3>1 DEF FiledJustified
    <3>2. CASE t \notin filed
      <4>1. pc = "decide" /\ t = CurrentTask /\ SkipReason(Current) = Pass
        BY <2>1, <2>2, <3>2, NewTask
      <4>2. Allowed(Current) /\ GoBehind /\ cand.consent = "granted"
        BY <4>1, PassMeans
      <4>3. t.repo = Current /\ t.go = latestGo /\ t.sha = cand.headSHA
        BY <4>1 DEF CurrentTask
      <4> QED BY <2>1, <4>1, <4>2, <4>3, CandidateObserved DEF JustifiedInv
    <3> QED BY <3>1, <3>2
  <2>6. Observed(t.repo, t.sha, t.go, "granted")'
    BY <2>1, <2>2, <2>4, <2>5, ObservedStays
  <2>7. t.go <= latest'
    BY <2>1, <2>2, <2>4, <2>5, LatestMoves
  <2> QED BY <2>5, <2>6, <2>7
<1> QED BY <1>1, <1>2, JustifiedInit, JustifiedStep, PTL DEF Spec

\* The owner asked for consent is one whose repository is in scope, has been
\* behind, and has not answered.
THEOREM DecisionsJustified == Spec => []DecisionJustified
<1>1. Init => DecisionJustified
  BY DEF Init, WorldInit, DecisionJustified
<1>2. JustifiedInv /\ DecisionJustified /\ [Next]_vars => DecisionJustified'
  <2>1. SUFFICES ASSUME JustifiedInv, DecisionJustified, [Next]_vars, NEW r \in decisions'
                 PROVE  Allowed(r) /\ Observed(r, 1, latest, "undecided")'
    BY DEF DecisionJustified
  <2>2. TypeInv /\ TypeInv'
    BY <2>1, JustifiedStep DEF JustifiedInv
  <2>3. r \in Repo
    BY <2>1, <2>2 DEF TypeInv, TypeOK, WorldTypeOK
  <2>4. latest \in Nat /\ latest' \in Nat /\ latest <= latest'
    BY <2>1, <2>2, LatestMoves
  <2>5. 1 \in SHA /\ SHA \subseteq Nat \ {0}
    BY WorldAssumption DEF SHA
  <2>6. PICK v \in Nat : v = latest
    BY <2>4
  <2>7. PICK w \in Nat : w = latest'
    BY <2>4
  <2>8. Allowed(r) /\ Observed(r, 1, w, "undecided")'
    <3>1. CASE r \in decisions
      <4>1. Allowed(r) /\ Observed(r, 1, v, "undecided")
        BY <2>1, <2>6, <3>1 DEF DecisionJustified
      <4> QED BY <2>1, <2>2, <2>3, <2>4, <2>5, <2>6, <2>7, <4>1, ObservedStays
    <3>2. CASE r \notin decisions
      <4>1. pc = "decide" /\ r = Current /\ SkipReason(r) = "auto_update_undecided"
        BY <2>1, <2>2, <3>2, NewDecision
      <4>2. Allowed(r) /\ GoBehind /\ cand.consent \notin {"granted", "refused"}
        BY <4>1, UndecidedMeans
      <4>3. cand.consent = "undecided"
        BY <2>1, <2>2, <4>1, <4>2 DEF JustifiedInv, GatheredInv, ConsentRead, TypeInv,
           TypeOK, CycleTypeOK, Candidate, Consent
      <4>4. PICK h \in SHA, u \in Nat : h = cand.headSHA /\ u = latestGo /\ u <= v
        BY <2>1, <2>2, <2>6, <4>1, <4>2, CandidateObserved DEF JustifiedInv
      <4>5. Observed(r, h, u, "undecided")
        BY <2>1, <4>1, <4>2, <4>3, <4>4, CandidateObserved DEF JustifiedInv
      <4>6. 1 <= h /\ u <= w
        BY <2>4, <2>5, <2>6, <2>7, <4>4
      <4> QED BY <2>1, <2>2, <2>3, <2>5, <4>2, <4>5, <4>6, ObservedStays
    <3> QED BY <3>1, <3>2
  <2> QED BY <2>7, <2>8 DEF Observed
<1> QED BY <1>1, <1>2, JustifiedInit, JustifiedStep, PTL DEF Spec

-----------------------------------------------------------------------------
(* What the cursor says *)

\* The marker of an entry of r names a task completed, and its claim is the
\* one it was made with: that of the task it names, and no newer than the
\* last create command sent for r.
EntryTrue(r, s) ==
  /\ s.completedHeadSHA # None =>
       \E t \in completed : t.repo = r /\ t.sha = s.completedHeadSHA
  /\ s.inFlightTarget # None =>
       /\ s.lastSeenHeadSHA # None
       /\ s.inFlightTarget = s.lastSeenGoVersion
       /\ \/ s.inFlightTarget < emitted[r].go
          \/ /\ s.inFlightTarget = emitted[r].go
             /\ s.inFlightSince <= emitted[r].at

\* The cycle has its target.
HasTarget == pc \notin {"idle", "latest_stable"}

\* Create commands were sent for releases that had appeared, and none for a
\* newer one than the cycle's own.
EmissionInv ==
  \A r \in Repo : /\ emitted[r].at <= now
                  /\ emitted[r].go <= latest
                  /\ HasTarget => emitted[r].go <= latestGo

EntriesTrue == \A r \in Repo : EntryTrue(r, disk[r]) /\ EntryTrue(r, mem[r])

TruthInv == JustifiedInv /\ EmissionInv /\ EntriesTrue

\* The numbers of an emission.
LEMMA EmissionType ==
  ASSUME TypeInv, NEW r \in Repo
  PROVE  /\ emitted[r].go \in Nat /\ emitted[r].at \in Nat
         /\ now \in Nat /\ latest \in Nat /\ latestGo \in Nat
  BY WorldAssumption DEF TypeInv, TypeOK, HistoryTypeOK, WorldTypeOK, CycleTypeOK, Version, None

\* A cycle keeps the target it started with.
LEMMA TargetKept ==
  ASSUME TypeInv, [Next]_vars, HasTarget'
  PROVE  LatestStable \/ (HasTarget /\ latestGo' = latestGo)
<1> USE DEF HasTarget
<1>1. CASE UNCHANGED vars \/ Environment
  BY <1>1 DEF vars, Environment, cycleVars
<1>2. CASE \E f \in BOOLEAN : LoadCursor(f)
  BY <1>2 DEF LoadCursor
<1>3. CASE Progress
  BY <1>3 DEF Progress, ListRepos, GetHeadSHA, GetGoMod, GetMaintainerConfig,
     OpenUpdatePRGate, SuppressInFlight, SkipRepo, PublishCreate, SkipCompleted, NotMerged,
     CompleteTask, SaveCursor, NextRepo, NextMerged, GoTo, IdleCycle
<1>4. CASE Failure
  BY <1>4 DEF Failure, AbortEarly, DropRepo, RateLimited, PublishFails, CompleteFails,
     MergedCallFails, MergedRateLimited, Cancelled, SaveFails, Crash, LoseCursor, NextRepo,
     NextMerged, GoTo, IdleCycle, cycleVars
<1> QED BY <1>1, <1>2, <1>3, <1>4 DEF Next

\* How a step changes the emission of r.
LEMMA EmissionSteps ==
  ASSUME TypeInv, [Next]_vars, NEW r \in Repo
  PROVE  \/ emitted'[r] = emitted[r]
         \/ /\ pc = "decide" /\ r = Current
            /\ emitted'[r] = [go |-> latestGo, at |-> now]
<1>1. CASE ~Emitting
  BY <1>1, EvidenceGrows
<1>2. CASE Emitting
  BY <1>2, EmissionEvidence
<1> QED BY <1>1, <1>2

\* Emissions stay in the past, of releases that had appeared.
LEMMA EmissionStep ==
  ASSUME TruthInv, TypeInv', [Next]_vars
  PROVE  EmissionInv'
<1>1. TypeInv /\ GatheredInv /\ EmissionInv
  BY DEF TruthInv, JustifiedInv
<1>2. SUFFICES ASSUME NEW r \in Repo
               PROVE  /\ emitted'[r].at <= now'
                      /\ emitted'[r].go <= latest'
                      /\ HasTarget' => emitted'[r].go <= latestGo'
  BY DEF EmissionInv
<1>3. /\ emitted[r].go \in Nat /\ emitted[r].at \in Nat /\ latestGo \in Nat
      /\ now \in Nat /\ now' \in Nat /\ now <= now'
      /\ latest \in Nat /\ latest' \in Nat /\ latest <= latest'
  BY <1>1, EmissionType, TimeMoves, LatestMoves
<1>4. CASE emitted'[r] = emitted[r]
  <2>1. emitted'[r].at <= now' /\ emitted'[r].go <= latest'
    BY <1>1, <1>3, <1>4 DEF EmissionInv
  <2>2. ASSUME HasTarget' PROVE emitted'[r].go <= latestGo'
    <3>1. CASE LatestStable
      BY <1>1, <1>4, <3>1 DEF LatestStable, EmissionInv
    <3>2. CASE HasTarget /\ latestGo' = latestGo
      BY <1>1, <1>4, <3>2 DEF EmissionInv
    <3> QED BY <1>1, <2>2, <3>1, <3>2, TargetKept
  <2> QED BY <2>1, <2>2
<1>5. CASE pc = "decide" /\ emitted'[r] = [go |-> latestGo, at |-> now]
  <2>1. ASSUME HasTarget' PROVE latestGo' = latestGo
    BY <1>1, <1>5, <2>1, TargetKept DEF LatestStable
  <2>2. latestGo <= latest
    BY <1>1 DEF GatheredInv
  <2> QED BY <1>3, <1>5, <2>1, <2>2
<1> QED BY <1>1, <1>4, <1>5, EmissionSteps

\* What an entry says stays true: completions stay, and a create command is
\* never sent for an older release than the last one.
LEMMA EntryStays ==
  ASSUME TruthInv, TypeInv', [Next]_vars, NEW r \in Repo, NEW s \in RepoState,
         EntryTrue(r, s)
  PROVE  EntryTrue(r, s)'
<1>1. TypeInv /\ EmissionInv
  BY DEF TruthInv, JustifiedInv
<1>2. completed \subseteq completed'
  BY <1>1, CompletionSteps DEF CompleteFails, CompleteTask
<1>3. /\ emitted[r].go \in Nat /\ emitted[r].at \in Nat /\ latestGo \in Nat /\ now \in Nat
      /\ s.inFlightTarget \in Nat /\ s.inFlightSince \in Nat
  BY <1>1, EmissionType, WorldAssumption DEF RepoState, Version, None
<1>4. CASE emitted'[r] = emitted[r]
  BY <1>2, <1>4 DEF EntryTrue
<1>5. CASE pc = "decide" /\ emitted'[r] = [go |-> latestGo, at |-> now]
  <2>1. emitted[r].go <= latestGo /\ emitted[r].at <= now
    BY <1>1, <1>5 DEF EmissionInv, HasTarget
  <2> QED BY <1>2, <1>3, <1>5, <2>1 DEF EntryTrue
<1> QED BY <1>1, <1>4, <1>5, EmissionSteps

\* An empty entry says nothing.
LEMMA NoStateTrue ==
  ASSUME NEW r
  PROVE  EntryTrue(r, NoState) /\ EntryTrue(r, NoState)'
  BY DEF EntryTrue, NoState

\* What a step makes of the entry of r in memory.
LEMMA EntrySteps ==
  ASSUME TypeInv, [Next]_vars, NEW r \in Repo
  PROVE  /\ disk'[r] \in {disk[r], mem[r], NoState}
         /\ \/ mem'[r] \in {mem[r], disk[r], NoState}
            \/ mem'[r] = ClearInFlight(mem[r], latestGo)
            \/ /\ PublishCreate /\ r = Current
               /\ mem'[r] = Published(mem[r], cand.headSHA, latestGo)
            \/ /\ CompleteTask(r)
               /\ mem'[r] = [mem[r] EXCEPT !.completedHeadSHA = mem[r].lastSeenHeadSHA]
<1>1. mem \in Cursor /\ mem \in [Repo -> RepoState] /\ ColdCursor[r] = NoState
  BY DEF TypeInv, TypeOK, Cursor, ColdCursor
<1>2. disk'[r] \in {disk[r], mem[r], NoState}
  BY <1>1, CursorSteps
<1>3. CASE mem' \in {mem, disk, ColdCursor}
  BY <1>1, <1>2, <1>3
<1>4. CASE PublishCreate
  BY <1>1, <1>2, <1>4 DEF PublishCreate
<1>5. ASSUME NEW q \in Repo, CompleteTask(q)
      PROVE  \/ mem'[r] = mem[r]
             \/ /\ CompleteTask(r)
                /\ mem'[r] = [mem[r] EXCEPT !.completedHeadSHA = mem[r].lastSeenHeadSHA]
  BY <1>1, <1>5 DEF CompleteTask
<1>6. CASE /\ Current \in Repo
           /\ mem' = [mem EXCEPT ![Current] = ClearInFlight(mem[Current], latestGo)]
  BY <1>1, <1>2, <1>6
<1> QED BY <1>2, <1>3, <1>4, <1>5, <1>6, CursorSteps

\* Whatever a step does to the cursors, their entries say what has happened.
LEMMA EntriesStep ==
  ASSUME TruthInv, TypeInv', [Next]_vars
  PROVE  EntriesTrue'
<1>1. TypeInv
  BY DEF TruthInv, JustifiedInv
<1>2. SUFFICES ASSUME NEW r \in Repo
               PROVE  EntryTrue(r, disk[r])' /\ EntryTrue(r, mem[r])'
  BY DEF EntriesTrue
<1>3. PICK d \in RepoState : d = disk[r]
  BY <1>1 DEF TypeInv, TypeOK, Cursor
<1>4. PICK m \in RepoState : m = mem[r]
  BY <1>1 DEF TypeInv, TypeOK, Cursor
<1>5. EntryTrue(r, d)' /\ EntryTrue(r, m)' /\ EntryTrue(r, NoState)'
  BY <1>3, <1>4, EntryStays, NoStateTrue DEF TruthInv, EntriesTrue
<1>6. EntryTrue(r, disk[r])'
  BY <1>1, <1>3, <1>4, <1>5, EntrySteps DEF EntryTrue
<1>7. CASE mem'[r] \in {mem[r], disk[r], NoState}
  BY <1>3, <1>4, <1>5, <1>6, <1>7 DEF EntryTrue
<1>8. CASE mem'[r] = ClearInFlight(mem[r], latestGo)
  <2>1. \/ mem'[r] = m
        \/ /\ mem'[r].inFlightTarget = None
           /\ mem'[r].completedHeadSHA = m.completedHeadSHA
    BY <1>4, <1>8 DEF ClearInFlight, RepoState
  <2> QED BY <1>5, <1>6, <2>1 DEF EntryTrue
<1>9. CASE PublishCreate /\ r = Current /\ mem'[r] = Published(mem[r], cand.headSHA, latestGo)
  <2>1. cand.headSHA # None
    BY <1>1, <1>9, WorldAssumption DEF PublishCreate, TypeInv, ControlInv, SHA, None
  <2>2. emitted'[r] = [go |-> latestGo, at |-> now] /\ completed' = completed /\ now \in Nat
    BY <1>1, <1>9, EmissionType DEF PublishCreate, RecordEmission, TypeInv, TypeOK, HistoryTypeOK
  <2>3. /\ mem'[r].lastSeenHeadSHA = cand.headSHA /\ mem'[r].lastSeenGoVersion = latestGo
        /\ mem'[r].completedHeadSHA = m.completedHeadSHA
        /\ mem'[r].inFlightTarget = latestGo /\ mem'[r].inFlightSince = now
    BY <1>4, <1>9 DEF Published
  <2> QED BY <1>5, <1>6, <2>1, <2>2, <2>3 DEF EntryTrue
<1>10. CASE /\ CompleteTask(r)
            /\ mem'[r] = [mem[r] EXCEPT !.completedHeadSHA = mem[r].lastSeenHeadSHA]
  <2>1. /\ RecordedTask(r) \in completed'
        /\ RecordedTask(r).repo = r /\ RecordedTask(r).sha = m.lastSeenHeadSHA
    BY <1>4, <1>10 DEF CompleteTask, RecordedTask
  <2>2. /\ mem'[r].completedHeadSHA = m.lastSeenHeadSHA
        /\ mem'[r].lastSeenHeadSHA = m.lastSeenHeadSHA
        /\ mem'[r].lastSeenGoVersion = m.lastSeenGoVersion
        /\ mem'[r].inFlightTarget = m.inFlightTarget
        /\ mem'[r].inFlightSince = m.inFlightSince
    BY <1>4, <1>10 DEF RepoState
  <2> QED BY <1>5, <1>6, <2>1, <2>2 DEF EntryTrue
<1> QED BY <1>1, <1>6, <1>7, <1>8, <1>9, <1>10, EntrySteps

\* The invariant holds when the watcher starts.
LEMMA TruthInit == Init => TruthInv
<1> SUFFICES ASSUME Init PROVE TruthInv
  OBVIOUS
<1>1. EmissionInv
  <2>1. pc = "idle" /\ now = 0 /\ latest \in Nat /\ 0 <= latest
    BY WorldAssumption DEF Init, WorldInit
  <2>2. \A r \in Repo : emitted[r].go = 0 /\ emitted[r].at = 0
    BY DEF Init, NeverEmitted, None
  <2>3. ~HasTarget
    BY <2>1 DEF HasTarget
  <2>4. ASSUME NEW r \in Repo
        PROVE  emitted[r].at <= now /\ emitted[r].go <= latest
    <3>1. emitted[r].go \in Nat /\ emitted[r].at \in Nat
      BY TypeInit, EmissionType
    <3> QED BY <2>1, <2>2, <3>1
  <2> QED BY <2>3, <2>4 DEF EmissionInv
<1>2. EntriesTrue
  BY NoStateTrue DEF Init, EntriesTrue, ColdCursor
<1> QED BY <1>1, <1>2, JustifiedInit DEF TruthInv

\* The invariant is kept by every step.
LEMMA TruthStep == TruthInv /\ [Next]_vars => TruthInv'
<1> SUFFICES ASSUME TruthInv, [Next]_vars PROVE TruthInv'
  OBVIOUS
<1>1. JustifiedInv' /\ TypeInv'
  BY JustifiedStep DEF TruthInv, JustifiedInv
<1> QED BY <1>1, EmissionStep, EntriesStep DEF TruthInv

\* Whatever fails, and whenever the process dies, the cursor file claims
\* nothing that has not happened.
THEOREM CursorIsTruthful == Spec => []CursorTruthful
<1>1. TruthInv => CursorTruthful
  <2>1. SUFFICES ASSUME TruthInv, NEW r \in Repo
                 PROVE  /\ disk[r].lastSeenHeadSHA # None => SavedTask(r) \in filed
                        /\ disk[r].completedHeadSHA # None =>
                             \E t \in completed : t.repo = r /\ t.sha = disk[r].completedHeadSHA
                        /\ disk[r].inFlightTarget # None =>
                             \E t \in filed : t.repo = r /\ t.go = disk[r].inFlightTarget
    BY DEF CursorTruthful
  <2>2. EntriesFiled(disk) /\ EntryTrue(r, disk[r])
    BY <2>1 DEF TruthInv, JustifiedInv, TypeInv, EntriesTrue
  <2>3. disk[r].lastSeenHeadSHA # None => SavedTask(r) \in filed
    BY <2>2 DEF EntriesFiled, SavedTask
  <2>4. SavedTask(r).repo = r /\ SavedTask(r).go = disk[r].lastSeenGoVersion
    BY DEF SavedTask
  <2> QED BY <2>2, <2>3, <2>4 DEF EntryTrue
<1> QED BY <1>1, TruthInit, TruthStep, PTL DEF Spec

-----------------------------------------------------------------------------
(* Why a repository is passed over *)

\* A commit the cycle has seen that needs no update, or allows none.
LEMMA SeenUnfit ==
  ASSUME GatheredInv, pc = "decide", ~GoBehind \/ cand.consent # "granted", Current \in Repo,
         cand.headSHA \in SHA
  PROVE  Unfit(Current, cand.headSHA, latestGo)
<1>1. PICK j \in SHA : /\ Declares(Current, cand.headSHA, cand.goMod, j)
                       /\ \E k \in j..HeadOf(Current) : commits[Current][k].consent = cand.consent
  BY DEF GatheredInv, ConsentRead, ConsentSeen
<1>2. CASE ~GoBehind
  BY <1>1, <1>2 DEF Declares, GoBehind, Unfit
<1>3. CASE cand.consent # "granted"
  <2>1. PICK k \in j..HeadOf(Current) : commits[Current][k].consent = cand.consent
    BY <1>1
  <2>2. k \in cand.headSHA..HeadOf(Current)
    BY <1>1, <2>1, WorldAssumption DEF Declares, SHA
  <2> QED BY <1>3, <2>1, <2>2 DEF Unfit
<1> QED BY <1>2, <1>3

\* What a candidate some filter skips is known to be.
LEMMA SkipMeans ==
  ASSUME NEW r, SkipReason(r) # Pass, Allowed(r), GoBehind, cand.consent = "granted"
  PROVE  /\ ~force
         /\ cand.headSHA = mem[r].lastSeenHeadSHA
         /\ latestGo = mem[r].lastSeenGoVersion
<1>1. cand.goMod \in Version
  BY DEF GoBehind, Behind
<1>2. StaticFilters(Allowlist, FilterCandidate(r)) = Pass
  <2>1. RepoAllowlistFilter(Allowlist, FilterCandidate(r)) = Pass
    BY DEF RepoAllowlistFilter, FilterCandidate, Allowed
  <2>2. cand.goMod # NoGoMod
    BY <1>1, WorldAssumption DEF Version
  <2>3. /\ GoModPresentFilter(FilterCandidate(r)) = Pass
        /\ GoModParsableFilter(FilterCandidate(r)) = Pass
    BY <1>1, <2>2 DEF GoModPresentFilter, GoModParsableFilter, FilterCandidate
  <2>4. GoBehindFilter(FilterCandidate(r)) = Pass /\ AutoUpdateFilter(FilterCandidate(r)) = Pass
    BY DEF GoBehindFilter, AutoUpdateFilter, FilterCandidate
  <2> QED BY <2>1, <2>3, <2>4 DEF StaticFilters, Then
<1>3. ~force /\ SHAUnchangedFilter(mem[r].lastSeenHeadSHA, mem[r].lastSeenGoVersion, None,
                                   FilterCandidate(r)) # Pass
  BY <1>2 DEF SkipReason, CycleFilter, Then
<1>4. /\ FilterCandidate(r).headSHA = mem[r].lastSeenHeadSHA
      /\ FilterCandidate(r).latestGo = mem[r].lastSeenGoVersion
  BY <1>3 DEF SHAUnchangedFilter
<1> QED BY <1>3, <1>4 DEF FilterCandidate

\* How a cycle is done with a repository although no call for it failed.
LEMMA LeavingSteps ==
  ASSUME TypeInv, [Next]_vars, Leaves
  PROVE  \/ GetMaintainerConfig /\ HeadCommit(Current).consent = "malformed"
         \/ OpenUpdatePRGate /\ HasOpenUpdatePR(Current)
         \/ SuppressInFlight \/ SkipRepo \/ PublishCreate
<1> USE DEF Leaves
<1>1. CASE UNCHANGED vars \/ Environment
  BY <1>1 DEF vars, Environment, cycleVars
<1>2. CASE \E f \in BOOLEAN : LoadCursor(f)
  BY <1>2 DEF LoadCursor
<1>3. CASE Progress
  BY <1>3 DEF Progress, LatestStable, ListRepos, GetHeadSHA, GetGoMod, GetMaintainerConfig,
     OpenUpdatePRGate, SkipCompleted, NotMerged, CompleteTask, SaveCursor, GoTo
<1>4. CASE Failure
  <2>1. CASE LoseCursor
    BY <2>1 DEF LoseCursor
  <2>2. CASE Failure /\ ~LoseCursor
    <3>1. Fault
      BY <2>2 DEF Failure, AbortEarly, DropRepo, RateLimited, PublishFails, CompleteFails,
         MergedCallFails, MergedRateLimited, Cancelled, SaveFails, Crash
    <3>2. faults \in Nat
      BY WatcherAssumption DEF TypeInv, TypeOK
    <3> QED BY <3>1, <3>2 DEF Fault
  <2> QED BY <1>4, <2>1, <2>2
<1> QED BY <1>1, <1>2, <1>3, <1>4 DEF Next

\* A claim that holds a repository back is that of a create command sent for
\* this cycle's release, within the TTL.
LEMMA HeldBack ==
  ASSUME TruthInv, pc = "decide", NEW r \in Repo, EmissionInFlight(r)
  PROVE  emitted[r].go = latestGo /\ now - emitted[r].at <= InFlightTTL
<1>1. TypeInv /\ EntryTrue(r, mem[r]) /\ emitted[r].go <= latestGo
  BY DEF TruthInv, JustifiedInv, EntriesTrue, EmissionInv, HasTarget
<1>2. /\ emitted[r].go \in Nat /\ emitted[r].at \in Nat /\ latestGo \in Nat /\ now \in Nat
      /\ InFlightTTL \in Nat
  BY <1>1, EmissionType, WatcherAssumption
<1>3. latestGo # None /\ mem[r].inFlightTarget = latestGo /\ mem[r].inFlightSince \in Nat
  BY <1>1, WorldAssumption
     DEF EmissionInFlight, TypeInv, TypeOK, ControlInv, Cursor, RepoState, Version, None
<1>4. emitted[r].go = latestGo /\ mem[r].inFlightSince <= emitted[r].at
  BY <1>1, <1>2, <1>3 DEF EntryTrue
<1>5. ~ (now - mem[r].inFlightSince > InFlightTTL)
  BY DEF EmissionInFlight, InFlightExpired
<1> QED BY <1>2, <1>3, <1>4, <1>5

\* A cycle passes over a repository only for one of the reasons it may have.
THEOREM PassedOverJustified == Spec => PassedOverForAReason
<1> DEFINE Reason ==
      \/ ~Allowed(Current)
      \/ HasOpenUpdatePR(Current)
      \/ Unfit(Current, cand.headSHA, latestGo)
      \/ ~force /\ CurrentTask \in filed
      \/ /\ emitted'[Current].go = latestGo
         /\ now - emitted'[Current].at <= InFlightTTL
<1>1. TruthInv /\ [Next]_vars => [Leaves => Reason]_vars
  <2>1. SUFFICES ASSUME TruthInv, [Next]_vars, Leaves
                 PROVE  Reason
    OBVIOUS
  <2>2. TypeInv /\ CompletionInv /\ GatheredInv
    BY <2>1 DEF TruthInv, JustifiedInv
  <2>3. Current \in Repo /\ cand.headSHA \in SHA /\ now \in Nat /\ InFlightTTL \in Nat
    BY <2>1, <2>2, CurrentType, EmissionType, WatcherAssumption
       DEF Leaves, TypeInv, TypeOK, AtRepo, ControlInv
  <2>4. CASE GetMaintainerConfig /\ HeadCommit(Current).consent = "malformed"
    <3>1. cand.headSHA <= HeadOf(Current) /\ HeadOf(Current) \in SHA
      BY <2>2, <2>3, <2>4 DEF GetMaintainerConfig, CompletionInv, CandidateOrdered, HeadRead,
         TypeInv, TypeOK, WorldTypeOK
    <3>2. HeadOf(Current) \in cand.headSHA..HeadOf(Current)
      BY <2>3, <3>1, WorldAssumption DEF SHA
    <3>3. Unfit(Current, cand.headSHA, latestGo)
      BY <2>4, <3>2 DEF Unfit, HeadCommit
    <3> QED BY <3>3
  <2>5. CASE OpenUpdatePRGate /\ HasOpenUpdatePR(Current)
    BY <2>5
  <2>6. CASE SuppressInFlight
    <3>1. emitted' = emitted /\ pc = "decide" /\ EmissionInFlight(Current)
      BY <2>6 DEF SuppressInFlight, historyVars
    <3> QED BY <2>1, <2>3, <3>1, HeldBack
  <2>7. CASE SkipRepo
    <3>1. pc = "decide" /\ SkipReason(Current) # Pass
      BY <2>7 DEF SkipRepo
    <3>2. CASE ~Allowed(Current)
      BY <3>2
    <3>3. CASE ~GoBehind \/ cand.consent # "granted"
      BY <2>2, <2>3, <3>1, <3>3, SeenUnfit
    <3>4. CASE Allowed(Current) /\ GoBehind /\ cand.consent = "granted"
      <4>1. /\ ~force
            /\ cand.headSHA = mem[Current].lastSeenHeadSHA
            /\ latestGo = mem[Current].lastSeenGoVersion
        BY <3>1, <3>4, SkipMeans
      <4>2. mem[Current].lastSeenHeadSHA # None
        BY <2>3, <4>1, WorldAssumption DEF SHA, None
      <4>3. CurrentTask \in filed
        BY <2>2, <2>3, <4>1, <4>2 DEF TypeInv, EntriesFiled, CurrentTask
      <4> QED BY <4>1, <4>3
    <3> QED BY <3>2, <3>3, <3>4
  <2>8. CASE PublishCreate
    <3>1. emitted'[Current] = [go |-> latestGo, at |-> now]
      BY <2>2, <2>3, <2>8 DEF PublishCreate, RecordEmission, TypeInv, TypeOK, HistoryTypeOK
    <3> QED BY <2>3, <3>1
  <2> QED BY <2>1, <2>2, <2>4, <2>5, <2>6, <2>7, <2>8, LeavingSteps
<1> QED BY <1>1, TruthInit, TruthStep, PTL DEF Spec, PassedOverForAReason

=============================================================================

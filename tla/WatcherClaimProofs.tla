------------------------- MODULE WatcherClaimProofs -------------------------
(***************************************************************************)
(* The emission claim does what it is for: a repository gets no second     *)
(* task for one release while its claim lives, and none beside an open     *)
(* pull request that the first page shows.                                 *)
(*                                                                         *)
(* The argument follows one claim: while nothing has ended it, the cursor  *)
(* the next cycle decides by says exactly what was last emitted.  For that *)
(* the cycle must never clear a claim on stale grounds, so what it has     *)
(* read about the repository must be matched by what really happened.      *)
(***************************************************************************)
EXTENDS WatcherProofs

\* The entry the next decision about r goes by.
Effective(r) == IF pc = "idle" THEN disk[r] ELSE mem[r]

\* A claim nothing has ended is in the cursor as it was made.
ClaimInv ==
  \A r \in Repo : emitted[r].go # None /\ ~ClaimEnded(r) =>
    Claim(Effective(r)) = <<emitted[r].go, emitted[r].at>>

\* What ends a claim in the world is on record.
EvidenceInv ==
  \A r \in Repo : emitted[r].go # None =>
    EndsClaim(r, emitted[r].go) \subseteq evidence[r]

\* Until the first repository the cycle has not changed the cursor it read.
FreshInv == pc \in {"latest_stable", "list_repos"} => mem = disk

\* A candidate read as converged is one whose claim has ended.
ConvergedInv ==
  /\ pc \in {"maintainer_config", "open_update_pr", "decide"}
  /\ emitted[Current].go = latestGo
  /\ ~GoBehind
  => evidence[Current] # {}

ClaimsInv == EvidenceInv /\ FreshInv /\ ConvergedInv /\ ClaimInv

-----------------------------------------------------------------------------
(* Filters *)

\* What a candidate no filter skips is known to be.
LEMMA PassMeans ==
  ASSUME NEW r, SkipReason(r) = Pass
  PROVE  /\ Allowed(r)
         /\ GoBehind
         /\ cand.consent = "granted"
<1>1. StaticFilters(Allowlist, FilterCandidate(r)) = Pass
  BY DEF SkipReason, CycleFilter, Then
<1>2. RepoAllowlistFilter(Allowlist, FilterCandidate(r)) = Pass
  BY <1>1 DEF StaticFilters, Then
<1>3. GoBehindFilter(FilterCandidate(r)) = Pass /\ AutoUpdateFilter(FilterCandidate(r)) = Pass
  BY <1>1 DEF StaticFilters, Then
<1>4. Allowed(r)
  BY <1>2 DEF RepoAllowlistFilter, FilterCandidate, Pass, Allowed
<1>5. GoBehind
  BY <1>3 DEF GoBehindFilter, FilterCandidate, Pass
<1>6. cand.consent = "granted"
  BY <1>3 DEF AutoUpdateFilter, FilterCandidate, Pass
<1> QED BY <1>4, <1>5, <1>6

-----------------------------------------------------------------------------
(* Steps *)

\* The steps a cycle takes for one repository that leave the cursor alone.
Reading ==
  \/ LatestStable \/ ListRepos \/ GetHeadSHA \/ GetGoMod \/ GetMaintainerConfig
  \/ SuppressInFlight \/ DropRepo
  \/ SkipCompleted \/ NotMerged \/ CompleteFails \/ MergedCallFails
  \/ MergedRateLimited \/ Cancelled

Emitting == PublishCreate \/ PublishFails
Forgetting == RateLimited \/ SaveFails \/ Crash

\* Only the environment changes GitHub and the clock.
LEMMA CycleStepWorld ==
  ASSUME (\E f \in BOOLEAN : LoadCursor(f)) \/ Progress \/ Failure
  PROVE  UNCHANGED github /\ UNCHANGED latest /\ UNCHANGED now
<1>1. ASSUME \E f \in BOOLEAN : LoadCursor(f)
      PROVE  UNCHANGED github /\ UNCHANGED latest /\ UNCHANGED now
  BY <1>1 DEF LoadCursor, worldVars
<1>2. ASSUME Progress
      PROVE  UNCHANGED github /\ UNCHANGED latest /\ UNCHANGED now
  BY <1>2 DEF Progress, LatestStable, ListRepos, GetHeadSHA, GetGoMod,
     GetMaintainerConfig, OpenUpdatePRGate, SuppressInFlight, SkipRepo, PublishCreate,
     SkipCompleted, NotMerged, CompleteTask, SaveCursor, worldVars
<1>3. ASSUME Failure
      PROVE  UNCHANGED github /\ UNCHANGED latest /\ UNCHANGED now
  BY <1>3 DEF Failure, AbortEarly, DropRepo, RateLimited, PublishFails, CompleteFails,
     MergedCallFails, MergedRateLimited, Cancelled, SaveFails, Crash, LoseCursor, worldVars
<1> QED BY <1>1, <1>2, <1>3

\* A step that sends no create command keeps the emissions and their evidence.
LEMMA EvidenceGrows ==
  ASSUME TypeInv, [Next]_vars, ~Emitting
  PROVE  /\ emitted' = emitted
         /\ \A r \in Repo : evidence[r] \subseteq evidence'[r]
<1>1. CASE UNCHANGED vars
  BY <1>1 DEF vars, historyVars
<1>2. CASE Environment
  BY <1>2 DEF Environment
<1>3. CASE \E f \in BOOLEAN : LoadCursor(f)
  BY <1>3 DEF LoadCursor
<1>4. CASE Progress
  BY <1>4 DEF Emitting, Progress, LatestStable, ListRepos, GetHeadSHA, GetGoMod,
     GetMaintainerConfig, OpenUpdatePRGate, SuppressInFlight, SkipRepo,
     SkipCompleted, NotMerged, CompleteTask, SaveCursor, historyVars
<1>5. CASE Failure
  BY <1>5 DEF Emitting, Failure, AbortEarly, DropRepo, RateLimited, CompleteFails,
     MergedCallFails, MergedRateLimited, Cancelled, SaveFails, Crash, LoseCursor,
     ForgetUnsaved, historyVars
<1> QED BY <1>1, <1>2, <1>3, <1>4, <1>5 DEF Next

\* Time does not run backwards.
LEMMA TimeMoves ==
  ASSUME TypeInv, TypeInv', [Next]_vars
  PROVE  now \in Nat /\ now' \in Nat /\ now <= now'
<1>1. now \in Nat /\ now' \in Nat
  BY WorldAssumption DEF TypeInv, TypeOK, WorldTypeOK
<1>2. CASE Environment
  BY <1>1, <1>2, WorldStepType DEF Environment, TypeInv, TypeOK
<1>3. CASE (\E f \in BOOLEAN : LoadCursor(f)) \/ Progress \/ Failure
  BY <1>1, <1>3, CycleStepWorld
<1>4. CASE UNCHANGED vars
  BY <1>1, <1>4 DEF vars, worldVars
<1> QED BY <1>1, <1>2, <1>3, <1>4 DEF Next

\* A claim that has ended stays ended until the next create command.
LEMMA EndedStays ==
  ASSUME TypeInv, TypeInv', [Next]_vars, ~Emitting, NEW r \in Repo, ClaimEnded(r)
  PROVE  ClaimEnded(r)'
<1>1. now \in Nat /\ now' \in Nat /\ now <= now'
  BY TimeMoves
<1>2. emitted' = emitted /\ evidence[r] \subseteq evidence'[r]
  BY EvidenceGrows
<1>3. emitted[r].at \in Nat /\ InFlightTTL \in Nat
  BY WorldAssumption, WatcherAssumption DEF TypeInv, TypeOK, HistoryTypeOK
<1> QED BY <1>1, <1>2, <1>3 DEF ClaimEnded

-----------------------------------------------------------------------------
(* The evidence *)

\* An emission starts with the evidence of its moment.
LEMMA EmissionEvidence ==
  ASSUME TypeInv, Emitting
  PROVE  /\ pc = "decide" /\ Current \in Repo
         /\ \A r \in Repo \ {Current} : emitted'[r] = emitted[r] /\ evidence'[r] = evidence[r]
         /\ \/ emitted' = emitted /\ evidence' = evidence
            \/ /\ emitted'[Current] = [go |-> latestGo, at |-> now]
               /\ EndsClaim(Current, latestGo) \subseteq evidence'[Current]
<1>1. pc = "decide" /\ Current \in Repo
  BY CurrentType DEF Emitting, PublishCreate, PublishFails, TypeInv, TypeOK, AtRepo
<1>2. \/ UNCHANGED <<emitted, evidence>>
      \/ \E extra \in {{}, {"lost"}} : RecordEmission(Current, extra)
  BY DEF Emitting, PublishCreate, PublishFails
<1>3. CASE UNCHANGED <<emitted, evidence>>
  BY <1>1, <1>3
<1>4. ASSUME NEW extra \in {{}, {"lost"}}, RecordEmission(Current, extra)
      PROVE  /\ \A r \in Repo \ {Current} : emitted'[r] = emitted[r] /\ evidence'[r] = evidence[r]
             /\ emitted'[Current] = [go |-> latestGo, at |-> now]
             /\ EndsClaim(Current, latestGo) \subseteq evidence'[Current]
  BY <1>1, <1>4 DEF RecordEmission, TypeInv, TypeOK, HistoryTypeOK
<1> QED BY <1>1, <1>2, <1>3, <1>4

\* What ends a claim is a matter of GitHub alone.
LEMMA SameGitHub ==
  ASSUME UNCHANGED github, NEW r, NEW v
  PROVE  EndsClaim(r, v)' = EndsClaim(r, v)
  BY DEF github, EndsClaim, OpenUpdatePR, HeadCommit, HeadOf

\* A step that ends a claim in the world puts it on record, and so does an
\* emission whose claim is over as it is made.
LEMMA EvidenceStep ==
  ASSUME TypeInv, EvidenceInv, [Next]_vars
  PROVE  EvidenceInv'
<1>1. CASE Environment
  BY <1>1 DEF Environment, EvidenceInv
<1>2. CASE UNCHANGED vars
  <2>1. UNCHANGED github /\ emitted' = emitted /\ evidence' = evidence
    BY <1>2 DEF vars, worldVars, historyVars
  <2> QED BY <2>1, SameGitHub DEF EvidenceInv
<1>3. ASSUME (\E f \in BOOLEAN : LoadCursor(f)) \/ Progress \/ Failure
      PROVE  EvidenceInv'
  <2>1. UNCHANGED github
    BY <1>3, CycleStepWorld
  <2>2. CASE ~Emitting
    BY <2>1, <2>2, EvidenceGrows, SameGitHub DEF EvidenceInv
  <2>3. CASE Emitting
    <3>1. SUFFICES ASSUME NEW r \in Repo, emitted'[r].go # None
                   PROVE  EndsClaim(r, emitted[r].go)' \subseteq evidence'[r]
      BY DEF EvidenceInv
    <3>2. EndsClaim(r, emitted[r].go)' = EndsClaim(r, emitted'[r].go)
      BY <2>1 DEF github, EndsClaim, OpenUpdatePR, HeadCommit, HeadOf
    <3>3. CASE emitted'[r] = emitted[r] /\ evidence'[r] = evidence[r]
      BY <3>1, <3>2, <3>3 DEF EvidenceInv
    <3>4. CASE r = Current /\ emitted'[r] = [go |-> latestGo, at |-> now]
               /\ EndsClaim(Current, latestGo) \subseteq evidence'[Current]
      BY <3>2, <3>4
    <3> QED BY <2>3, <3>3, <3>4, EmissionEvidence
  <2> QED BY <2>2, <2>3
<1> QED BY <1>1, <1>2, <1>3 DEF Next

-----------------------------------------------------------------------------
(* What the cycle has read *)

\* Reading the feed and the listing leaves the cursor as it was read.
LEMMA FreshStep ==
  ASSUME TypeInv, FreshInv, [Next]_vars
  PROVE  FreshInv'
<1>1. CASE UNCHANGED vars \/ Environment
  BY <1>1 DEF vars, Environment, cycleVars, FreshInv
<1>2. CASE \E f \in BOOLEAN : LoadCursor(f)
  BY <1>2 DEF LoadCursor, FreshInv
<1>3. CASE Progress
  BY <1>3 DEF FreshInv, Progress, LatestStable, ListRepos, GetHeadSHA, GetGoMod,
     GetMaintainerConfig, OpenUpdatePRGate, SuppressInFlight, SkipRepo, PublishCreate,
     SkipCompleted, NotMerged, CompleteTask, SaveCursor, NextRepo, NextMerged, GoTo, IdleCycle
<1>4. CASE Failure
  BY <1>4 DEF FreshInv, Failure, AbortEarly, DropRepo, RateLimited, PublishFails,
     CompleteFails, MergedCallFails, MergedRateLimited, Cancelled, SaveFails, Crash,
     LoseCursor, NextRepo, NextMerged, GoTo, IdleCycle, cycleVars
<1> QED BY <1>1, <1>2, <1>3, <1>4 DEF Next

\* The steps at which the candidate's go.mod has been read.
GoModRead == pc \in {"maintainer_config", "open_update_pr", "decide"}

\* How a cycle comes to, or stays at, a step after the read of go.mod.
LEMMA GoModReadSteps ==
  ASSUME TypeInv, [Next]_vars, GoModRead'
  PROVE  \/ GetGoMod
         \/ /\ GoModRead
            /\ UNCHANGED <<latestGo, listing, i>>
            /\ cand'.goMod = cand.goMod /\ cand'.headSHA = cand.headSHA
            /\ ~Emitting
<1> USE DEF GoModRead
<1>1. CASE UNCHANGED vars \/ Environment
  <2>1. UNCHANGED cycleVars
    BY <1>1 DEF vars, Environment
  <2>2. ~Emitting
    BY <2>1 DEF cycleVars, Emitting, PublishCreate, PublishFails, NextRepo
  <2> QED BY <2>1, <2>2 DEF cycleVars
<1>2. CASE \E f \in BOOLEAN : LoadCursor(f)
  BY <1>2 DEF LoadCursor
<1>3. CASE LatestStable \/ ListRepos \/ GetHeadSHA \/ SuppressInFlight \/ SkipRepo
           \/ PublishCreate \/ SkipCompleted \/ NotMerged \/ SaveCursor
           \/ (\E r \in Repo : CompleteTask(r))
  BY <1>3 DEF LatestStable, ListRepos, GetHeadSHA, SuppressInFlight, SkipRepo, PublishCreate,
     SkipCompleted, NotMerged, CompleteTask, SaveCursor, NextRepo, NextMerged, GoTo, IdleCycle
<1>4. CASE GetMaintainerConfig \/ OpenUpdatePRGate
  <2>1. pc # "decide" /\ ~Emitting
    BY <1>4 DEF GetMaintainerConfig, OpenUpdatePRGate, Emitting, PublishCreate, PublishFails
  <2> QED BY <1>4, <2>1 DEF GetMaintainerConfig, OpenUpdatePRGate, NextRepo, GoTo,
          TypeInv, TypeOK, CycleTypeOK, Candidate
<1>5. CASE Failure
  BY <1>5 DEF Failure, AbortEarly, DropRepo, RateLimited, PublishFails,
     CompleteFails, MergedCallFails, MergedRateLimited, Cancelled, SaveFails, Crash,
     LoseCursor, NextRepo, NextMerged, GoTo, IdleCycle, cycleVars
<1> QED BY <1>1, <1>2, <1>3, <1>4, <1>5 DEF Next, Progress

\* What a cycle reads as converged was on record before it was read.
LEMMA ConvergedStep ==
  ASSUME TypeInv, EvidenceInv, ConvergedInv, [Next]_vars
  PROVE  ConvergedInv'
<1>1. SUFFICES ASSUME GoModRead', emitted'[Current'].go = latestGo', ~GoBehind'
               PROVE  evidence'[Current'] # {}
  BY DEF ConvergedInv, GoModRead
<1>2. CASE GetGoMod
  <2>1. /\ Current \in Repo /\ latestGo \in Version
        /\ Current' = Current /\ latestGo' = latestGo
        /\ emitted' = emitted /\ evidence' = evidence
        /\ cand'.goMod = HeadCommit(Current).goMod
    BY <1>2, CurrentType DEF GetGoMod, GoTo, Current, TypeInv, TypeOK, CycleTypeOK,
       ControlInv, Candidate, AtRepo, historyVars
  <2>2. emitted[Current].go = latestGo /\ ~Behind(HeadCommit(Current).goMod, latestGo)
    BY <1>1, <2>1 DEF GoBehind
  <2>3. "converged" \in EndsClaim(Current, latestGo)
    BY <2>2 DEF EndsClaim
  <2>4. latestGo # None
    BY <2>1, WorldAssumption DEF Version, None
  <2> QED BY <2>1, <2>2, <2>3, <2>4 DEF EvidenceInv
<1>3. CASE /\ GoModRead
           /\ UNCHANGED <<latestGo, listing, i>>
           /\ cand'.goMod = cand.goMod
           /\ ~Emitting
  <2>1. Current' = Current /\ Current \in Repo /\ GoBehind' = GoBehind /\ latestGo' = latestGo
    BY <1>3, CurrentType DEF Current, GoBehind, TypeInv, TypeOK, GoModRead, AtRepo
  <2>2. emitted' = emitted /\ evidence[Current] \subseteq evidence'[Current]
    BY <1>3, <2>1, EvidenceGrows
  <2>3. evidence[Current] # {}
    BY <1>1, <1>3, <2>1, <2>2 DEF ConvergedInv, GoModRead
  <2> QED BY <2>1, <2>2, <2>3
<1> QED BY <1>1, <1>2, <1>3, GoModReadSteps

-----------------------------------------------------------------------------
(* The claim *)

\* Dropping the memory keeps the claims of the file, or is put on record.
LEMMA ForgetClaim ==
  ASSUME TypeInv, ForgetUnsaved, NEW r \in Repo, evidence'[r] = {}
  PROVE  Claim(mem[r]) = Claim(disk[r])
  BY DEF ForgetUnsaved

\* A claim on this cycle's release is only cleared once it has ended.
LEMMA ClearedClaimEnded ==
  ASSUME TypeInv, ClaimsInv, pc = "decide", ~EmissionInFlight(Current),
         mem[Current].inFlightTarget = latestGo, emitted[Current].go # None
  PROVE  ClaimEnded(Current)
<1>1. Current \in Repo
  BY CurrentType DEF TypeInv, TypeOK, AtRepo
<1>2. SUFFICES ASSUME ~ClaimEnded(Current) PROVE FALSE
  OBVIOUS
<1>3. Claim(mem[Current]) = <<emitted[Current].go, emitted[Current].at>>
  BY <1>1, <1>2 DEF ClaimsInv, ClaimInv, Effective
<1>4. emitted[Current].go = latestGo /\ mem[Current].inFlightSince = emitted[Current].at
  BY <1>3 DEF Claim
<1>5. CASE ~GoBehind
  BY <1>2, <1>4, <1>5 DEF ClaimsInv, ConvergedInv, ClaimEnded
<1>6. CASE InFlightExpired(mem[Current])
  BY <1>2, <1>4, <1>6 DEF InFlightExpired, ClaimEnded
<1> QED BY <1>5, <1>6 DEF EmissionInFlight

\* A step that does not send leaves the effective claim of r as it is, or
\* the claim has ended.
LEMMA QuietClaim ==
  ASSUME TypeInv, ClaimsInv, [Next]_vars, ~Emitting,
         NEW r \in Repo, emitted[r].go # None, evidence'[r] = {}, ~ClaimEnded(r)
  PROVE  Claim(Effective(r))' = Claim(Effective(r))
<1> USE DEF Effective
<1>0. evidence[r] = {}
  BY DEF ClaimEnded
<1>1. CASE UNCHANGED vars \/ Environment
  BY <1>1 DEF vars, Environment, cycleVars, Claim
<1>2. CASE \E f \in BOOLEAN : LoadCursor(f)
  BY <1>2 DEF LoadCursor, Claim
<1>3. CASE Reading
  <2>1. mem' = mem /\ disk' = disk /\ pc # "idle" /\ pc' # "idle"
    BY <1>3 DEF Reading, LatestStable, ListRepos, GetHeadSHA, GetGoMod, GetMaintainerConfig,
       SuppressInFlight, DropRepo, SkipCompleted, NotMerged, CompleteFails, MergedCallFails,
       MergedRateLimited, Cancelled, NextRepo, NextMerged, GoTo
  <2> QED BY <2>1 DEF Claim
<1>4. CASE AbortEarly
  <2>1. Effective(r) = disk[r] /\ disk' = disk /\ pc' = "idle"
    BY <1>4 DEF AbortEarly, IdleCycle, ClaimsInv, FreshInv
  <2> QED BY <2>1 DEF Claim
<1>5. CASE Forgetting
  <2>1. ForgetUnsaved /\ pc # "idle" /\ pc' = "idle" /\ disk' = disk
    BY <1>5 DEF Forgetting, RateLimited, SaveFails, Crash, IdleCycle
  <2> QED BY <2>1, ForgetClaim DEF Claim
<1>6. CASE SaveCursor
  BY <1>6 DEF SaveCursor, IdleCycle, Claim
<1>7. CASE LoseCursor
  <2>1. Claim(disk[r]) = Claim(NoState)
    BY <1>7 DEF LoseCursor
  <2>2. pc = "idle" /\ pc' = "idle" /\ disk'[r] = NoState
    BY <1>7 DEF LoseCursor, cycleVars, ColdCursor
  <2> QED BY <2>1, <2>2 DEF Claim
<1>8. CASE OpenUpdatePRGate
  <2>1. Current \in Repo /\ pc # "idle" /\ pc' # "idle"
    BY <1>8, CurrentType DEF OpenUpdatePRGate, NextRepo, GoTo, TypeInv, TypeOK, AtRepo
  <2>2. CASE mem' = mem
    BY <2>1, <2>2 DEF Claim
  <2>3. CASE HasOpenUpdatePR(Current) /\ mem' = [mem EXCEPT ![Current] = ClearInFlight(@, latestGo)]
    <3>1. CASE r # Current
      BY <2>1, <2>3, <3>1 DEF Claim, TypeInv, TypeOK, Cursor
    <3>2. CASE r = Current
      <4>1. "open_pr" \in EndsClaim(r, emitted[r].go)
        BY <2>3, <3>2 DEF EndsClaim, OpenUpdatePR, HasOpenUpdatePR
      <4> QED BY <1>0, <4>1 DEF ClaimsInv, EvidenceInv
    <3> QED BY <3>1, <3>2
  <2> QED BY <1>8, <2>2, <2>3 DEF OpenUpdatePRGate, GoTo
<1>9. CASE SkipRepo
  <2>1. /\ Current \in Repo /\ pc = "decide" /\ pc' # "idle"
        /\ ~EmissionInFlight(Current)
        /\ mem' = [mem EXCEPT ![Current] = Settled(Current)]
    BY <1>9, CurrentType DEF SkipRepo, NextRepo, TypeInv, TypeOK, AtRepo
  <2>2. CASE r # Current
    BY <2>1, <2>2 DEF Claim, TypeInv, TypeOK, Cursor
  <2>3. CASE r = Current
    <3>1. mem[r].inFlightTarget # latestGo
      BY <2>1, <2>3, ClearedClaimEnded
    <3>2. Settled(r) = mem[r]
      BY <3>1 DEF Settled, ClearInFlight
    <3> QED BY <2>1, <2>3, <3>2 DEF Claim, TypeInv, TypeOK, Cursor
  <2> QED BY <2>2, <2>3
<1>10. ASSUME NEW q \in Repo, CompleteTask(q)
       PROVE  Claim(Effective(r))' = Claim(Effective(r))
  <2>1. /\ pc # "idle" /\ pc' # "idle"
        /\ mem' = [mem EXCEPT ![q].completedHeadSHA = mem[q].lastSeenHeadSHA]
    BY <1>10 DEF CompleteTask, NextMerged
  <2>2. mem[q] \in RepoState /\ mem[r] \in RepoState
    BY DEF TypeInv, TypeOK, Cursor
  <2>3. /\ mem'[r].inFlightTarget = mem[r].inFlightTarget
        /\ mem'[r].inFlightSince = mem[r].inFlightSince
    BY <2>1, <2>2 DEF TypeInv, TypeOK, Cursor, RepoState
  <2> QED BY <2>1, <2>3 DEF Claim
<1> QED BY <1>1, <1>2, <1>3, <1>4, <1>5, <1>6, <1>7, <1>8, <1>9, <1>10
        DEF Next, Progress, Failure, Reading, Emitting, Forgetting

\* What a step that sends, or tries to, does to the claims.
LEMMA EmittingClaim ==
  ASSUME TypeInv, ClaimsInv, Emitting,
         NEW r \in Repo, emitted'[r].go # None, evidence'[r] = {},
         ~ (now - emitted'[r].at > InFlightTTL)
  PROVE  Claim(mem[r])' = <<emitted'[r].go, emitted'[r].at>>
<1>1. /\ pc = "decide" /\ Current \in Repo /\ ~EmissionInFlight(Current)
      /\ mem[Current] \in RepoState
  BY CurrentType DEF Emitting, PublishCreate, PublishFails, TypeInv, TypeOK, AtRepo, Cursor
<1>2. ASSUME emitted'[r] = emitted[r], evidence'[r] = evidence[r]
      PROVE  /\ Claim(mem[r]) = <<emitted[r].go, emitted[r].at>>
             /\ ~ClaimEnded(r) /\ emitted[r].go # None
  BY <1>1, <1>2 DEF ClaimsInv, ClaimInv, ClaimEnded, Effective
<1>3. CASE r # Current
  <2>1. emitted'[r] = emitted[r] /\ evidence'[r] = evidence[r]
    BY <1>3, EmissionEvidence
  <2>2. mem'[r] = mem[r]
    BY <1>1, <1>3 DEF Emitting, PublishCreate, PublishFails, TypeInv, TypeOK, Cursor
  <2> QED BY <1>2, <2>1, <2>2 DEF Claim
<1>4. CASE r = Current /\ PublishCreate
  <2>1. mem'[r] = Published(mem[r], cand.headSHA, latestGo)
    BY <1>1, <1>4 DEF PublishCreate, TypeInv, TypeOK, Cursor
  <2>2. emitted'[r] = [go |-> latestGo, at |-> now]
    BY <1>1, <1>4 DEF PublishCreate, RecordEmission, TypeInv, TypeOK, HistoryTypeOK
  <2> QED BY <2>1, <2>2 DEF Published, Claim
<1>5. CASE r = Current /\ PublishFails
  <2>1. evidence' = evidence /\ emitted' = emitted
    <3>1. CASE RecordEmission(Current, {"lost"})
      BY <1>1, <1>5, <3>1 DEF RecordEmission, TypeInv, TypeOK, HistoryTypeOK
    <3>2. CASE UNCHANGED <<emitted, evidence>>
      BY <3>2
    <3> QED BY <1>5, <3>1, <3>2 DEF PublishFails
  <2>2. mem[r].inFlightTarget # latestGo
    BY <1>1, <1>2, <1>5, <2>1, ClearedClaimEnded
  <2>3. mem'[r] = mem[r]
    BY <1>1, <1>5, <2>2 DEF PublishFails, Settled, ClearInFlight, TypeInv, TypeOK, Cursor
  <2> QED BY <1>2, <2>1, <2>3 DEF Claim
<1> QED BY <1>3, <1>4, <1>5 DEF Emitting

\* No step disturbs a claim that nothing has ended.
LEMMA ClaimStep ==
  ASSUME TypeInv, TypeInv', ClaimsInv, [Next]_vars
  PROVE  ClaimInv'
<1>1. SUFFICES ASSUME NEW r \in Repo, emitted'[r].go # None, ~ClaimEnded(r)'
               PROVE  Claim(Effective(r))' = <<emitted'[r].go, emitted'[r].at>>
  BY DEF ClaimInv
<1>2. evidence'[r] = {}
  BY <1>1 DEF ClaimEnded
<1>3. CASE ~Emitting
  <2>1. emitted' = emitted /\ ~ClaimEnded(r)
    BY <1>1, <1>3, EvidenceGrows, EndedStays
  <2>2. Claim(Effective(r)) = <<emitted[r].go, emitted[r].at>>
    BY <1>1, <2>1 DEF ClaimsInv, ClaimInv
  <2> QED BY <1>1, <1>2, <1>3, <2>1, <2>2, QuietClaim
<1>4. CASE Emitting
  <2>1. now' = now /\ pc' # "idle"
    BY <1>4 DEF Emitting, PublishCreate, PublishFails, NextRepo
  <2>2. ~ (now - emitted'[r].at > InFlightTTL)
    BY <1>1, <2>1 DEF ClaimEnded
  <2>3. Claim(mem[r])' = <<emitted'[r].go, emitted'[r].at>>
    BY <1>1, <1>2, <1>4, <2>2, EmittingClaim
  <2> QED BY <2>1, <2>3 DEF Effective, Claim
<1> QED BY <1>3, <1>4

\* At the start nothing has been emitted.
LEMMA ClaimsInit == Init => ClaimsInv
  BY DEF Init, ClaimsInv, EvidenceInv, FreshInv, ConvergedInv, ClaimInv, NeverEmitted

\* The claim invariant is kept by every step.
LEMMA ClaimsStep ==
  ASSUME TypeInv, TypeInv', ClaimsInv, [Next]_vars
  PROVE  ClaimsInv'
<1>1. EvidenceInv' /\ FreshInv' /\ ConvergedInv' /\ ClaimInv'
  BY EvidenceStep, FreshStep, ConvergedStep, ClaimStep DEF ClaimsInv
<1> QED BY <1>1 DEF ClaimsInv

\* A new task is this cycle's candidate.
LEMMA NewTask ==
  ASSUME TypeInv, [Next]_vars, NEW t \in filed' \ filed
  PROVE  /\ Emitting /\ t = CurrentTask
         /\ pc = "decide" /\ Current \in Repo
         /\ ~EmissionInFlight(Current)
         /\ SkipReason(Current) = Pass
<1>1. CASE UNCHANGED vars \/ Environment
  BY <1>1, WorldStepType DEF vars, worldVars, controller, Environment, TypeInv, TypeOK
<1>2. CASE \E f \in BOOLEAN : LoadCursor(f)
  BY <1>2 DEF LoadCursor, worldVars, controller
<1>3. ASSUME Progress, ~PublishCreate
      PROVE  filed' = filed
  BY <1>3 DEF Progress, LatestStable, ListRepos, GetHeadSHA, GetGoMod,
     GetMaintainerConfig, OpenUpdatePRGate, SuppressInFlight, SkipRepo,
     SkipCompleted, NotMerged, CompleteTask, SaveCursor, worldVars, controller
<1>4. ASSUME Failure, ~PublishFails
      PROVE  filed' = filed
  BY <1>4 DEF Failure, AbortEarly, DropRepo, RateLimited, CompleteFails,
     MergedCallFails, MergedRateLimited, Cancelled, SaveFails, Crash, LoseCursor,
     worldVars, controller
<1>5. Emitting
  BY <1>1, <1>2, <1>3, <1>4 DEF Emitting, Next
<1>6. t = CurrentTask /\ ~EmissionInFlight(Current) /\ SkipReason(Current) = Pass
  BY <1>5 DEF Emitting, PublishCreate, PublishFails
<1> QED BY <1>5, <1>6, EmissionEvidence

\* No second task for one release while the first one's claim lives.
THEOREM ClaimHolds == Spec => NoSecondTask
<1>1. TypeInv /\ ClaimsInv /\ [Next]_vars => TypeInv' /\ ClaimsInv'
  BY TypeStep, ClaimsStep
<1>2. TypeInv /\ ClaimsInv /\ [Next]_vars =>
        [\A t \in filed' \ filed : emitted[t.repo].go = t.go => ClaimEnded(t.repo)]_vars
  <2>1. SUFFICES ASSUME TypeInv, ClaimsInv, [Next]_vars,
                        NEW t \in filed' \ filed, emitted[t.repo].go = t.go
                 PROVE  ClaimEnded(t.repo)
    OBVIOUS
  <2>2. /\ t = CurrentTask /\ pc = "decide" /\ Current \in Repo
        /\ ~EmissionInFlight(Current) /\ SkipReason(Current) = Pass
    BY <2>1, NewTask
  <2>3. t.repo = Current /\ t.go = latestGo
    BY <2>2 DEF CurrentTask
  <2>4. latestGo # None
    BY <2>1, <2>2, WorldAssumption DEF TypeInv, ControlInv, Version, None
  <2>5. CASE mem[Current].inFlightTarget = latestGo
    BY <2>1, <2>2, <2>3, <2>4, <2>5, ClearedClaimEnded
  <2>6. CASE mem[Current].inFlightTarget # latestGo
    <3>1. Claim(mem[Current]) # <<emitted[Current].go, emitted[Current].at>>
      BY <2>1, <2>3, <2>6 DEF Claim
    <3> QED BY <2>1, <2>2, <2>3, <2>4, <3>1 DEF ClaimsInv, ClaimInv, Effective
  <2> QED BY <2>5, <2>6
<1> QED BY <1>1, <1>2, TypeInit, ClaimsInit, PTL DEF Spec, NoSecondTask

-----------------------------------------------------------------------------
(* The open-PR gate *)

\* The shield of an open pull request that shows is up to date, and the gate
\* has let through nothing that is behind it.
ShieldInv ==
  /\ \A r \in shielded : HasOpenUpdatePR(r)
  /\ pc = "decide" => Current \notin shielded

\* At the start no cycle is running.
LEMMA ShieldInit == Init => ShieldInv
  BY DEF Init, ShieldInv

\* A repository whose pull request stays on the page never reaches the verdict.
LEMMA ShieldStep ==
  ASSUME TypeInv, ShieldInv, [Next]_vars
  PROVE  ShieldInv'
<1>1. CASE UNCHANGED vars
  BY <1>1 DEF vars, worldVars, github, cycleVars, historyVars, ShieldInv, HasOpenUpdatePR, Current
<1>2. CASE Environment
  BY <1>2 DEF Environment, cycleVars, ShieldInv, HasOpenUpdatePR, Current
<1>3. ASSUME (\E f \in BOOLEAN : LoadCursor(f)) \/ Progress \/ Failure
      PROVE  ShieldInv'
  <2>1. open' = open /\ buried' = buried
    BY <1>3, CycleStepWorld DEF github
  <2>2. pc' = "decide" => OpenUpdatePRGate
    BY <1>3 DEF LoadCursor, Progress, Failure, LatestStable, ListRepos, GetHeadSHA, GetGoMod,
       GetMaintainerConfig, SuppressInFlight, SkipRepo, PublishCreate, SkipCompleted,
       NotMerged, CompleteTask, SaveCursor, AbortEarly, DropRepo, RateLimited, PublishFails,
       CompleteFails, MergedCallFails, MergedRateLimited, Cancelled, SaveFails, Crash,
       LoseCursor, NextRepo, NextMerged, GoTo, IdleCycle, cycleVars
  <2>3. \A r \in shielded' : HasOpenUpdatePR(r)'
    <3>1. shielded' \subseteq shielded \/ shielded' = {r \in Repo : HasOpenUpdatePR(r)}
      BY <1>3 DEF LoadCursor, Progress, Failure, LatestStable, ListRepos, GetHeadSHA, GetGoMod,
         GetMaintainerConfig, OpenUpdatePRGate, SuppressInFlight, SkipRepo, PublishCreate,
         SkipCompleted, NotMerged, CompleteTask, SaveCursor, AbortEarly, DropRepo, RateLimited,
         PublishFails, CompleteFails, MergedCallFails, MergedRateLimited, Cancelled, SaveFails,
         Crash, LoseCursor, ForgetUnsaved, historyVars
    <3> QED BY <2>1, <3>1 DEF ShieldInv, HasOpenUpdatePR
  <2>4. ASSUME OpenUpdatePRGate, pc' = "decide"
        PROVE  Current' \notin shielded'
    <3>1. ~HasOpenUpdatePR(Current) /\ GoTo("decide") /\ shielded' = shielded
      BY <2>4 DEF OpenUpdatePRGate, NextRepo, historyVars
    <3> QED BY <3>1 DEF ShieldInv, GoTo, Current
  <2> QED BY <2>2, <2>3, <2>4 DEF ShieldInv
<1> QED BY <1>1, <1>2, <1>3 DEF Next

\* No task beside a pull request that was open, and on the first page, since
\* before the cycle began.
THEOREM GateHolds == Spec => NoTaskBesideOpenPR
<1>1. TypeInv /\ ShieldInv /\ [Next]_vars => TypeInv' /\ ShieldInv'
  BY TypeStep, ShieldStep
<1>2. ShieldInv => (PublishCreate \/ PublishFails => Current \notin shielded)
  BY DEF ShieldInv, PublishCreate, PublishFails
<1> QED BY <1>1, <1>2, TypeInit, ShieldInit, PTL DEF Spec, NoTaskBesideOpenPR

=============================================================================

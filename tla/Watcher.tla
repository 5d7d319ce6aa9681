------------------------------ MODULE Watcher ------------------------------
(***************************************************************************)
(* One poll cycle of pkg/watcher.go after another, against a world that    *)
(* does not wait for it.  Every call the cycle makes to GitHub, to go.dev  *)
(* or to Kafka is a step of its own, so commits, merges, releases and the  *)
(* agent come between any two of them; what the code does locally between  *)
(* two calls belongs to the step of the call before or after it.           *)
(*                                                                         *)
(* Two cycles never run at once (pkg/cyclegate.go, module CycleGate), and  *)
(* the cursor is read at the start of a cycle and written at its end, so   *)
(* the file is one value here (module CursorStore takes it apart).         *)
(***************************************************************************)
EXTENDS World, FilterChain

CONSTANTS
  Allowlist,    \* the operator's allowlist, {} allows every repository
  Listings,     \* the sequences of repositories ListRepos may return
  InFlightTTL,  \* ticks an emission claim outlives
  MaxFaults     \* bound: failing calls, crashes and shutdowns

ASSUME WatcherAssumption ==
  /\ Allowlist \subseteq Repo
  /\ Listings \subseteq Seq(Repo)
  /\ InFlightTTL \in Nat
  /\ MaxFaults \in Nat

VARIABLES
  disk,      \* the cursor file
  pc,        \* the next call of the running cycle, "idle" between cycles
  force,     \* the running cycle is a forced one
  mem,       \* the cursor in memory
  latestGo,  \* the cycle's target version
  listing,   \* what ListRepos returned
  i,         \* index of the repository the cycle is at
  cand,      \* the candidate gatherCandidate has collected so far
  faults     \* failing calls, crashes and shutdowns so far

cycleVars == <<pc, force, mem, latestGo, listing, i, cand>>

\* History.  No action reads these; the properties do.
VARIABLES
  emitted,   \* emitted[r]: version and time of the last create command for r
  evidence,  \* what has happened to r since then that ends its claim
  forgot,    \* completed tasks the cursor has lost track of since
  shielded   \* repositories that showed an open update PR all this cycle

historyVars == <<emitted, evidence, forgot, shielded>>
vars == <<worldVars, disk, cycleVars, faults, historyVars>>

-----------------------------------------------------------------------------
(* The cursor *)

RepoState ==
  [lastSeenHeadSHA   : SHA \cup {None},
   lastSeenGoVersion : Version \cup {None},
   completedHeadSHA  : SHA \cup {None},
   inFlightTarget    : Version \cup {None},
   inFlightSince     : 0..MaxTime]

\* What a repository without an entry reads as.
NoState ==
  [lastSeenHeadSHA   |-> None,
   lastSeenGoVersion |-> None,
   completedHeadSHA  |-> None,
   inFlightTarget    |-> None,
   inFlightSince     |-> 0]

Cursor     == [Repo -> RepoState]
ColdCursor == [r \in Repo |-> NoState]

\* The emission claim of a repository's entry.
Claim(s) == <<s.inFlightTarget, s.inFlightSince>>

\* clearInFlight drops the claim, and only the claim, when it targets target.
ClearInFlight(s, target) ==
  IF s.inFlightTarget = target
  THEN [s EXCEPT !.inFlightTarget = None, !.inFlightSince = 0]
  ELSE s

\* Mutant: the completed marker is not carried over.
PublishedUnmarked(s, h, v) ==
  [NoState EXCEPT !.lastSeenHeadSHA = h, !.lastSeenGoVersion = v,
                  !.inFlightTarget = v, !.inFlightSince = now]

\* markPublished renews the whole entry and carries the completed marker over.
Published(s, h, v) ==
  [lastSeenHeadSHA   |-> h,
   lastSeenGoVersion |-> v,
   completedHeadSHA  |-> s.completedHeadSHA,
   inFlightTarget    |-> v,
   inFlightSince     |-> now]

\* Mutant: a claim expires at its TTL, not past it.
InFlightExpiredEarly(s) == now - s.inFlightSince >= InFlightTTL

InFlightExpired(s) == now - s.inFlightSince > InFlightTTL

\* Mutant: the completion is derived from this cycle's release.
RecordedTaskOfCycle(r) ==
  [repo |-> r, go |-> latestGo, sha |-> mem[r].lastSeenHeadSHA]

\* The task completeTask derives from the cursor entry of r.
RecordedTask(r) ==
  [repo |-> r, go |-> mem[r].lastSeenGoVersion, sha |-> mem[r].lastSeenHeadSHA]

-----------------------------------------------------------------------------
(* The candidate *)

Candidate ==
  [headSHA : SHA \cup {None}, goMod : GoMod, consent : Consent]

NoCandidate == [headSHA |-> None, goMod |-> NoGoMod, consent |-> "undecided"]

GoBehind == Behind(cand.goMod, latestGo)

\* The view of the candidate the filter chain gets.
FilterCandidate(r) ==
  [repo          |-> r,
   headSHA       |-> cand.headSHA,
   latestGo      |-> latestGo,
   goModPresent  |-> cand.goMod # NoGoMod,
   goModParsable |-> cand.goMod \in Version,
   goBehind      |-> GoBehind,
   consent       |-> cand.consent]

SkipReason(r) ==
  CycleFilter(force, Allowlist, mem[r].lastSeenHeadSHA,
              mem[r].lastSeenGoVersion, None, FilterCandidate(r))

-----------------------------------------------------------------------------
(* History *)

\* The facts about r that end a claim on version v: its update has an open
\* pull request, or its go.mod is not behind v any more.
EndsClaim(r, v) ==
  {e \in {"open_pr", "converged"} :
     \/ e = "open_pr" /\ OpenUpdatePR(r)
     \/ e = "converged" /\ ~Behind(HeadCommit(r).goMod, v)}

NeverEmitted == [go |-> None, at |-> 0]

RecordEmission(r, extra) ==
  /\ emitted' = [emitted EXCEPT ![r] = [go |-> latestGo, at |-> now]]
  /\ evidence' = [evidence EXCEPT ![r] = EndsClaim(r, latestGo) \cup extra]

\* The in-memory cursor is dropped: what it says beyond the file is lost.
ForgetUnsaved ==
  /\ evidence' = [r \in Repo |->
       IF Claim(mem[r]) # Claim(disk[r])
       THEN evidence[r] \cup {"lost"} ELSE evidence[r]]
  /\ forgot' = forgot \cup {t \in completed :
       mem[t.repo].completedHeadSHA # disk[t.repo].completedHeadSHA}
  /\ shielded' = {}
  /\ UNCHANGED emitted

-----------------------------------------------------------------------------
(* Control *)

Current == listing[i]

IdleCycle ==
  /\ pc' = "idle"
  /\ force' = FALSE
  /\ mem' = ColdCursor
  /\ latestGo' = None
  /\ listing' = <<>>
  /\ i' = 1
  /\ cand' = NoCandidate

\* Mutant: the loop runs one past the end of the listing.
NextRepoPastEnd ==
  /\ IF i <= Len(listing) THEN pc' = "head_sha" /\ i' = i + 1
                          ELSE pc' = "merged" /\ i' = 1
  /\ cand' = NoCandidate
  /\ UNCHANGED <<force, latestGo, listing>>

\* On to the next repository of processRepos, or to the merge-detection pass.
NextRepo ==
  /\ IF i < Len(listing) THEN pc' = "head_sha" /\ i' = i + 1
                         ELSE pc' = "merged" /\ i' = 1
  /\ cand' = NoCandidate
  /\ UNCHANGED <<force, latestGo, listing>>

\* On to the next repository of completeMergedUpdates, or to the save.
NextMerged ==
  /\ IF i < Len(listing) THEN pc' = "merged" /\ i' = i + 1
                         ELSE pc' = "save" /\ i' = 1
  /\ UNCHANGED <<force, latestGo, listing, cand>>

\* On to the next call for the same repository.
GoTo(step) ==
  /\ pc' = step
  /\ UNCHANGED <<force, mem, latestGo, listing, i>>

Fault ==
  /\ faults < MaxFaults
  /\ faults' = faults + 1

-----------------------------------------------------------------------------
(* Poll, up to the first repository *)

\* LoadCursor on a readable file.
LoadCursor(f) ==
  /\ pc = "idle"
  /\ pc' = "latest_stable"
  /\ force' = f
  /\ mem' = disk
  /\ shielded' = {r \in Repo : HasOpenUpdatePR(r)}
  /\ UNCHANGED <<worldVars, disk, latestGo, listing, i, cand, faults,
                 emitted, evidence, forgot>>

LatestStable ==
  /\ pc = "latest_stable"
  /\ latestGo' = latest
  /\ pc' = "list_repos"
  /\ UNCHANGED <<worldVars, disk, force, mem, listing, i, cand, faults, historyVars>>

ListRepos ==
  /\ pc = "list_repos"
  /\ listing' \in Listings
  /\ pc' = IF listing' = <<>> THEN "save" ELSE "head_sha"
  /\ UNCHANGED <<worldVars, disk, force, mem, latestGo, i, cand, faults, historyVars>>

\* The cursor file cannot be read, go.dev fails, or ListRepos fails: the
\* cycle ends before it has changed anything.
AbortEarly ==
  /\ pc \in {"idle", "latest_stable", "list_repos"}
  /\ Fault
  /\ IdleCycle
  /\ shielded' = {}
  /\ UNCHANGED <<worldVars, disk, emitted, evidence, forgot>>

-----------------------------------------------------------------------------
(* processRepos: gatherCandidate and the open-PR gate *)

GetHeadSHA ==
  /\ pc = "head_sha"
  /\ cand' = [cand EXCEPT !.headSHA = HeadOf(Current)]
  /\ GoTo("go_mod")
  /\ UNCHANGED <<worldVars, disk, faults, historyVars>>

GetGoMod ==
  /\ pc = "go_mod"
  /\ cand' = [cand EXCEPT !.goMod = HeadCommit(Current).goMod]
  /\ GoTo("maintainer_config")
  /\ UNCHANGED <<worldVars, disk, faults, historyVars>>

\* A malformed .maintainer.yaml drops the repository from the cycle.
GetMaintainerConfig ==
  /\ pc = "maintainer_config"
  /\ LET consent == HeadCommit(Current).consent IN
     IF consent = "malformed"
     THEN NextRepo /\ UNCHANGED mem
     ELSE /\ cand' = [cand EXCEPT !.consent = consent]
          /\ GoTo("open_update_pr")
  /\ UNCHANGED <<worldVars, disk, faults, historyVars>>

\* Mutant: no open-PR gate, as before spec 003.
NoOpenUpdatePRGate ==
  /\ pc = "open_update_pr"
  /\ GoTo("decide")
  /\ UNCHANGED <<cand, worldVars, disk, faults, historyVars>>

\* Mutant: the claim is dropped before the answer is looked at.
OpenUpdatePRGateClearing ==
  /\ pc = "open_update_pr"
  /\ mem' = [mem EXCEPT ![Current] = ClearInFlight(@, latestGo)]
  /\ IF HasOpenUpdatePR(Current)
     THEN NextRepo
     ELSE /\ pc' = "decide"
          /\ UNCHANGED <<force, latestGo, listing, i, cand>>
  /\ UNCHANGED <<worldVars, disk, faults, historyVars>>

\* gateRepo: an open update pull request ends the claim on this cycle's
\* target and drops the repository from the cycle.
OpenUpdatePRGate ==
  /\ pc = "open_update_pr"
  /\ IF HasOpenUpdatePR(Current)
     THEN /\ mem' = [mem EXCEPT ![Current] = ClearInFlight(@, latestGo)]
          /\ NextRepo
     ELSE GoTo("decide") /\ UNCHANGED cand
  /\ UNCHANGED <<worldVars, disk, faults, historyVars>>

\* A call for one repository fails: the repository is dropped from the cycle.
DropRepo ==
  /\ pc \in {"head_sha", "go_mod", "maintainer_config", "open_update_pr"}
  /\ Fault
  /\ NextRepo
  /\ UNCHANGED <<worldVars, disk, mem, historyVars>>

\* A call is rate limited: the cycle ends and the cursor is not saved.
RateLimited ==
  /\ pc \in {"head_sha", "go_mod", "maintainer_config", "open_update_pr"}
  /\ Fault
  /\ ForgetUnsaved
  /\ IdleCycle
  /\ UNCHANGED <<worldVars, disk>>

-----------------------------------------------------------------------------
(* processRepos: the verdict on the candidate *)

\* Mutant: the claim has no TTL.
EmissionInFlightForever(r) ==
  /\ mem[r].inFlightTarget = latestGo
  /\ GoBehind

\* The claim on the cycle's target is live: same target, still behind, young.
EmissionInFlight(r) ==
  /\ mem[r].inFlightTarget = latestGo
  /\ GoBehind
  /\ ~InFlightExpired(mem[r])

\* What emissionInFlight leaves of the entry when the claim is not live.
Settled(r) == ClearInFlight(mem[r], latestGo)

CurrentTask == [repo |-> Current, go |-> latestGo, sha |-> cand.headSHA]

SuppressInFlight ==
  /\ pc = "decide"
  /\ EmissionInFlight(Current)
  /\ NextRepo
  /\ UNCHANGED <<worldVars, disk, mem, faults, historyVars>>

\* A filter skips the repository.  When the reason is that nobody has
\* answered the consent question, the decision task is sent, and whether
\* the send succeeds changes nothing in the watcher.
SkipRepo ==
  /\ pc = "decide"
  /\ ~EmissionInFlight(Current)
  /\ SkipReason(Current) # Pass
  /\ IF SkipReason(Current) = "auto_update_undecided"
     THEN \/ decisions' = decisions \cup {Current} /\ UNCHANGED faults
          \/ Fault /\ UNCHANGED decisions
     ELSE UNCHANGED <<decisions, faults>>
  /\ mem' = [mem EXCEPT ![Current] = Settled(Current)]
  /\ NextRepo
  /\ UNCHANGED <<github, latest, now, filed, completed, disk, historyVars>>

\* PublishCreate succeeds and markPublished records it.
PublishCreate ==
  /\ pc = "decide"
  /\ ~EmissionInFlight(Current)
  /\ SkipReason(Current) = Pass
  /\ filed' = filed \cup {CurrentTask}
  /\ mem' = [mem EXCEPT ![Current] = Published(@, cand.headSHA, latestGo)]
  /\ RecordEmission(Current, {})
  /\ NextRepo
  /\ UNCHANGED <<github, latest, now, completed, decisions, disk, faults,
                 forgot, shielded>>

\* Mutant: the entry is marked before the outcome of the send is known.
PublishFailsMarked ==
  /\ pc = "decide"
  /\ ~EmissionInFlight(Current)
  /\ SkipReason(Current) = Pass
  /\ Fault
  /\ mem' = [mem EXCEPT ![Current] = Published(@, cand.headSHA, latestGo)]
  /\ NextRepo
  /\ UNCHANGED <<worldVars, disk, historyVars>>

\* PublishCreate reports an error: the command was lost, or it was delivered
\* and only its acknowledgement was.  Nothing is recorded either way.
PublishFails ==
  /\ pc = "decide"
  /\ ~EmissionInFlight(Current)
  /\ SkipReason(Current) = Pass
  /\ Fault
  /\ \/ /\ filed' = filed \cup {CurrentTask}
        /\ RecordEmission(Current, {"lost"})
     \/ UNCHANGED <<filed, emitted, evidence>>
  /\ mem' = [mem EXCEPT ![Current] = Settled(Current)]
  /\ NextRepo
  /\ UNCHANGED <<github, latest, now, completed, decisions, disk, forgot,
                 shielded>>

-----------------------------------------------------------------------------
(* completeMergedUpdates *)

\* No task was filed for the entry, or its completion has been published.
NothingToComplete(s) == s.lastSeenHeadSHA \in {None, s.completedHeadSHA}

MergedUpdate(r) == GetMergedUpdatePR(r, mem[r].lastSeenHeadSHA)

SkipCompleted ==
  /\ pc = "merged"
  /\ NothingToComplete(mem[Current])
  /\ NextMerged
  /\ UNCHANGED <<worldVars, disk, mem, faults, historyVars>>

NotMerged ==
  /\ pc = "merged"
  /\ ~NothingToComplete(mem[Current])
  /\ ~MergedUpdate(Current)
  /\ NextMerged
  /\ UNCHANGED <<worldVars, disk, mem, faults, historyVars>>

\* The complete command is sent and the entry marked.
CompleteTask(r) ==
  /\ pc = "merged"
  /\ r = Current
  /\ ~NothingToComplete(mem[r])
  /\ MergedUpdate(r)
  /\ completed' = completed \cup {RecordedTask(r)}
  /\ mem' = [mem EXCEPT ![r].completedHeadSHA = mem[r].lastSeenHeadSHA]
  /\ forgot' = forgot \ {RecordedTask(r)}
  /\ NextMerged
  /\ UNCHANGED <<github, latest, now, filed, decisions, disk, faults, emitted,
                 evidence, shielded>>

\* Mutant: the entry is marked before the outcome of the send is known.
CompleteFailsMarked ==
  /\ pc = "merged"
  /\ ~NothingToComplete(mem[Current])
  /\ MergedUpdate(Current)
  /\ Fault
  /\ mem' = [mem EXCEPT ![Current].completedHeadSHA = mem[Current].lastSeenHeadSHA]
  /\ NextMerged
  /\ UNCHANGED <<worldVars, disk, historyVars>>

\* The send reports an error; the command may have been delivered all the same.
CompleteFails ==
  /\ pc = "merged"
  /\ ~NothingToComplete(mem[Current])
  /\ MergedUpdate(Current)
  /\ Fault
  /\ \/ /\ completed' = completed \cup {RecordedTask(Current)}
        /\ forgot' = forgot \cup {RecordedTask(Current)}
     \/ UNCHANGED <<completed, forgot>>
  /\ NextMerged
  /\ UNCHANGED <<github, latest, now, filed, decisions, disk, mem, emitted, evidence,
                 shielded>>

\* GetMergedUpdatePR fails: the repository waits for the next cycle.
MergedCallFails ==
  /\ pc = "merged"
  /\ ~NothingToComplete(mem[Current])
  /\ Fault
  /\ NextMerged
  /\ UNCHANGED <<worldVars, disk, mem, historyVars>>

\* Mutant: this abort leaves out the save, as the other ones do.
MergedRateLimitedUnsaved ==
  /\ pc = "merged"
  /\ ~NothingToComplete(mem[Current])
  /\ Fault
  /\ IdleCycle
  /\ UNCHANGED <<worldVars, disk, historyVars>>

\* GetMergedUpdatePR is rate limited: the pass ends and the cursor is saved.
MergedRateLimited ==
  /\ pc = "merged"
  /\ ~NothingToComplete(mem[Current])
  /\ Fault
  /\ GoTo("save")
  /\ UNCHANGED <<worldVars, disk, cand, historyVars>>

-----------------------------------------------------------------------------
(* The end of the cycle *)

\* The context is cancelled: both passes stop before their next repository.
Cancelled ==
  /\ pc \in {"head_sha", "merged"}
  /\ Fault
  /\ GoTo("save")
  /\ UNCHANGED <<worldVars, disk, cand, historyVars>>

\* Mutant: the save keeps only the entries of the repositories listed.
SaveCursorPruned ==
  /\ pc = "save"
  /\ disk' = [r \in Repo |->
       IF \E n \in DOMAIN listing : listing[n] = r THEN mem[r] ELSE NoState]
  /\ IdleCycle
  /\ shielded' = {}
  /\ UNCHANGED <<worldVars, faults, emitted, evidence, forgot>>

SaveCursor ==
  /\ pc = "save"
  /\ disk' = mem
  /\ IdleCycle
  /\ shielded' = {}
  /\ UNCHANGED <<worldVars, faults, emitted, evidence, forgot>>

\* SaveCursor fails, which Poll only logs.
SaveFails ==
  /\ pc = "save"
  /\ Fault
  /\ ForgetUnsaved
  /\ IdleCycle
  /\ UNCHANGED <<worldVars, disk>>

\* The process dies in the middle of a cycle and is started again.
Crash ==
  /\ pc # "idle"
  /\ Fault
  /\ ForgetUnsaved
  /\ IdleCycle
  /\ UNCHANGED <<worldVars, disk>>

\* The cursor file goes missing or turns corrupt: LoadCursor starts cold.
\* Between two cycles is the only time that matters, for a running cycle
\* has read the file already and replaces it.
LoseCursor ==
  /\ pc = "idle"
  /\ Fault
  /\ disk' = ColdCursor
  /\ evidence' = [r \in Repo |->
       IF Claim(disk[r]) # Claim(NoState)
       THEN evidence[r] \cup {"lost"} ELSE evidence[r]]
  /\ forgot' = completed
  /\ UNCHANGED <<worldVars, cycleVars, emitted, shielded>>

-----------------------------------------------------------------------------
(* Specification *)

Init ==
  /\ WorldInit
  /\ disk = ColdCursor
  /\ pc = "idle"
  /\ force = FALSE
  /\ mem = ColdCursor
  /\ latestGo = None
  /\ listing = <<>>
  /\ i = 1
  /\ cand = NoCandidate
  /\ faults = 0
  /\ emitted = [r \in Repo |-> NeverEmitted]
  /\ evidence = [r \in Repo |-> {}]
  /\ forgot = {}
  /\ shielded = {}

Environment ==
  /\ WorldStep
  /\ UNCHANGED <<disk, cycleVars, faults, emitted, forgot>>
  /\ evidence' = [r \in Repo |->
       IF emitted[r].go = None THEN evidence[r]
       ELSE evidence[r] \cup EndsClaim(r, emitted[r].go)']
  /\ shielded' = {r \in shielded : HasOpenUpdatePR(r)'}

\* What the cycle does when its calls succeed.
Progress ==
  \/ LatestStable \/ ListRepos
  \/ GetHeadSHA \/ GetGoMod \/ GetMaintainerConfig \/ OpenUpdatePRGate
  \/ SuppressInFlight \/ SkipRepo \/ PublishCreate
  \/ SkipCompleted \/ NotMerged \/ (\E r \in Repo : CompleteTask(r))
  \/ SaveCursor

Failure ==
  \/ AbortEarly \/ DropRepo \/ RateLimited \/ PublishFails
  \/ CompleteFails \/ MergedCallFails \/ MergedRateLimited
  \/ Cancelled \/ SaveFails \/ Crash \/ LoseCursor

Next ==
  \/ Environment
  \/ \E f \in BOOLEAN : LoadCursor(f)
  \/ Progress
  \/ Failure

Spec == Init /\ [][Next]_vars

\* The poll loop starts a cycle on every tick of its interval, and every call
\* of a cycle returns (its HTTP client and producer have timeouts).  Nothing
\* is assumed of the world, nor that anybody forces a cycle.
FairSpec == Spec /\ WF_vars(LoadCursor(FALSE) \/ Progress)

-----------------------------------------------------------------------------
(* Type correctness *)

Step == {"idle", "latest_stable", "list_repos", "head_sha", "go_mod",
         "maintainer_config", "open_update_pr", "decide", "merged", "save"}

\* Steps at which the cycle is at repository listing[i].
AtRepo == {"head_sha", "go_mod", "maintainer_config", "open_update_pr",
           "decide", "merged"}

CycleTypeOK ==
  /\ pc \in Step
  /\ force \in BOOLEAN
  /\ latestGo \in Version \cup {None}
  /\ listing \in Seq(Repo)
  /\ i \in Nat \ {0}
  /\ pc \in AtRepo => i <= Len(listing)
  /\ cand \in Candidate

HistoryTypeOK ==
  /\ emitted \in [Repo -> [go : Version \cup {None}, at : 0..MaxTime]]
  /\ evidence \in [Repo -> SUBSET {"open_pr", "converged", "lost"}]
  /\ forgot \subseteq Task
  /\ shielded \subseteq Repo

\* The state the steps of a cycle leave behind is always one the next step of
\* the loops in processRepos and completeMergedUpdates can work on.
TypeOK ==
  /\ WorldTypeOK
  /\ CycleTypeOK
  /\ disk \in Cursor /\ mem \in Cursor
  /\ faults \in 0..MaxFaults
  /\ HistoryTypeOK

-----------------------------------------------------------------------------
(* Safety *)

Allowed(r) == Allowlist = {} \/ r \in Allowlist

\* Some commit of r from h on was behind v, and that one or a later one held
\* consent c: the order GetHeadSHA, GetGoMod, GetMaintainerConfig reads in.
Observed(r, h, v, c) ==
  \E j \in h..HeadOf(r) :
    /\ Behind(commits[r][j].goMod, v)
    /\ \E k \in j..HeadOf(r) : commits[r][k].consent = c

\* A task is only ever filed for a repository in the operator's scope whose
\* owner had granted consent, and which was behind the release the task is
\* for, at the named HEAD or since (pkg/filter, pkg/watcher.go:181).
FiledJustified ==
  \A t \in filed :
    /\ Allowed(t.repo)
    /\ t.go <= latest
    /\ Observed(t.repo, t.sha, t.go, "granted")

\* The consent question is only ever asked of the owner of a repository that
\* would get a task but for the missing answer (pkg/watcher.go:189-209).
DecisionJustified ==
  \A r \in decisions : Allowed(r) /\ Observed(r, 1, latest, "undecided")

\* Only a task that was filed is ever completed, and only after a pull
\* request from its branch merged (pkg/watcher.go:468-566).
CompletedJustified ==
  \A t \in completed : t \in filed /\ MergedUpdatePR(t.repo, t.sha)

\* Since the last create command for r was sent, its update has been seen to
\* land (or to be needless), the claim outlived its TTL, or the cursor lost it.
ClaimEnded(r) ==
  evidence[r] # {} \/ now - emitted[r].at > InFlightTTL

\* A repository gets a second, distinct task for the same Go release only
\* after the first one's claim has ended, whatever commits, forced cycles,
\* failing calls and aborted cycles come between (docs/dod.md:32).
NoSecondTask ==
  [][\A t \in filed' \ filed :
       emitted[t.repo].go = t.go => ClaimEnded(t.repo)]_vars

\* No create command is sent for a repository whose update pull request has
\* been open, and among the hundred newest open ones, since before the cycle
\* began (pkg/watcher.go:260-302; one behind a full page the gate does not
\* see, pkg/githubclient.go:399-406).
NoTaskBesideOpenPR ==
  [][PublishCreate \/ PublishFails => Current \notin shielded]_vars

\* The merge of the update of one commit completes one task: neither that
\* task again nor one filed for the same commit since, unless the cursor has
\* lost the marker (pkg/watcher.go:134-143, 237, 494-500, 528-566).
NoSecondCompletion ==
  [][\A r \in Repo : CompleteTask(r) =>
       ~ \E t \in completed \ forgot :
           t.repo = r /\ t.sha = mem[r].lastSeenHeadSHA]_vars

\* processRepos is done with a repository and no call for it has failed.
Leaves ==
  /\ pc \in {"maintainer_config", "open_update_pr", "decide"}
  /\ pc' \in {"head_sha", "merged"}
  /\ UNCHANGED faults

\* At some time since its HEAD was h, r was not behind v or had no consent.
Unfit(r, h, v) ==
  \E j \in h..HeadOf(r) :
    ~Behind(commits[r][j].goMod, v) \/ commits[r][j].consent # "granted"

\* A cycle passes over a repository only because it is out of scope, has its
\* update open, was not to be updated when it was looked at, was filed for at
\* that HEAD and for that release before (which does not hold back a forced
\* cycle), or has been sent a create command for that release within the TTL
\* (pkg/watcher.go:175-262).
PassedOverForAReason ==
  [][Leaves =>
       \/ ~Allowed(Current)
       \/ HasOpenUpdatePR(Current)
       \/ Unfit(Current, cand.headSHA, latestGo)
       \/ ~force /\ CurrentTask \in filed
       \/ /\ emitted'[Current].go = latestGo
          /\ now - emitted'[Current].at <= InFlightTTL]_vars

\* The task the entry of r in the cursor file names.
SavedTask(r) ==
  [repo |-> r, go |-> disk[r].lastSeenGoVersion, sha |-> disk[r].lastSeenHeadSHA]

\* Whatever fails, and whenever the process dies, the cursor file claims
\* nothing that has not happened: the task an entry names was filed, the one
\* its marker names was completed, and its claim is that of a task filed.
CursorTruthful ==
  \A r \in Repo :
    /\ disk[r].lastSeenHeadSHA # None => SavedTask(r) \in filed
    /\ disk[r].completedHeadSHA # None =>
         \E t \in completed : t.repo = r /\ t.sha = disk[r].completedHeadSHA
    /\ disk[r].inFlightTarget # None =>
         \E t \in filed : t.repo = r /\ t.go = disk[r].inFlightTarget

\* The release a claim on r that has not ended is for.
LiveClaim(r) ==
  IF emitted[r].go = None \/ ClaimEnded(r) THEN None ELSE emitted[r].go

\* The commands the watcher sends, seen from outside, are those of module
\* TaskLedger: a claim ends and a completion is forgotten only because of the
\* world or of a fault (pkg/watcher.go:108-151, 250-262, 390-414, 523-566).
Ledger == INSTANCE TaskLedger
            WITH world <- <<commits, open, buried, latest, now>>,
                 claim <- [r \in Repo |-> LiveClaim(r)],
                 settled <- completed \ forgot

KeepsLedger == Ledger!Spec

-----------------------------------------------------------------------------
(* Liveness, under FairSpec *)

Listed(r) == \A l \in Listings : \E n \in DOMAIN l : l[n] = r

\* r is behind the newest release, in scope, listed and not being updated.
Pending(r, c) ==
  /\ Allowed(r) /\ Listed(r)
  /\ Behind(HeadCommit(r).goMod, latest)
  /\ HeadCommit(r).consent = c
  /\ ~OpenUpdatePR(r)

\* A consenting repository that stays behind has in the end a task for the
\* newest release there is, with or without a new commit and whatever was
\* filed for an older release (pkg/filter/sha_unchanged_filter.go:28).
BehindIsFiled ==
  \A r \in Repo : <>[]Pending(r, "granted") =>
    <>[](\E t \in filed : t.repo = r /\ t.go = latest)

\* A claim on the newest release is in the file and has not expired.
Claimed(r) == disk[r].inFlightTarget = latest /\ ~InFlightExpired(disk[r])

\* A repository that stays behind and undecided gets its decision task, once
\* no claim from a time its owner consented is in the way (the claim is looked
\* at before the filters are, pkg/watcher.go:185-211).
UndecidedIsAsked ==
  \A r \in Repo :
    <>[](Pending(r, "undecided") /\ ~Claimed(r)) => <>(r \in decisions)

\* A repository whose claim has ended and whose HEAD has moved does not stay
\* without a claim: it is filed for again (pkg/watcher.go:250-258, 390-414).
EndedClaimIsRenewed ==
  \A r \in Repo :
    ~ <>[](/\ Pending(r, "granted") /\ ~Claimed(r)
           /\ disk[r].lastSeenHeadSHA # HeadOf(r))

\* A merge that shows, of an update whose task the cursor file keeps naming,
\* completes a task of that commit, and the file ends up saying so
\* (pkg/watcher.go:130-143).
RecordedMergeIsCompleted ==
  \A r \in Repo : \A h \in SHA :
    <>[](Listed(r) /\ disk[r].lastSeenHeadSHA = h /\ GetMergedUpdatePR(r, h)) =>
      <>[](/\ disk[r].completedHeadSHA = h
           /\ \E t \in completed : t.repo = r /\ t.sha = h)

-----------------------------------------------------------------------------
(* What the documents say and the code does not do *)

\* docs/dod.md:32 lists three events that clear a claim, and spec 005 says a
\* create command sent again after a lost cursor write names the same task.
NoSecondTaskAfterLoss ==
  [][\A t \in filed' \ filed :
       emitted[t.repo].go = t.go =>
         \/ evidence[t.repo] \cap {"open_pr", "converged"} # {}
         \/ now - emitted[t.repo].at > InFlightTTL]_vars

\* Spec 005: with no claim and no open pull request left, a repository that is
\* still behind is filed for again by the next cycle.
NoClaimNoPRIsFiled ==
  \A r \in Repo :
    ~ <>[](Pending(r, "granted") /\ ~Claimed(r))

\* pkg/watcher.go:130: a repository whose update PR merged gets its task
\* completed.
MergedIsCompleted == \A t \in Task : t \in merged ~> t \in completed

\* pkg/watcher.go:468: the task closed is the one whose pull request merged.
CompletesOwnTask == \A t \in completed : t \in merged

=============================================================================

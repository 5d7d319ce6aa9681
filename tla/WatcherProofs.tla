--------------------------- MODULE WatcherProofs ---------------------------
(***************************************************************************)
(* Watcher is type correct, for every set of repositories, every bound and *)
(* every listing, and its cursor entries name only tasks that were filed.  *)
(***************************************************************************)
EXTENDS Watcher, TLAPS

\* What the next call of a cycle relies on the calls before it to have set.
ControlInv ==
  /\ pc \in {"idle", "latest_stable", "list_repos"} => i = 1
  /\ pc \notin {"idle", "latest_stable"} => latestGo \in Version
  /\ pc \in {"go_mod", "maintainer_config", "open_update_pr", "decide"} =>
       cand.headSHA \in SHA

\* An entry that names a HEAD names a task that was filed: what completeTask
\* derives from an entry alone is a task of the watcher's own.
EntriesFiled(cursor) ==
  \A r \in Repo : cursor[r].lastSeenHeadSHA # None =>
    [repo |-> r, go |-> cursor[r].lastSeenGoVersion,
     sha |-> cursor[r].lastSeenHeadSHA] \in filed

TypeInv ==
  /\ TypeOK
  /\ ControlInv
  /\ EntriesFiled(disk)
  /\ EntriesFiled(mem)

-----------------------------------------------------------------------------
(* The world *)

\* A default branch that gets a commit stays a branch of at most MaxSHA commits.
LEMMA AddCommitType ==
  ASSUME commits \in [Repo -> Seq(Commit)],
         NEW r \in Repo, NEW c \in Commit,
         AddCommit(r, c)
  PROVE  /\ commits' \in [Repo -> Seq(Commit)]
         /\ HeadOf(r)' = HeadOf(r) + 1
         /\ HeadOf(r)' <= MaxSHA
         /\ \A q \in Repo \ {r} : HeadOf(q)' = HeadOf(q)
<1>1. commits[r] \in Seq(Commit) /\ Append(commits[r], c) \in Seq(Commit)
  OBVIOUS
<1>2. Len(commits[r]) \in Nat /\ Len(Append(commits[r], c)) = Len(commits[r]) + 1
  BY <1>1
<1>3. MaxSHA \in Nat
  BY WorldAssumption
<1> QED BY <1>1, <1>2, <1>3 DEF AddCommit, HeadOf

\* The content of a repository's HEAD is a commit.
LEMMA HeadCommitType ==
  ASSUME WorldTypeOK, NEW r \in Repo
  PROVE  /\ HeadOf(r) \in SHA
         /\ HeadCommit(r) \in Commit
         /\ HeadCommit(r).goMod \in GoMod
         /\ HeadCommit(r).consent \in Consent
<1>1. commits[r] \in Seq(Commit) /\ HeadOf(r) \in SHA
  BY DEF WorldTypeOK
<1>2. HeadOf(r) \in 1..Len(commits[r])
  BY <1>1, WorldAssumption DEF SHA, HeadOf
<1>3. HeadCommit(r) \in Commit
  BY <1>1, <1>2 DEF HeadCommit
<1> QED BY <1>1, <1>3 DEF Commit

\* A step of the world keeps it well typed, files and completes nothing, and
\* un-merges nothing.
LEMMA WorldStepType ==
  ASSUME WorldTypeOK, WorldStep
  PROVE  /\ WorldTypeOK'
         /\ filed' = filed /\ completed' = completed /\ decisions' = decisions
         /\ merged \subseteq merged'
         /\ latest <= latest' /\ now <= now'
<1>1. ASSUME NEW r \in Repo, Push(r)
      PROVE  WorldTypeOK'
  <2>1. PICK c \in Contents : AddCommit(r, c)
    BY <1>1 DEF Push
  <2>2. c \in Commit
    BY WorldAssumption
  <2> QED BY <1>1, <2>1, <2>2, AddCommitType, WorldAssumption
       DEF Push, WorldTypeOK, SHA, controller, HeadOf
<1>2. ASSUME Release
      PROVE  WorldTypeOK'
  BY <1>2, WorldAssumption DEF Release, WorldTypeOK, Version, github, controller, HeadOf
<1>3. ASSUME Tick
      PROVE  WorldTypeOK'
  BY <1>3, WorldAssumption DEF Tick, WorldTypeOK, github, controller, HeadOf
<1>4. ASSUME NEW t \in Task, OpenPR(t) \/ ClosePR(t) \/ Bury(t) \/ Unbury(t)
      PROVE  WorldTypeOK'
  BY <1>4 DEF OpenPR, ClosePR, Bury, Unbury, WorldTypeOK, controller, HeadOf
<1>5. ASSUME NEW t \in Task, MergePR(t)
      PROVE  WorldTypeOK'
  <2>1. ASSUME NEW g \in {t.go, HeadCommit(t.repo).goMod},
               AddCommit(t.repo, [goMod |-> g, consent |-> HeadCommit(t.repo).consent])
        PROVE  commits' \in [Repo -> Seq(Commit)] /\ \A q \in Repo : HeadOf(q)' \in SHA
    <3>1. t.repo \in Repo /\ t.go \in Version
      BY DEF Task
    <3>2. [goMod |-> g, consent |-> HeadCommit(t.repo).consent] \in Commit
      BY <2>1, <3>1, HeadCommitType DEF Commit, GoMod
    <3>3. HeadOf(t.repo) \in Nat /\ HeadOf(t.repo) + 1 \in SHA
      BY <2>1, <3>1, WorldAssumption DEF AddCommit, WorldTypeOK, SHA
    <3> QED BY <2>1, <3>1, <3>2, <3>3, AddCommitType DEF WorldTypeOK
  <2>2. commits' \in [Repo -> Seq(Commit)] /\ \A q \in Repo : HeadOf(q)' \in SHA
    BY <1>5, <2>1 DEF MergePR, WorldTypeOK, HeadOf
  <2> QED BY <1>5, <2>2 DEF MergePR, WorldTypeOK, controller
<1>6. WorldTypeOK'
  BY <1>1, <1>2, <1>3, <1>4, <1>5 DEF WorldStep
<1>7. filed' = filed /\ completed' = completed /\ decisions' = decisions
  BY DEF WorldStep, Push, Release, Tick, OpenPR, ClosePR, MergePR, Bury, Unbury, controller
<1>8. merged \subseteq merged'
  BY DEF WorldStep, Push, Release, Tick, OpenPR, ClosePR, MergePR, Bury, Unbury, github
<1>9. latest <= latest' /\ now <= now'
  <2>1. latest \in Nat /\ now \in Nat
    BY WorldAssumption DEF WorldTypeOK, Version
  <2>2. latest' \in {latest, latest + 1} /\ now' \in {now, now + 1}
    BY DEF WorldStep, Push, Release, Tick, OpenPR, ClosePR, MergePR, Bury, Unbury
  <2> QED BY <2>1, <2>2
<1> QED BY <1>6, <1>7, <1>8, <1>9

-----------------------------------------------------------------------------
(* The cursor *)

\* An empty cursor is a cursor, and claims no task.
LEMMA ColdCursorType ==
  /\ NoState \in RepoState
  /\ ColdCursor \in Cursor
  /\ \A r \in Repo : ColdCursor[r].lastSeenHeadSHA = None
  BY WorldAssumption DEF ColdCursor, Cursor, NoState, RepoState, None

\* Clearing a claim touches the claim only.
LEMMA ClearInFlightType ==
  ASSUME NEW s \in RepoState, NEW v
  PROVE  /\ ClearInFlight(s, v) \in RepoState
         /\ ClearInFlight(s, v).lastSeenHeadSHA = s.lastSeenHeadSHA
         /\ ClearInFlight(s, v).lastSeenGoVersion = s.lastSeenGoVersion
         /\ ClearInFlight(s, v).completedHeadSHA = s.completedHeadSHA
         /\ s.inFlightTarget # v => ClearInFlight(s, v) = s
<1>1. CASE s.inFlightTarget = v
  <2>1. 0 \in 0..MaxTime
    BY WorldAssumption
  <2>2. ClearInFlight(s, v) = [s EXCEPT !.inFlightTarget = None, !.inFlightSince = 0]
    BY <1>1 DEF ClearInFlight
  <2> QED BY <1>1, <2>1, <2>2 DEF RepoState
<1>2. CASE s.inFlightTarget # v
  BY <1>2 DEF ClearInFlight
<1> QED BY <1>1, <1>2

\* A published entry names the HEAD and the version it was published for.
LEMMA PublishedType ==
  ASSUME WorldTypeOK, NEW s \in RepoState, NEW h \in SHA, NEW v \in Version
  PROVE  /\ Published(s, h, v) \in RepoState
         /\ Published(s, h, v).lastSeenHeadSHA = h
         /\ Published(s, h, v).lastSeenGoVersion = v
  BY DEF Published, RepoState, WorldTypeOK

\* Entries keep naming filed tasks while tasks are only added.
LEMMA EntriesFiledGrow ==
  ASSUME NEW c, EntriesFiled(c), filed \subseteq filed'
  PROVE  \A r \in Repo : c[r].lastSeenHeadSHA # None =>
           [repo |-> r, go |-> c[r].lastSeenGoVersion,
            sha |-> c[r].lastSeenHeadSHA] \in filed'
  BY DEF EntriesFiled

-----------------------------------------------------------------------------
(* Control *)

\* At a step for a repository the index is within the listing.
LEMMA CurrentType ==
  ASSUME CycleTypeOK, pc \in AtRepo
  PROVE  /\ Current \in Repo
         /\ i \in 1..Len(listing)
         /\ Len(listing) \in Nat
<1>1. listing \in Seq(Repo) /\ i \in Nat \ {0} /\ i <= Len(listing)
  BY DEF CycleTypeOK
<1>2. Len(listing) \in Nat /\ i \in 1..Len(listing)
  BY <1>1
<1> QED BY <1>1, <1>2 DEF Current

\* A cycle that is over leaves nothing behind in memory.
LEMMA IdleCycleType ==
  ASSUME IdleCycle
  PROVE  /\ CycleTypeOK' /\ ControlInv'
         /\ mem' \in Cursor /\ EntriesFiled(mem)'
<1>0. NoCandidate \in Candidate
  BY DEF NoCandidate, Candidate, GoMod, Consent
<1>1. CycleTypeOK'
  <2>1. listing' \in Seq(Repo)
    BY DEF IdleCycle
  <2>2. pc' \in Step /\ pc' \notin AtRepo
    BY DEF IdleCycle, Step, AtRepo
  <2>3. force' \in BOOLEAN
    BY Zenon DEF IdleCycle
  <2>4. latestGo' \in Version \cup {None} /\ i' \in Nat \ {0}
    BY DEF IdleCycle
  <2> QED BY <1>0, <2>1, <2>2, <2>3, <2>4 DEF IdleCycle, CycleTypeOK
<1>2. ControlInv'
  BY DEF IdleCycle, ControlInv
<1>3. mem' \in Cursor /\ EntriesFiled(mem)'
  BY ColdCursorType DEF IdleCycle, EntriesFiled
<1> QED BY <1>1, <1>2, <1>3

InProcessRepos == pc \in AtRepo \ {"merged"}

\* The loop of processRepos stays within the listing.
LEMMA NextRepoType ==
  ASSUME CycleTypeOK, ControlInv, InProcessRepos, NextRepo
  PROVE  CycleTypeOK' /\ ControlInv'
<1>1. i \in Nat /\ 1 <= i /\ i <= Len(listing) /\ Len(listing) \in Nat
  BY CurrentType DEF InProcessRepos
<1>2. NoCandidate \in Candidate
  BY DEF NoCandidate, Candidate, GoMod, Consent
<1>3. CycleTypeOK'
  BY <1>1, <1>2 DEF NextRepo, CycleTypeOK, Step, AtRepo
<1>4. ControlInv'
  BY DEF NextRepo, ControlInv, InProcessRepos, AtRepo
<1> QED BY <1>3, <1>4

\* The loop of completeMergedUpdates stays within the listing.
LEMMA NextMergedType ==
  ASSUME CycleTypeOK, ControlInv, pc = "merged", NextMerged
  PROVE  CycleTypeOK' /\ ControlInv'
<1>1. i \in Nat /\ 1 <= i /\ i <= Len(listing) /\ Len(listing) \in Nat
  BY CurrentType DEF AtRepo
<1>2. CycleTypeOK'
  BY <1>1 DEF NextMerged, CycleTypeOK, Step, AtRepo
<1>3. ControlInv'
  BY DEF NextMerged, ControlInv
<1> QED BY <1>2, <1>3

\* Going on to the next call for the same repository.
LEMMA GoToType ==
  ASSUME CycleTypeOK, pc \in AtRepo, NEW step \in AtRepo \cup {"save"},
         GoTo(step), cand' \in Candidate
  PROVE  CycleTypeOK'
  BY CurrentType DEF GoTo, CycleTypeOK, Step, AtRepo

-----------------------------------------------------------------------------
(* What many steps leave alone *)

\* A step that leaves the world alone keeps its types.
LEMMA WorldUnchanged ==
  ASSUME WorldTypeOK, UNCHANGED worldVars
  PROVE  WorldTypeOK' /\ filed' = filed /\ merged' = merged /\ completed' = completed
  BY DEF worldVars, github, controller, WorldTypeOK, HeadOf

\* A step that leaves the history alone keeps its types.
LEMMA HistoryUnchanged ==
  ASSUME HistoryTypeOK, UNCHANGED historyVars
  PROVE  HistoryTypeOK'
  BY DEF historyVars, HistoryTypeOK

\* Faults are bounded.
LEMMA FaultType ==
  ASSUME faults \in 0..MaxFaults, Fault
  PROVE  faults' \in 0..MaxFaults
  BY WatcherAssumption DEF Fault

\* Dropping the memory keeps the types of the history.
LEMMA ForgetUnsavedType ==
  ASSUME WorldTypeOK, HistoryTypeOK, ForgetUnsaved
  PROVE  HistoryTypeOK'
<1>1. \A r \in Repo : evidence'[r] \subseteq {"open_pr", "converged", "lost"}
  BY DEF HistoryTypeOK, ForgetUnsaved
<1>2. evidence' \in [Repo -> SUBSET {"open_pr", "converged", "lost"}]
  BY <1>1 DEF ForgetUnsaved
<1>3. forgot' \subseteq Task /\ shielded' \subseteq Repo
  BY DEF HistoryTypeOK, WorldTypeOK, ForgetUnsaved
<1> QED BY <1>2, <1>3 DEF HistoryTypeOK, ForgetUnsaved

\* Emissions are recorded with a version and a time of this world.
LEMMA RecordEmissionType ==
  ASSUME WorldTypeOK, HistoryTypeOK, latestGo \in Version,
         NEW r \in Repo, NEW extra \in SUBSET {"lost"},
         RecordEmission(r, extra), forgot' = forgot, shielded' = shielded
  PROVE  HistoryTypeOK'
<1>1. EndsClaim(r, latestGo) \cup extra \in SUBSET {"open_pr", "converged", "lost"}
  BY DEF EndsClaim
<1>2. [go |-> latestGo, at |-> now] \in [go : Version \cup {None}, at : 0..MaxTime]
  BY DEF WorldTypeOK
<1>3. emitted' \in [Repo -> [go : Version \cup {None}, at : 0..MaxTime]]
  BY <1>2 DEF RecordEmission, HistoryTypeOK
<1>4. evidence' \in [Repo -> SUBSET {"open_pr", "converged", "lost"}]
  BY <1>1 DEF RecordEmission, HistoryTypeOK
<1> QED BY <1>3, <1>4 DEF HistoryTypeOK

\* A step that sends nothing and leaves the file and the history alone.
QuietStep == UNCHANGED <<worldVars, disk, historyVars>>

\* A step of the cycle alone keeps the types of everything else.
LEMMA QuietStepType ==
  ASSUME TypeInv, QuietStep
  PROVE  /\ WorldTypeOK' /\ HistoryTypeOK'
         /\ disk' \in Cursor /\ EntriesFiled(disk)'
         /\ filed' = filed
<1>1. UNCHANGED worldVars /\ UNCHANGED historyVars /\ UNCHANGED disk
  BY DEF QuietStep
<1>2. WorldTypeOK' /\ filed' = filed /\ HistoryTypeOK'
  BY <1>1, WorldUnchanged, HistoryUnchanged DEF TypeInv, TypeOK
<1>3. disk' \in Cursor /\ EntriesFiled(disk)'
  BY <1>1, <1>2 DEF TypeInv, TypeOK, EntriesFiled
<1> QED BY <1>2, <1>3

\* Entries that keep the task they name keep naming a filed one.
LEMMA SameTasks ==
  ASSUME mem \in Cursor, EntriesFiled(mem), filed \subseteq filed',
         NEW r \in Repo, NEW s \in RepoState,
         s.lastSeenHeadSHA = mem[r].lastSeenHeadSHA,
         s.lastSeenGoVersion = mem[r].lastSeenGoVersion,
         mem' = [mem EXCEPT ![r] = s]
  PROVE  mem' \in Cursor /\ EntriesFiled(mem)'
<1>1. mem' \in Cursor
  BY DEF Cursor
<1>2. ASSUME NEW q \in Repo
      PROVE  /\ mem'[q].lastSeenHeadSHA = mem[q].lastSeenHeadSHA
             /\ mem'[q].lastSeenGoVersion = mem[q].lastSeenGoVersion
  BY DEF Cursor
<1> QED BY <1>1, <1>2 DEF EntriesFiled

-----------------------------------------------------------------------------
(* Every step keeps TypeInv *)

\* The parts of TypeInv a step has to keep.
LEMMA TypeInvParts ==
  ASSUME WorldTypeOK, CycleTypeOK, ControlInv, disk \in Cursor, mem \in Cursor,
         faults \in 0..MaxFaults, HistoryTypeOK,
         EntriesFiled(disk), EntriesFiled(mem)
  PROVE  TypeInv
  BY DEF TypeInv, TypeOK

\* Poll, up to the first repository.
LEMMA StartType ==
  ASSUME TypeInv,
         (\E f \in BOOLEAN : LoadCursor(f)) \/ LatestStable \/ ListRepos \/ AbortEarly
  PROVE  TypeInv'
<1> USE DEF TypeInv, TypeOK
<1>1. ASSUME NEW f \in BOOLEAN, LoadCursor(f)
      PROVE  TypeInv'
  <2>1. UNCHANGED worldVars /\ disk' = disk /\ mem' = disk
    BY <1>1 DEF LoadCursor
  <2>2. WorldTypeOK' /\ filed' = filed
    BY <2>1, WorldUnchanged
  <2>3. CycleTypeOK'
    BY <1>1 DEF LoadCursor, CycleTypeOK, Step, AtRepo
  <2>4. ControlInv'
    BY <1>1 DEF LoadCursor, ControlInv
  <2>5. HistoryTypeOK'
    BY <1>1 DEF LoadCursor, HistoryTypeOK
  <2>6. EntriesFiled(disk)' /\ EntriesFiled(mem)'
    BY <2>1, <2>2 DEF EntriesFiled
  <2> QED BY <1>1, <2>1, <2>2, <2>3, <2>4, <2>5, <2>6 DEF LoadCursor
<1>2. ASSUME LatestStable
      PROVE  TypeInv'
  <2>1. QuietStep /\ mem' = mem /\ faults' = faults
    BY <1>2 DEF LatestStable, QuietStep
  <2>2. CycleTypeOK'
    BY <1>2 DEF LatestStable, CycleTypeOK, WorldTypeOK, Step, AtRepo
  <2>3. ControlInv'
    BY <1>2 DEF LatestStable, ControlInv, WorldTypeOK
  <2>4. EntriesFiled(mem)'
    BY <2>1, QuietStepType DEF EntriesFiled
  <2> QED BY <2>1, <2>2, <2>3, <2>4, QuietStepType
<1>3. ASSUME ListRepos
      PROVE  TypeInv'
  <2>1. QuietStep /\ mem' = mem /\ faults' = faults
    BY <1>3 DEF ListRepos, QuietStep
  <2>2. listing' \in Seq(Repo) /\ i' = 1
    BY <1>3, WatcherAssumption DEF ListRepos, ControlInv
  <2>3. listing' # <<>> => 1 <= Len(listing')
    BY <2>2
  <2>4. CycleTypeOK'
    BY <1>3, <2>2, <2>3 DEF ListRepos, CycleTypeOK, Step, AtRepo
  <2>5. ControlInv'
    BY <1>3 DEF ListRepos, ControlInv
  <2>6. EntriesFiled(mem)'
    BY <2>1, QuietStepType DEF EntriesFiled
  <2> QED BY <2>1, <2>4, <2>5, <2>6, QuietStepType
<1>4. ASSUME AbortEarly
      PROVE  TypeInv'
  <2>1. UNCHANGED worldVars /\ disk' = disk /\ IdleCycle /\ Fault
    BY <1>4 DEF AbortEarly
  <2>2. WorldTypeOK' /\ filed' = filed
    BY <2>1, WorldUnchanged
  <2>3. HistoryTypeOK'
    BY <1>4 DEF AbortEarly, HistoryTypeOK
  <2>4. EntriesFiled(disk)'
    BY <2>1, <2>2 DEF EntriesFiled
  <2> QED BY <2>1, <2>2, <2>3, <2>4, IdleCycleType, FaultType
<1> QED BY <1>1, <1>2, <1>3, <1>4

\* gatherCandidate and the open-PR gate.
LEMMA GatherType ==
  ASSUME TypeInv, GetHeadSHA \/ GetGoMod \/ GetMaintainerConfig \/ OpenUpdatePRGate
  PROVE  TypeInv'
<1> USE DEF TypeInv, TypeOK
<1>1. /\ Current \in Repo
      /\ QuietStep /\ faults' = faults
      /\ InProcessRepos /\ pc \in AtRepo
  BY CurrentType DEF GetHeadSHA, GetGoMod, GetMaintainerConfig, OpenUpdatePRGate,
                     QuietStep, InProcessRepos, AtRepo
<1>2. /\ HeadOf(Current) \in SHA
      /\ HeadCommit(Current).goMod \in GoMod
      /\ HeadCommit(Current).consent \in Consent
  BY <1>1, HeadCommitType
<1>3. ASSUME mem' = mem
      PROVE  mem' \in Cursor /\ EntriesFiled(mem)'
  BY <1>1, <1>3, QuietStepType DEF EntriesFiled
<1>4. CASE GetHeadSHA
  <2>1. cand' \in Candidate /\ cand'.headSHA \in SHA
    BY <1>2, <1>4 DEF GetHeadSHA, CycleTypeOK, Candidate
  <2>2. GoTo("go_mod") /\ mem' = mem
    BY <1>4 DEF GetHeadSHA, GoTo
  <2>3. CycleTypeOK'
    BY <1>1, <2>1, <2>2, GoToType DEF AtRepo
  <2>4. ControlInv'
    BY <1>4, <2>1 DEF GetHeadSHA, GoTo, ControlInv
  <2> QED BY <1>1, <1>3, <2>2, <2>3, <2>4, QuietStepType
<1>5. CASE GetGoMod
  <2>1. cand' \in Candidate /\ cand'.headSHA = cand.headSHA
    BY <1>2, <1>5 DEF GetGoMod, CycleTypeOK, Candidate
  <2>2. GoTo("maintainer_config") /\ mem' = mem
    BY <1>5 DEF GetGoMod, GoTo
  <2>3. CycleTypeOK'
    BY <1>1, <2>1, <2>2, GoToType DEF AtRepo
  <2>4. ControlInv'
    BY <1>5, <2>1 DEF GetGoMod, GoTo, ControlInv
  <2> QED BY <1>1, <1>3, <2>2, <2>3, <2>4, QuietStepType
<1>6. CASE GetMaintainerConfig
  <2>1. CASE HeadCommit(Current).consent = "malformed"
    <3>1. NextRepo /\ mem' = mem
      BY <1>6, <2>1 DEF GetMaintainerConfig
    <3> QED BY <1>1, <1>3, <3>1, NextRepoType, QuietStepType
  <2>2. CASE HeadCommit(Current).consent # "malformed"
    <3>1. GoTo("open_update_pr") /\ mem' = mem
      BY <1>6, <2>2 DEF GetMaintainerConfig, GoTo
    <3>2. cand' \in Candidate /\ cand'.headSHA = cand.headSHA
      BY <1>2, <1>6, <2>2 DEF GetMaintainerConfig, CycleTypeOK, Candidate
    <3>3. CycleTypeOK'
      BY <1>1, <3>1, <3>2, GoToType DEF AtRepo
    <3>4. ControlInv'
      BY <1>6, <3>1, <3>2 DEF GetMaintainerConfig, GoTo, ControlInv
    <3> QED BY <1>1, <1>3, <3>1, <3>3, <3>4, QuietStepType
  <2> QED BY <2>1, <2>2
<1>7. CASE OpenUpdatePRGate
  <2>1. CASE HasOpenUpdatePR(Current)
    <3>1. /\ NextRepo
          /\ mem' = [mem EXCEPT ![Current] = ClearInFlight(mem[Current], latestGo)]
      BY <1>7, <2>1 DEF OpenUpdatePRGate
    <3>2. mem[Current] \in RepoState
      BY <1>1 DEF Cursor
    <3>3. mem' \in Cursor /\ EntriesFiled(mem)'
      <4>1. /\ ClearInFlight(mem[Current], latestGo) \in RepoState
            /\ ClearInFlight(mem[Current], latestGo).lastSeenHeadSHA
                 = mem[Current].lastSeenHeadSHA
            /\ ClearInFlight(mem[Current], latestGo).lastSeenGoVersion
                 = mem[Current].lastSeenGoVersion
        BY <3>2, ClearInFlightType
      <4>2. filed \subseteq filed'
        BY <1>1, QuietStepType
      <4> QED BY <1>1, <3>1, <4>1, <4>2, SameTasks
    <3> QED BY <1>1, <3>1, <3>3, NextRepoType, QuietStepType
  <2>2. CASE ~HasOpenUpdatePR(Current)
    <3>1. GoTo("decide") /\ mem' = mem /\ cand' = cand
      BY <1>7, <2>2 DEF OpenUpdatePRGate, GoTo
    <3>2. CycleTypeOK'
      BY <1>1, <3>1, GoToType DEF AtRepo, CycleTypeOK
    <3>3. ControlInv'
      BY <1>7, <3>1 DEF OpenUpdatePRGate, GoTo, ControlInv
    <3> QED BY <1>1, <1>3, <3>1, <3>2, <3>3, QuietStepType
  <2> QED BY <2>1, <2>2
<1> QED BY <1>4, <1>5, <1>6, <1>7

\* What emissionInFlight leaves of an entry names the same task.
LEMMA SettledType ==
  ASSUME mem \in Cursor, EntriesFiled(mem), filed \subseteq filed', NEW r \in Repo,
         mem' = [mem EXCEPT ![r] = Settled(r)]
  PROVE  mem' \in Cursor /\ EntriesFiled(mem)'
<1>1. mem[r] \in RepoState
  BY DEF Cursor
<1>2. /\ Settled(r) \in RepoState
      /\ Settled(r).lastSeenHeadSHA = mem[r].lastSeenHeadSHA
      /\ Settled(r).lastSeenGoVersion = mem[r].lastSeenGoVersion
  BY <1>1, ClearInFlightType DEF Settled
<1> QED BY <1>2, SameTasks

\* The verdict on the candidate.
LEMMA DecideType ==
  ASSUME TypeInv, SuppressInFlight \/ SkipRepo \/ PublishCreate \/ PublishFails
  PROVE  TypeInv'
<1> USE DEF TypeInv, TypeOK
<1>1. /\ Current \in Repo
      /\ pc = "decide" /\ InProcessRepos
      /\ NextRepo
      /\ disk' = disk
  BY CurrentType DEF SuppressInFlight, SkipRepo, PublishCreate, PublishFails,
                     InProcessRepos, AtRepo
<1>2. latestGo \in Version /\ cand.headSHA \in SHA
  BY <1>1 DEF ControlInv
<1>3. CycleTypeOK' /\ ControlInv'
  BY <1>1, NextRepoType
<1>4. CurrentTask \in Task
  BY <1>1, <1>2 DEF CurrentTask, Task
<1>5. filed \subseteq filed' /\ filed' \subseteq filed \cup {CurrentTask}
  BY DEF SuppressInFlight, SkipRepo, PublishCreate, PublishFails, worldVars, controller
<1>6. EntriesFiled(disk)'
  BY <1>1, <1>5, EntriesFiledGrow DEF EntriesFiled
<1>7. faults' \in 0..MaxFaults
  BY FaultType DEF SuppressInFlight, SkipRepo, PublishCreate, PublishFails
<1>8. WorldTypeOK'
  BY <1>1, <1>4, <1>5
     DEF SuppressInFlight, SkipRepo, PublishCreate, PublishFails,
         WorldTypeOK, worldVars, github, controller, HeadOf
<1>9. HistoryTypeOK'
  <2>1. CASE SuppressInFlight \/ SkipRepo
    BY <2>1 DEF SuppressInFlight, SkipRepo, HistoryTypeOK, historyVars
  <2>2. CASE PublishCreate
    BY <1>1, <1>2, <2>2, RecordEmissionType DEF PublishCreate
  <2>3. CASE PublishFails
    <3>1. CASE UNCHANGED <<emitted, evidence>>
      BY <2>3, <3>1 DEF PublishFails, HistoryTypeOK
    <3>2. CASE RecordEmission(Current, {"lost"})
      BY <1>1, <1>2, <2>3, <3>2, RecordEmissionType DEF PublishFails
    <3> QED BY <2>3, <3>1, <3>2 DEF PublishFails
  <2> QED BY <2>1, <2>2, <2>3
<1>10. mem' \in Cursor /\ EntriesFiled(mem)'
  <2>1. CASE SuppressInFlight
    <3>1. mem' = mem
      BY <2>1 DEF SuppressInFlight
    <3> QED BY <1>5, <3>1, EntriesFiledGrow DEF EntriesFiled
  <2>2. CASE SkipRepo \/ PublishFails
    <3>1. mem' = [mem EXCEPT ![Current] = Settled(Current)]
      BY <2>2 DEF SkipRepo, PublishFails
    <3> QED BY <1>1, <1>5, <3>1, SettledType
  <2>3. CASE PublishCreate
    <3>1. mem' = [mem EXCEPT ![Current] = Published(mem[Current], cand.headSHA, latestGo)]
      BY <2>3 DEF PublishCreate
    <3>2. mem[Current] \in RepoState
      BY <1>1 DEF Cursor
    <3>3. /\ Published(mem[Current], cand.headSHA, latestGo) \in RepoState
          /\ Published(mem[Current], cand.headSHA, latestGo).lastSeenHeadSHA = cand.headSHA
          /\ Published(mem[Current], cand.headSHA, latestGo).lastSeenGoVersion = latestGo
      BY <1>2, <3>2, PublishedType
    <3>4. mem' \in Cursor
      BY <3>1, <3>3 DEF Cursor
    <3>5. CurrentTask \in filed'
      BY <2>3 DEF PublishCreate
    <3>6. \A r \in Repo \ {Current} : mem'[r] = mem[r]
      BY <3>1 DEF Cursor
    <3>7. /\ mem'[Current].lastSeenHeadSHA = cand.headSHA
          /\ mem'[Current].lastSeenGoVersion = latestGo
      BY <1>1, <3>1, <3>3 DEF Cursor
    <3>8. EntriesFiled(mem)'
      <4>1. SUFFICES ASSUME NEW r \in Repo, mem'[r].lastSeenHeadSHA # None
                     PROVE  [repo |-> r, go |-> mem'[r].lastSeenGoVersion,
                             sha |-> mem'[r].lastSeenHeadSHA] \in filed'
        BY DEF EntriesFiled
      <4>2. CASE r = Current
        BY <3>5, <3>7, <4>2 DEF CurrentTask
      <4>3. CASE r # Current
        BY <1>5, <3>6, <4>1, <4>3 DEF EntriesFiled
      <4> QED BY <4>2, <4>3
    <3> QED BY <3>4, <3>8
  <2> QED BY <2>1, <2>2, <2>3
<1> QED BY <1>1, <1>3, <1>6, <1>7, <1>8, <1>9, <1>10

\* The loop goes on without the repository, or the cycle is given up.
LEMMA GiveUpType ==
  ASSUME TypeInv, DropRepo \/ RateLimited \/ SaveFails \/ Crash
  PROVE  TypeInv'
<1> USE DEF TypeInv, TypeOK
<1>1. CASE DropRepo
  <2>1. InProcessRepos /\ NextRepo /\ Fault /\ QuietStep /\ mem' = mem
    BY <1>1 DEF DropRepo, InProcessRepos, AtRepo, QuietStep
  <2>2. EntriesFiled(mem)'
    BY <2>1, QuietStepType DEF EntriesFiled
  <2> QED BY <2>1, <2>2, NextRepoType, FaultType, QuietStepType
<1>2. CASE RateLimited \/ SaveFails \/ Crash
  <2>1. Fault /\ ForgetUnsaved /\ IdleCycle /\ UNCHANGED worldVars /\ disk' = disk
    BY <1>2 DEF RateLimited, SaveFails, Crash
  <2>2. WorldTypeOK' /\ filed' = filed
    BY <2>1, WorldUnchanged
  <2>3. EntriesFiled(disk)'
    BY <2>1, <2>2 DEF EntriesFiled
  <2> QED BY <2>1, <2>2, <2>3, IdleCycleType, FaultType, ForgetUnsavedType
<1> QED BY <1>1, <1>2

\* An entry with something to complete names a filed task.
LEMMA RecordedTaskFiled ==
  ASSUME TypeInv, NEW r \in Repo, ~NothingToComplete(mem[r])
  PROVE  RecordedTask(r) \in filed /\ RecordedTask(r) \in Task
<1>1. mem[r].lastSeenHeadSHA # None
  BY DEF NothingToComplete
<1>2. RecordedTask(r) \in filed
  BY <1>1 DEF TypeInv, EntriesFiled, RecordedTask
<1> QED BY <1>2 DEF TypeInv, TypeOK, WorldTypeOK

\* The merge-detection pass.
LEMMA MergedType ==
  ASSUME TypeInv,
         \/ SkipCompleted \/ NotMerged \/ (\E r \in Repo : CompleteTask(r))
         \/ CompleteFails \/ MergedCallFails
  PROVE  TypeInv'
<1> USE DEF TypeInv, TypeOK
<1>1. /\ Current \in Repo
      /\ pc = "merged" /\ NextMerged
      /\ disk' = disk
      /\ UNCHANGED <<github, latest, now, filed, decisions>>
  BY CurrentType DEF SkipCompleted, NotMerged, CompleteTask, CompleteFails,
                     MergedCallFails, AtRepo, worldVars, controller
<1>2. CycleTypeOK' /\ ControlInv'
  BY <1>1, NextMergedType
<1>3. faults' \in 0..MaxFaults
  BY FaultType DEF SkipCompleted, NotMerged, CompleteTask, CompleteFails, MergedCallFails
<1>4. EntriesFiled(disk)'
  BY <1>1 DEF EntriesFiled
<1>5. ASSUME completed' \subseteq Task
      PROVE  WorldTypeOK'
  BY <1>1, <1>5 DEF WorldTypeOK, github, HeadOf
<1>6. ASSUME mem' = mem
      PROVE  mem' \in Cursor /\ EntriesFiled(mem)'
  BY <1>1, <1>6 DEF EntriesFiled
<1>7. CASE SkipCompleted \/ NotMerged \/ MergedCallFails
  <2>1. QuietStep /\ mem' = mem
    BY <1>7 DEF SkipCompleted, NotMerged, MergedCallFails, QuietStep
  <2> QED BY <1>1, <1>2, <1>3, <1>6, <2>1, QuietStepType
<1>8. ASSUME NEW r \in Repo, CompleteTask(r)
      PROVE  TypeInv'
  <2>1. /\ ~NothingToComplete(mem[r])
        /\ completed' = completed \cup {RecordedTask(r)}
        /\ forgot' \subseteq forgot
        /\ UNCHANGED <<emitted, evidence, shielded>>
    BY <1>8 DEF CompleteTask
  <2>2. WorldTypeOK' /\ HistoryTypeOK'
    BY <1>5, <2>1, RecordedTaskFiled DEF WorldTypeOK, HistoryTypeOK
  <2>3. mem[r] \in RepoState
    BY DEF Cursor
  <2>4. mem' \in Cursor /\ EntriesFiled(mem)'
    <3>1. DEFINE s == [mem[r] EXCEPT !.completedHeadSHA = mem[r].lastSeenHeadSHA]
    <3>2. /\ s \in RepoState
          /\ s.lastSeenHeadSHA = mem[r].lastSeenHeadSHA
          /\ s.lastSeenGoVersion = mem[r].lastSeenGoVersion
      BY <2>3 DEF RepoState
    <3>3. mem' = [mem EXCEPT ![r] = s]
      BY <1>8 DEF CompleteTask
    <3>4. filed \subseteq filed'
      BY <1>1
    <3> HIDE DEF s
    <3> QED BY <3>2, <3>3, <3>4, SameTasks
  <2> QED BY <1>1, <1>2, <1>3, <1>4, <2>2, <2>4
<1>9. CASE CompleteFails
  <2>1. ~NothingToComplete(mem[Current]) /\ mem' = mem
    BY <1>9 DEF CompleteFails
  <2>2. RecordedTask(Current) \in Task
    BY <1>1, <2>1, RecordedTaskFiled
  <2>3. completed' \subseteq Task /\ forgot' \subseteq Task
    BY <1>9, <2>2 DEF CompleteFails, WorldTypeOK, HistoryTypeOK
  <2>4. HistoryTypeOK'
    BY <1>9, <2>3 DEF CompleteFails, HistoryTypeOK
  <2> QED BY <1>1, <1>2, <1>3, <1>4, <1>5, <1>6, <2>1, <2>3, <2>4
<1> QED BY <1>7, <1>8, <1>9

\* The end of a cycle, and the loss of the file between two.
LEMMA EndType ==
  ASSUME TypeInv, MergedRateLimited \/ Cancelled \/ SaveCursor \/ LoseCursor
  PROVE  TypeInv'
<1> USE DEF TypeInv, TypeOK
<1>1. CASE MergedRateLimited \/ Cancelled
  <2>1. /\ pc \in AtRepo /\ pc \notin {"idle", "latest_stable"}
        /\ GoTo("save") /\ Fault /\ QuietStep /\ cand' = cand
    BY <1>1 DEF MergedRateLimited, Cancelled, AtRepo, QuietStep
  <2>2. CycleTypeOK'
    BY <2>1, GoToType DEF CycleTypeOK
  <2>3. ControlInv'
    BY <2>1 DEF GoTo, ControlInv
  <2>4. mem' = mem
    BY <2>1 DEF GoTo
  <2>5. mem' \in Cursor /\ EntriesFiled(mem)'
    BY <2>1, <2>4, QuietStepType DEF EntriesFiled
  <2> QED BY <2>1, <2>2, <2>3, <2>5, FaultType, QuietStepType
<1>2. CASE SaveCursor
  <2>1. IdleCycle /\ UNCHANGED worldVars /\ disk' = mem /\ faults' = faults
    BY <1>2 DEF SaveCursor
  <2>2. WorldTypeOK' /\ filed' = filed
    BY <2>1, WorldUnchanged
  <2>3. HistoryTypeOK'
    BY <1>2 DEF SaveCursor, HistoryTypeOK
  <2>4. EntriesFiled(disk)'
    BY <2>1, <2>2 DEF EntriesFiled
  <2> QED BY <2>1, <2>2, <2>3, <2>4, IdleCycleType
<1>3. CASE LoseCursor
  <2>1. /\ UNCHANGED worldVars /\ UNCHANGED cycleVars
        /\ disk' = ColdCursor /\ Fault
    BY <1>3 DEF LoseCursor
  <2>2. WorldTypeOK' /\ filed' = filed
    BY <2>1, WorldUnchanged
  <2>3. CycleTypeOK' /\ ControlInv'
    BY <2>1 DEF cycleVars, CycleTypeOK, ControlInv
  <2>4. HistoryTypeOK'
    <3>1. \A r \in Repo : evidence'[r] \subseteq {"open_pr", "converged", "lost"}
      BY <1>3 DEF LoseCursor, HistoryTypeOK
    <3>2. evidence' \in [Repo -> SUBSET {"open_pr", "converged", "lost"}]
      BY <1>3, <3>1 DEF LoseCursor
    <3> QED BY <1>3, <3>2 DEF LoseCursor, HistoryTypeOK, WorldTypeOK
  <2>5. EntriesFiled(disk)' /\ disk' \in Cursor
    BY <2>1, ColdCursorType DEF EntriesFiled
  <2>6. mem' \in Cursor /\ EntriesFiled(mem)'
    BY <2>1, <2>2 DEF cycleVars, EntriesFiled
  <2> QED BY <2>1, <2>2, <2>3, <2>4, <2>5, <2>6, FaultType
<1> QED BY <1>1, <1>2, <1>3

\* The world moves while a cycle runs.
LEMMA EnvironmentType ==
  ASSUME TypeInv, Environment
  PROVE  TypeInv'
<1> USE DEF TypeInv, TypeOK
<1>1. WorldTypeOK' /\ filed' = filed
  BY WorldStepType DEF Environment
<1>2. UNCHANGED <<disk, cycleVars, faults, emitted, forgot>>
  BY DEF Environment
<1>3. CycleTypeOK' /\ ControlInv'
  BY <1>2 DEF cycleVars, CycleTypeOK, ControlInv
<1>4. HistoryTypeOK'
  <2>1. \A r \in Repo : evidence'[r] \subseteq {"open_pr", "converged", "lost"}
    BY DEF Environment, EndsClaim, HistoryTypeOK
  <2>2. evidence' \in [Repo -> SUBSET {"open_pr", "converged", "lost"}]
    BY <2>1 DEF Environment
  <2>3. shielded' \subseteq Repo
    BY DEF Environment, HistoryTypeOK
  <2> QED BY <1>2, <2>2, <2>3 DEF HistoryTypeOK
<1>5. EntriesFiled(disk)' /\ EntriesFiled(mem)' /\ mem' = mem /\ disk' = disk /\ faults' = faults
  BY <1>1, <1>2 DEF cycleVars, EntriesFiled
<1> QED BY <1>1, <1>3, <1>4, <1>5

\* The type invariant holds when the watcher starts.
LEMMA TypeInit == Init => TypeInv
<1> SUFFICES ASSUME Init PROVE TypeInv
  OBVIOUS
<1>1. WorldTypeOK
  <2>1. ASSUME NEW r \in Repo
        PROVE  commits[r] \in Seq(Commit) /\ HeadOf(r) = 1
    <3>1. PICK c \in Contents : commits[r] = <<c>>
      BY DEF Init, WorldInit
    <3> QED BY <3>1, WorldAssumption DEF HeadOf
  <2>2. commits \in [Repo -> Seq(Commit)] /\ \A r \in Repo : HeadOf(r) \in SHA
    BY <2>1, WorldAssumption DEF Init, WorldInit, SHA
  <2> QED BY <2>2, WorldAssumption DEF Init, WorldInit, WorldTypeOK, Version
<1>2. CycleTypeOK
  <2>1. NoCandidate \in Candidate
    BY DEF NoCandidate, Candidate, GoMod, Consent
  <2>2. force \in BOOLEAN
    BY Zenon DEF Init
  <2>3. listing \in Seq(Repo) /\ i \in Nat \ {0} /\ latestGo \in Version \cup {None}
    BY DEF Init
  <2>4. pc \in Step /\ pc \notin AtRepo
    BY DEF Init, Step, AtRepo
  <2> QED BY <2>1, <2>2, <2>3, <2>4 DEF Init, CycleTypeOK
<1>3. ControlInv
  BY DEF Init, ControlInv
<1>4. disk \in Cursor /\ mem \in Cursor /\ EntriesFiled(disk) /\ EntriesFiled(mem)
  BY ColdCursorType DEF Init, EntriesFiled
<1>5. HistoryTypeOK
  BY WorldAssumption DEF Init, HistoryTypeOK, NeverEmitted
<1>6. faults \in 0..MaxFaults
  BY WatcherAssumption DEF Init
<1> QED BY <1>1, <1>2, <1>3, <1>4, <1>5, <1>6, TypeInvParts

\* The type invariant is kept by every step.
LEMMA TypeStep == TypeInv /\ [Next]_vars => TypeInv'
<1> SUFFICES ASSUME TypeInv, [Next]_vars PROVE TypeInv'
  OBVIOUS
<1>1. CASE UNCHANGED vars
  <2>1. QuietStep /\ mem' = mem /\ faults' = faults /\ UNCHANGED cycleVars
    BY <1>1 DEF vars, cycleVars, QuietStep
  <2>2. CycleTypeOK' /\ ControlInv'
    BY <2>1 DEF TypeInv, TypeOK, CycleTypeOK, ControlInv, cycleVars
  <2>3. EntriesFiled(mem)' /\ mem' \in Cursor
    BY <2>1, QuietStepType DEF TypeInv, TypeOK, EntriesFiled
  <2>4. WorldTypeOK' /\ HistoryTypeOK' /\ disk' \in Cursor /\ EntriesFiled(disk)'
    BY <2>1, QuietStepType
  <2>5. faults' \in 0..MaxFaults
    BY <2>1 DEF TypeInv, TypeOK
  <2> QED BY <2>2, <2>3, <2>4, <2>5 DEF TypeInv, TypeOK
<1>2. CASE Environment
  BY <1>2, EnvironmentType
<1>3. CASE \E f \in BOOLEAN : LoadCursor(f)
  BY <1>3, StartType
<1>4. CASE Progress
  BY <1>4, StartType, GatherType, DecideType, MergedType, EndType DEF Progress
<1>5. CASE Failure
  BY <1>5, StartType, GiveUpType, DecideType, MergedType, EndType DEF Failure
<1> QED BY <1>1, <1>2, <1>3, <1>4, <1>5 DEF Next

\* The state is always one the next step of the loops can work on.
THEOREM TypeCorrect == Spec => []TypeOK
<1>1. Spec => []TypeInv
  BY TypeInit, TypeStep, PTL DEF Spec
<1>2. TypeInv => TypeOK
  BY DEF TypeInv
<1> QED BY <1>1, <1>2, PTL

=============================================================================

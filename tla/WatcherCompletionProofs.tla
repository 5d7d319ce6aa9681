----------------------- MODULE WatcherCompletionProofs -----------------------
(***************************************************************************)
(* The merge-detection pass completes only tasks that were filed and whose *)
(* branch merged, and a task once.  The second half rests on an order:     *)
(* HEAD only moves on, an entry names a HEAD that was read, and its marker *)
(* never runs ahead of the HEAD it names.                                  *)
(*                                                                         *)
(* With the theorem about claims this makes the watcher, seen by the       *)
(* commands it sends, implement TaskLedger: every step of Watcher is one   *)
(* of the ledger or changes nothing the ledger knows.                      *)
(***************************************************************************)
EXTENDS WatcherClaimProofs

\* The entries of a cursor name HEADs the branch has reached, and the marker
\* of an entry is not ahead of it.
Ordered(cursor) ==
  \A r \in Repo : /\ cursor[r].completedHeadSHA <= cursor[r].lastSeenHeadSHA
                  /\ cursor[r].lastSeenHeadSHA <= HeadOf(r)

\* The HEAD of the candidate is not behind the one its entry names.
HeadRead == pc \in {"go_mod", "maintainer_config", "open_update_pr", "decide"}

CandidateOrdered ==
  HeadRead => /\ mem[Current].lastSeenHeadSHA <= cand.headSHA
              /\ cand.headSHA <= HeadOf(Current)

\* A completed task the cursor has not lost track of is covered by the marker.
MarkerInv ==
  \A t \in completed \ forgot : t.sha <= Effective(t.repo).completedHeadSHA

CompletionInv ==
  Ordered(disk) /\ Ordered(mem) /\ CandidateOrdered /\ FreshInv /\ MarkerInv

-----------------------------------------------------------------------------

\* A step adds at most one commit, to one default branch.
LEMMA OneCommit ==
  ASSUME TypeInv, [Next]_vars
  PROVE  \/ UNCHANGED commits
         \/ \E r \in Repo : \E c \in Commit : AddCommit(r, c)
<1>1. CASE UNCHANGED github
  BY <1>1 DEF github
<1>2. CASE Environment
  <2>1. ASSUME NEW r \in Repo, Push(r)
        PROVE  \E c \in Commit : AddCommit(r, c)
    BY <2>1, WorldAssumption DEF Push
  <2>2. ASSUME NEW t \in Task, MergePR(t)
        PROVE  \/ UNCHANGED commits
               \/ \E r \in Repo : \E c \in Commit : AddCommit(r, c)
    <3>1. ASSUME NEW g \in {t.go, HeadCommit(t.repo).goMod},
                 AddCommit(t.repo, [goMod |-> g, consent |-> HeadCommit(t.repo).consent])
          PROVE  \E r \in Repo : \E c \in Commit : AddCommit(r, c)
      <4>1. t.repo \in Repo /\ t.go \in Version
        BY DEF Task
      <4>2. [goMod |-> g, consent |-> HeadCommit(t.repo).consent] \in Commit
        BY <3>1, <4>1, HeadCommitType DEF Commit, GoMod, TypeInv, TypeOK
      <4> QED BY <3>1, <4>1, <4>2
    <3> QED BY <2>2, <3>1 DEF MergePR
  <2>3. CASE \/ Release \/ Tick
             \/ \E t \in Task : OpenPR(t) \/ ClosePR(t) \/ Bury(t) \/ Unbury(t)
    BY <2>3 DEF Release, Tick, OpenPR, ClosePR, Bury, Unbury, github
  <2> QED BY <1>2, <2>1, <2>2, <2>3 DEF Environment, WorldStep
<1>3. CASE UNCHANGED vars
  BY <1>3 DEF vars, worldVars, github
<1> QED BY <1>1, <1>2, <1>3, CycleStepWorld DEF Next

\* A default branch never gets shorter.
LEMMA HeadMoves ==
  ASSUME TypeInv, [Next]_vars
  PROVE  \A r \in Repo : HeadOf(r) \in Nat /\ HeadOf(r)' \in Nat /\ HeadOf(r) <= HeadOf(r)'
<1>1. \A r \in Repo : HeadOf(r) \in Nat
  BY WorldAssumption DEF TypeInv, TypeOK, WorldTypeOK, SHA
<1>2. CASE UNCHANGED commits
  BY <1>1, <1>2 DEF HeadOf
<1>3. ASSUME NEW r \in Repo, NEW c \in Commit, AddCommit(r, c)
      PROVE  \A q \in Repo : HeadOf(q)' \in Nat /\ HeadOf(q) <= HeadOf(q)'
  <2>1. commits \in [Repo -> Seq(Commit)]
    BY DEF TypeInv, TypeOK, WorldTypeOK
  <2>2. /\ HeadOf(r)' = HeadOf(r) + 1
        /\ \A q \in Repo \ {r} : HeadOf(q)' = HeadOf(q)
    BY <1>3, <2>1, AddCommitType
  <2> QED BY <1>1, <2>2
<1> QED BY <1>1, <1>2, <1>3, OneCommit

\* The heads in a cursor are numbers.
LEMMA CursorHeads ==
  ASSUME NEW c \in Cursor, NEW r \in Repo
  PROVE  c[r].completedHeadSHA \in Nat /\ c[r].lastSeenHeadSHA \in Nat
<1>1. c[r] \in RepoState
  BY DEF Cursor
<1> QED BY <1>1, WorldAssumption DEF RepoState, SHA, None

\* A cursor that does not change stays in order, for HEAD only moves on.
LEMMA SameOrdered ==
  ASSUME TypeInv, [Next]_vars, NEW c \in Cursor, Ordered(c)
  PROVE  \A r \in Repo : /\ c[r].completedHeadSHA <= c[r].lastSeenHeadSHA
                         /\ c[r].lastSeenHeadSHA <= HeadOf(r)'
  BY HeadMoves, CursorHeads DEF Ordered

\* An empty cursor is in order.
LEMMA ColdOrdered ==
  ASSUME TypeInv, [Next]_vars
  PROVE  \A r \in Repo : /\ ColdCursor[r].completedHeadSHA <= ColdCursor[r].lastSeenHeadSHA
                         /\ ColdCursor[r].lastSeenHeadSHA <= HeadOf(r)'
  BY HeadMoves DEF ColdCursor, NoState, None

\* How a step changes the two cursors.
LEMMA CursorSteps ==
  ASSUME TypeInv, [Next]_vars
  PROVE  /\ disk' \in {disk, mem, ColdCursor}
         /\ \/ mem' \in {mem, disk, ColdCursor}
            \/ PublishCreate
            \/ \E r \in Repo : CompleteTask(r)
            \/ /\ Current \in Repo
               /\ mem' = [mem EXCEPT ![Current] = ClearInFlight(mem[Current], latestGo)]
<1>1. CASE UNCHANGED vars \/ Environment
  BY <1>1 DEF vars, Environment, cycleVars
<1>2. CASE \E f \in BOOLEAN : LoadCursor(f)
  BY <1>2 DEF LoadCursor
<1>3. CASE PublishCreate \/ (\E r \in Repo : CompleteTask(r))
  BY <1>3 DEF PublishCreate, CompleteTask
<1>4. CASE OpenUpdatePRGate \/ SkipRepo \/ PublishFails
  BY <1>4, CurrentType DEF OpenUpdatePRGate, SkipRepo, PublishFails, Settled, GoTo,
     TypeInv, TypeOK, AtRepo
<1>5. CASE Reading \/ Forgetting \/ AbortEarly \/ SaveCursor \/ LoseCursor
  BY <1>5 DEF Reading, Forgetting, AbortEarly, SaveCursor, LoseCursor, LatestStable, ListRepos,
     GetHeadSHA, GetGoMod, GetMaintainerConfig, SuppressInFlight, DropRepo, SkipCompleted,
     NotMerged, CompleteFails, MergedCallFails, MergedRateLimited, Cancelled, RateLimited,
     SaveFails, Crash, IdleCycle, GoTo, cycleVars
<1> QED BY <1>1, <1>2, <1>3, <1>4, <1>5 DEF Next, Progress, Failure, Reading, Forgetting

\* No step puts the entries of the cursors out of order.
LEMMA OrderedStep ==
  ASSUME TypeInv, CompletionInv, [Next]_vars
  PROVE  Ordered(disk)' /\ Ordered(mem)'
<1> USE DEF CompletionInv
<1>1. disk \in Cursor /\ mem \in Cursor /\ ColdCursor \in Cursor
  BY ColdCursorType DEF TypeInv, TypeOK
<1>2. Ordered(disk)'
  BY <1>1, CursorSteps, SameOrdered, ColdOrdered DEF Ordered
<1>3. CASE mem' \in {mem, disk, ColdCursor}
  BY <1>1, <1>2, <1>3, SameOrdered, ColdOrdered DEF Ordered
<1>4. CASE PublishCreate
  <2>1. PICK r \in Repo : r = Current
    BY <1>4, CurrentType DEF PublishCreate, TypeInv, TypeOK, AtRepo
  <2>2. HeadRead /\ mem' = [mem EXCEPT ![r] = Published(mem[r], cand.headSHA, latestGo)]
    BY <1>4, <2>1 DEF PublishCreate, HeadRead
  <2>3. /\ mem'[r].completedHeadSHA = mem[r].completedHeadSHA
        /\ mem'[r].lastSeenHeadSHA = cand.headSHA
        /\ \A q \in Repo \ {r} : mem'[q] = mem[q]
    BY <1>1, <2>2 DEF Published, Cursor
  <2>4. cand.headSHA \in Nat
    BY <2>2, WorldAssumption DEF TypeInv, ControlInv, HeadRead, SHA
  <2>5. /\ mem[r].completedHeadSHA <= mem[r].lastSeenHeadSHA
        /\ mem[r].lastSeenHeadSHA <= cand.headSHA
        /\ cand.headSHA <= HeadOf(r)
    BY <2>1, <2>2 DEF Ordered, CandidateOrdered
  <2>6. /\ mem'[r].completedHeadSHA <= mem'[r].lastSeenHeadSHA
        /\ mem'[r].lastSeenHeadSHA <= HeadOf(r)'
    BY <1>1, <2>3, <2>4, <2>5, CursorHeads, HeadMoves
  <2>7. Ordered(mem)'
    BY <1>1, <2>3, <2>6, SameOrdered DEF Ordered
  <2> QED BY <1>2, <2>7
<1>5. ASSUME NEW r \in Repo, CompleteTask(r)
      PROVE  Ordered(mem)'
  <2>1. /\ mem'[r].lastSeenHeadSHA = mem[r].lastSeenHeadSHA
        /\ mem'[r].completedHeadSHA = mem[r].lastSeenHeadSHA
        /\ \A q \in Repo \ {r} : mem'[q] = mem[q]
    <3>1. mem[r] \in RepoState
      BY <1>1 DEF Cursor
    <3> QED BY <1>1, <1>5, <3>1 DEF CompleteTask, Cursor, RepoState
  <2> QED BY <1>1, <2>1, SameOrdered, CursorHeads DEF Ordered
<1>6. CASE /\ Current \in Repo
           /\ mem' = [mem EXCEPT ![Current] = ClearInFlight(mem[Current], latestGo)]
  <2>1. mem[Current] \in RepoState
    BY <1>1, <1>6 DEF Cursor
  <2>2. \A r \in Repo : /\ mem'[r].lastSeenHeadSHA = mem[r].lastSeenHeadSHA
                        /\ mem'[r].completedHeadSHA = mem[r].completedHeadSHA
    BY <1>1, <1>6, <2>1, ClearInFlightType DEF Cursor
  <2>3. Ordered(mem)'
    BY <1>1, <2>2, SameOrdered DEF Ordered
  <2> QED BY <1>2, <2>3
<1> QED BY <1>2, <1>3, <1>4, <1>5, <1>6, CursorSteps

\* How a cycle comes to, or stays at, a step after the read of the HEAD.
LEMMA HeadReadSteps ==
  ASSUME TypeInv, [Next]_vars, HeadRead'
  PROVE  \/ GetHeadSHA
         \/ /\ HeadRead
            /\ UNCHANGED <<listing, i>>
            /\ mem' = mem
            /\ cand'.headSHA = cand.headSHA
<1> USE DEF HeadRead
<1>1. CASE UNCHANGED vars \/ Environment
  BY <1>1 DEF vars, Environment, cycleVars
<1>2. CASE \E f \in BOOLEAN : LoadCursor(f)
  BY <1>2 DEF LoadCursor
<1>3. CASE LatestStable \/ ListRepos \/ SuppressInFlight \/ SkipRepo
           \/ PublishCreate \/ SkipCompleted \/ NotMerged \/ SaveCursor
           \/ (\E r \in Repo : CompleteTask(r))
  BY <1>3 DEF LatestStable, ListRepos, SuppressInFlight, SkipRepo, PublishCreate,
     SkipCompleted, NotMerged, CompleteTask, SaveCursor, NextRepo, NextMerged, GoTo, IdleCycle
<1>4. CASE GetGoMod \/ GetMaintainerConfig \/ OpenUpdatePRGate
  BY <1>4 DEF GetGoMod, GetMaintainerConfig, OpenUpdatePRGate, NextRepo, GoTo,
     TypeInv, TypeOK, CycleTypeOK, Candidate
<1>5. CASE Failure
  BY <1>5 DEF Failure, AbortEarly, DropRepo, RateLimited, PublishFails,
     CompleteFails, MergedCallFails, MergedRateLimited, Cancelled, SaveFails, Crash,
     LoseCursor, NextRepo, NextMerged, GoTo, IdleCycle, cycleVars
<1> QED BY <1>1, <1>2, <1>3, <1>4, <1>5 DEF Next, Progress

\* The candidate's HEAD is the newest the cycle knows of its repository.
LEMMA CandidateOrderedStep ==
  ASSUME TypeInv, CompletionInv, [Next]_vars
  PROVE  CandidateOrdered'
<1> USE DEF CompletionInv
<1>1. SUFFICES ASSUME HeadRead'
               PROVE  /\ mem'[Current'].lastSeenHeadSHA <= cand'.headSHA
                      /\ cand'.headSHA <= Len(commits'[Current'])
  BY DEF CandidateOrdered, HeadOf
<1>2. CASE GetHeadSHA
  <2>1. PICK r \in Repo : r = Current
    BY <1>2, CurrentType DEF GetHeadSHA, TypeInv, TypeOK, AtRepo
  <2>2. /\ Current' = r /\ mem' = mem /\ commits' = commits
        /\ cand'.headSHA = HeadOf(r)
    BY <1>2, <2>1 DEF GetHeadSHA, GoTo, Current, TypeInv, TypeOK, CycleTypeOK, Candidate,
       worldVars, github
  <2> QED BY <2>2, HeadMoves DEF Ordered, HeadOf
<1>3. CASE /\ HeadRead
           /\ UNCHANGED <<listing, i>>
           /\ mem' = mem
           /\ cand'.headSHA = cand.headSHA
  <2>1. PICK r \in Repo : r = Current
    BY <1>3, CurrentType DEF HeadRead, TypeInv, TypeOK, AtRepo
  <2>2. Current' = r
    BY <1>3, <2>1 DEF Current
  <2>3. mem[r].lastSeenHeadSHA <= cand.headSHA /\ cand.headSHA <= HeadOf(r)
    BY <1>3, <2>1 DEF CandidateOrdered
  <2>4. cand.headSHA \in Nat
    BY <1>3, WorldAssumption DEF TypeInv, ControlInv, HeadRead, SHA
  <2>5. cand.headSHA <= HeadOf(r)'
    BY <2>3, <2>4, HeadMoves
  <2> QED BY <1>3, <2>2, <2>3, <2>5 DEF HeadOf
<1> QED BY <1>1, <1>2, <1>3, HeadReadSteps

-----------------------------------------------------------------------------
(* Completions *)

\* Where completions come from, and what becomes of the lost ones.
LEMMA CompletionSteps ==
  ASSUME TypeInv, [Next]_vars
  PROVE  \/ completed' = completed /\ forgot' = forgot
         \/ completed' = completed /\ ForgetUnsaved /\ Forgetting
         \/ completed' = completed /\ forgot' = completed
         \/ CompleteFails
         \/ \E r \in Repo : CompleteTask(r)
<1>1. CASE UNCHANGED vars
  BY <1>1 DEF vars, worldVars, controller, historyVars
<1>2. CASE Environment
  BY <1>2, WorldStepType DEF Environment, TypeInv, TypeOK
<1>3. CASE \E f \in BOOLEAN : LoadCursor(f)
  BY <1>3 DEF LoadCursor, worldVars, controller
<1>4. CASE Progress
  BY <1>4 DEF Progress, LatestStable, ListRepos, GetHeadSHA, GetGoMod, GetMaintainerConfig,
     OpenUpdatePRGate, SuppressInFlight, SkipRepo, PublishCreate, SkipCompleted, NotMerged,
     SaveCursor, worldVars, controller, historyVars
<1>5. CASE Failure
  BY <1>5 DEF Failure, AbortEarly, DropRepo, RateLimited, PublishFails, MergedCallFails,
     MergedRateLimited, Cancelled, SaveFails, Crash, LoseCursor, Forgetting, worldVars,
     controller, historyVars
<1> QED BY <1>1, <1>2, <1>3, <1>4, <1>5 DEF Next

\* The marker the next decision about r goes by.
Marker(r) == Effective(r).completedHeadSHA

\* A step that completes nothing keeps the markers, or forgets what it drops.
LEMMA MarkerKept ==
  ASSUME TypeInv, CompletionInv, [Next]_vars, NEW r \in Repo,
         ~ \E q \in Repo : CompleteTask(q)
  PROVE  \/ Marker(r)' = Marker(r)
         \/ Forgetting /\ ForgetUnsaved
         \/ LoseCursor
<1> USE DEF Marker, Effective
<1>1. CASE UNCHANGED vars \/ Environment
  BY <1>1 DEF vars, Environment, cycleVars
<1>2. CASE \E f \in BOOLEAN : LoadCursor(f)
  BY <1>2 DEF LoadCursor
<1>3. CASE Reading
  <2>1. mem' = mem /\ disk' = disk /\ pc # "idle" /\ pc' # "idle"
    BY <1>3 DEF Reading, LatestStable, ListRepos, GetHeadSHA, GetGoMod, GetMaintainerConfig,
       SuppressInFlight, DropRepo, SkipCompleted, NotMerged, CompleteFails, MergedCallFails,
       MergedRateLimited, Cancelled, NextRepo, NextMerged, GoTo
  <2> QED BY <2>1
<1>4. CASE AbortEarly
  BY <1>4 DEF AbortEarly, IdleCycle, CompletionInv, FreshInv
<1>5. CASE Forgetting \/ LoseCursor
  BY <1>5 DEF Forgetting, RateLimited, SaveFails, Crash
<1>6. CASE SaveCursor
  BY <1>6 DEF SaveCursor, IdleCycle
<1>7. CASE OpenUpdatePRGate \/ SkipRepo \/ Emitting
  <2>1. PICK q \in Repo : q = Current
    BY <1>7, CurrentType DEF OpenUpdatePRGate, SkipRepo, Emitting, PublishCreate, PublishFails,
       TypeInv, TypeOK, AtRepo
  <2>2. /\ pc # "idle" /\ pc' # "idle"
        /\ \/ mem' = mem
           \/ mem' = [mem EXCEPT ![q] = ClearInFlight(mem[q], latestGo)]
           \/ mem' = [mem EXCEPT ![q] = Published(mem[q], cand.headSHA, latestGo)]
    BY <1>7, <2>1 DEF OpenUpdatePRGate, SkipRepo, Emitting, PublishCreate, PublishFails,
       Settled, NextRepo, GoTo
  <2>3. mem \in Cursor /\ mem[q] \in RepoState
    BY DEF TypeInv, TypeOK, Cursor
  <2>4. /\ ClearInFlight(mem[q], latestGo).completedHeadSHA = mem[q].completedHeadSHA
        /\ Published(mem[q], cand.headSHA, latestGo).completedHeadSHA = mem[q].completedHeadSHA
    BY <2>3, ClearInFlightType DEF Published
  <2>5. mem'[r].completedHeadSHA = mem[r].completedHeadSHA
    BY <2>2, <2>3, <2>4 DEF Cursor
  <2> QED BY <2>2, <2>5
<1> QED BY <1>1, <1>2, <1>3, <1>4, <1>5, <1>6, <1>7
        DEF Next, Progress, Failure, Reading, Emitting, Forgetting

\* Completing the task an entry names moves its marker on.
LEMMA MarkerMoved ==
  ASSUME TypeInv, CompletionInv, NEW r \in Repo, CompleteTask(r)
  PROVE  /\ Marker(r)' = RecordedTask(r).sha
         /\ Marker(r) \in Nat /\ RecordedTask(r).sha \in Nat
         /\ Marker(r) < RecordedTask(r).sha
         /\ \A q \in Repo \ {r} : Marker(q)' = Marker(q)
<1>1. /\ pc # "idle" /\ pc' # "idle"
      /\ mem' = [mem EXCEPT ![r].completedHeadSHA = mem[r].lastSeenHeadSHA]
      /\ ~NothingToComplete(mem[r])
  BY DEF CompleteTask, NextMerged
<1>2. mem \in Cursor /\ mem[r] \in RepoState
  BY DEF TypeInv, TypeOK, Cursor
<1>3. mem[r].completedHeadSHA < mem[r].lastSeenHeadSHA
  BY <1>1, <1>2, CursorHeads DEF NothingToComplete, CompletionInv, Ordered
<1>4. /\ mem'[r].completedHeadSHA = mem[r].lastSeenHeadSHA
      /\ \A q \in Repo \ {r} : mem'[q] = mem[q]
  BY <1>1, <1>2 DEF Cursor, RepoState
<1> QED BY <1>1, <1>2, <1>3, <1>4, CursorHeads DEF Marker, Effective, RecordedTask

\* A completion marks its entry, and a marker is only lost with the cursor.
LEMMA MarkerStep ==
  ASSUME TypeInv, TypeInv', CompletionInv, [Next]_vars
  PROVE  MarkerInv'
<1>1. \A t \in Task : t.repo \in Repo /\ t.sha \in Nat
  BY WorldAssumption DEF Task, SHA
<1>2. completed \subseteq Task
  BY DEF TypeInv, TypeOK, WorldTypeOK
<1>3. \A t \in completed \ forgot : t.sha <= Marker(t.repo)
  BY DEF CompletionInv, MarkerInv, Marker
<1>4. SUFFICES \A t \in completed' \ forgot' : t.sha <= Marker(t.repo)'
  BY DEF MarkerInv, Marker
<1>5. ASSUME NEW r \in Repo, CompleteTask(r)
      PROVE  \A t \in completed' \ forgot' : t.sha <= Marker(t.repo)'
  <2>1. /\ forgot' = forgot \ {RecordedTask(r)}
        /\ completed' = completed \cup {RecordedTask(r)}
    BY <1>5 DEF CompleteTask
  <2>2. RecordedTask(r).repo = r
    BY DEF RecordedTask
  <2>3. SUFFICES ASSUME NEW t \in completed' \ forgot' PROVE t.sha <= Marker(t.repo)'
    OBVIOUS
  <2>4. CASE t = RecordedTask(r)
    BY <1>5, <2>2, <2>4, MarkerMoved
  <2>5. CASE t # RecordedTask(r)
    <3>1. t \in completed \ forgot /\ t.repo \in Repo /\ t.sha \in Nat
      BY <1>1, <1>2, <2>1, <2>5
    <3>2. t.sha <= Marker(t.repo)
      BY <1>3, <3>1
    <3>3. CASE t.repo = r
      BY <1>5, <3>1, <3>2, <3>3, MarkerMoved
    <3>4. CASE t.repo # r
      BY <1>5, <3>1, <3>2, <3>4, MarkerMoved
    <3> QED BY <3>3, <3>4
  <2> QED BY <2>4, <2>5
<1>6. ASSUME ~ \E r \in Repo : CompleteTask(r),
             NEW t \in completed' \ forgot'
      PROVE  t.sha <= Marker(t.repo)'
  <2>1. t \in completed \ forgot
    <3>1. CASE CompleteFails
      BY <3>1 DEF CompleteFails
    <3>2. CASE ~CompleteFails
      BY <1>6, <3>2, CompletionSteps DEF ForgetUnsaved
    <3> QED BY <3>1, <3>2
  <2>2. t.repo \in Repo /\ t.sha <= Marker(t.repo)
    BY <1>1, <1>2, <1>3, <2>1
  <2>3. CASE Marker(t.repo)' = Marker(t.repo)
    BY <2>2, <2>3
  <2>4. CASE LoseCursor
    BY <1>6, <2>1, <2>4 DEF LoseCursor
  <2>5. CASE Forgetting /\ ForgetUnsaved
    <3>1. mem[t.repo].completedHeadSHA = disk[t.repo].completedHeadSHA
      BY <1>6, <2>1, <2>5 DEF ForgetUnsaved
    <3>2. pc # "idle" /\ pc' = "idle" /\ disk' = disk
      BY <2>5 DEF Forgetting, RateLimited, SaveFails, Crash, IdleCycle
    <3>3. Marker(t.repo)' = Marker(t.repo)
      BY <3>1, <3>2 DEF Marker, Effective
    <3> QED BY <2>2, <3>3
  <2> QED BY <1>6, <2>2, <2>3, <2>4, <2>5, MarkerKept
<1> QED BY <1>5, <1>6

\* The invariant holds when the watcher starts.
LEMMA CompletionInit == Init => CompletionInv
<1> SUFFICES ASSUME Init PROVE CompletionInv
  OBVIOUS
<1>1. \A r \in Repo : HeadOf(r) \in Nat
  <2>1. TypeInv
    BY TypeInit
  <2>2. SHA \subseteq Nat
    BY WorldAssumption DEF SHA
  <2> QED BY <2>1, <2>2 DEF TypeInv, TypeOK, WorldTypeOK
<1>2. Ordered(disk) /\ Ordered(mem)
  BY <1>1 DEF Init, Ordered, ColdCursor, NoState, None
<1>3. CandidateOrdered /\ FreshInv /\ MarkerInv
  BY DEF Init, WorldInit, CandidateOrdered, HeadRead, FreshInv, MarkerInv
<1> QED BY <1>2, <1>3 DEF CompletionInv

\* The invariant is kept by every step.
LEMMA CompletionStep ==
  ASSUME TypeInv, TypeInv', CompletionInv, [Next]_vars
  PROVE  CompletionInv'
<1>1. FreshInv'
  BY FreshStep DEF CompletionInv
<1> QED BY <1>1, OrderedStep, CandidateOrderedStep, MarkerStep DEF CompletionInv

\* A completion is published once per commit the cursor has not lost track of.
THEOREM CompletedOnce == Spec => NoSecondCompletion
<1>1. TypeInv /\ CompletionInv /\ [Next]_vars => TypeInv' /\ CompletionInv'
  BY TypeStep, CompletionStep
<1>2. TypeInv /\ CompletionInv /\ [Next]_vars =>
        [\A r \in Repo : CompleteTask(r) =>
           ~ \E t \in completed \ forgot :
               t.repo = r /\ t.sha = mem[r].lastSeenHeadSHA]_vars
  <2>1. SUFFICES ASSUME TypeInv, CompletionInv, [Next]_vars,
                        NEW r \in Repo, CompleteTask(r),
                        NEW t \in completed \ forgot,
                        t.repo = r, t.sha = mem[r].lastSeenHeadSHA
                 PROVE  FALSE
    OBVIOUS
  <2>2. Marker(r) \in Nat /\ RecordedTask(r).sha \in Nat /\ Marker(r) < RecordedTask(r).sha
    BY <2>1, MarkerMoved
  <2>3. t.sha = RecordedTask(r).sha
    BY <2>1 DEF RecordedTask
  <2>4. t.sha <= Marker(r)
    BY <2>1 DEF CompletionInv, MarkerInv, Marker
  <2> QED BY <2>2, <2>3, <2>4
<1> QED BY <1>1, <1>2, TypeInit, CompletionInit, PTL DEF Spec, NoSecondCompletion

\* Only a filed task is completed, and only after its branch has merged.
THEOREM CompletionsJustified == Spec => []CompletedJustified
<1>1. Init => CompletedJustified
  BY DEF Init, WorldInit, CompletedJustified
<1>2. TypeInv /\ CompletedJustified /\ [Next]_vars => CompletedJustified'
  <2>1. SUFFICES ASSUME TypeInv, CompletedJustified, [Next]_vars
                 PROVE  CompletedJustified'
    OBVIOUS
  <2>2. filed \subseteq filed' /\ merged \subseteq merged'
    <3>1. CASE UNCHANGED vars
      BY <3>1 DEF vars, worldVars, github, controller
    <3>2. CASE Environment
      BY <2>1, <3>2, WorldStepType DEF Environment, TypeInv, TypeOK
    <3>3. CASE (\E f \in BOOLEAN : LoadCursor(f)) \/ Progress \/ Failure
      <4>1. merged' = merged
        BY <3>3, CycleStepWorld DEF github
      <4>2. ASSUME \E f \in BOOLEAN : LoadCursor(f) PROVE filed \subseteq filed'
        BY <4>2 DEF LoadCursor, worldVars, controller
      <4>3. ASSUME Progress PROVE filed \subseteq filed'
        BY <4>3 DEF Progress, LatestStable, ListRepos, GetHeadSHA, GetGoMod,
           GetMaintainerConfig, OpenUpdatePRGate, SuppressInFlight, SkipRepo, PublishCreate,
           SkipCompleted, NotMerged, CompleteTask, SaveCursor, worldVars, controller
      <4>4. ASSUME Failure PROVE filed \subseteq filed'
        BY <4>4 DEF Failure, AbortEarly, DropRepo, RateLimited, PublishFails, CompleteFails,
           MergedCallFails, MergedRateLimited, Cancelled, SaveFails, Crash, LoseCursor,
           worldVars, controller
      <4> QED BY <3>3, <4>1, <4>2, <4>3, <4>4
    <3> QED BY <2>1, <3>1, <3>2, <3>3 DEF Next
  <2>3. \A t \in completed' \ completed :
          t \in filed /\ MergedUpdatePR(t.repo, t.sha)
    <3>1. ASSUME NEW r \in Repo, ~NothingToComplete(mem[r]), MergedUpdate(r)
          PROVE  /\ RecordedTask(r) \in filed
                 /\ MergedUpdatePR(RecordedTask(r).repo, RecordedTask(r).sha)
      BY <2>1, <3>1, RecordedTaskFiled
         DEF MergedUpdate, GetMergedUpdatePR, MergedUpdatePR, RecordedTask
    <3>2. ASSUME NEW r \in Repo, CompleteTask(r)
          PROVE  completed' = completed \cup {RecordedTask(r)}
                 /\ ~NothingToComplete(mem[r]) /\ MergedUpdate(r)
      BY <3>2 DEF CompleteTask
    <3>3. ASSUME CompleteFails
          PROVE  /\ Current \in Repo
                 /\ completed' \subseteq completed \cup {RecordedTask(Current)}
                 /\ ~NothingToComplete(mem[Current]) /\ MergedUpdate(Current)
      BY <2>1, <3>3, CurrentType DEF CompleteFails, TypeInv, TypeOK, AtRepo
    <3> QED BY <2>1, <3>1, <3>2, <3>3, CompletionSteps
  <2> QED BY <2>1, <2>2, <2>3 DEF CompletedJustified, MergedUpdatePR
<1> QED BY <1>1, <1>2, TypeInit, TypeStep, PTL DEF Spec

-----------------------------------------------------------------------------
(* The ledger of commands *)

LedgerInv == TypeInv /\ ClaimsInv /\ CompletionInv

\* A claim is live on the release last emitted, if at all.
LEMMA LiveClaimMeans ==
  ASSUME NEW r \in Repo
  PROVE  /\ LiveClaim(r) \in {emitted[r].go, None}
         /\ LiveClaim(r) # None => LiveClaim(r) = emitted[r].go /\ ~ClaimEnded(r)
  BY DEF LiveClaim

\* The claims are a matter of the emissions, their evidence and the clock.
LEMMA SameClaim ==
  ASSUME NEW r \in Repo, emitted'[r] = emitted[r], evidence'[r] = evidence[r], now' = now
  PROVE  LiveClaim(r)' = LiveClaim(r)
  BY DEF LiveClaim, ClaimEnded

\* A step that sends no create command makes no claim.
LEMMA ClaimsOnlyEnd ==
  ASSUME TypeInv, TypeInv', [Next]_vars, ~Emitting, NEW r \in Repo
  PROVE  LiveClaim(r)' \in {LiveClaim(r), None}
<1>1. emitted' = emitted
  BY EvidenceGrows
<1>2. ClaimEnded(r) => ClaimEnded(r)'
  BY EndedStays
<1> QED BY <1>1, <1>2 DEF LiveClaim

\* The world never takes a step that leaves it as it is.
LEMMA WorldMoves ==
  ASSUME TypeInv, WorldStep
  PROVE  ~ UNCHANGED <<commits, open, buried, latest, now>>
<1>1. ASSUME NEW r \in Repo, NEW c \in Commit, AddCommit(r, c)
      PROVE  commits' # commits
  <2>1. commits \in [Repo -> Seq(Commit)] /\ HeadOf(r) \in Nat
    BY WorldAssumption DEF TypeInv, TypeOK, WorldTypeOK, SHA
  <2>2. HeadOf(r)' = HeadOf(r) + 1
    BY <1>1, <2>1, AddCommitType
  <2> QED BY <2>1, <2>2 DEF HeadOf
<1>2. CASE \E r \in Repo : Push(r)
  BY <1>1, <1>2, WorldAssumption DEF Push
<1>3. CASE Release \/ Tick
  <2>1. latest \in Nat /\ now \in Nat
    BY WorldAssumption DEF TypeInv, TypeOK, WorldTypeOK, Version
  <2> QED BY <1>3, <2>1 DEF Release, Tick
<1>4. ASSUME NEW t \in Task, OpenPR(t) \/ ClosePR(t) \/ MergePR(t)
      PROVE  open' # open
  <2>1. CASE OpenPR(t)
    BY <2>1 DEF OpenPR, SameBranch
  <2>2. CASE ClosePR(t) \/ MergePR(t)
    BY <2>2 DEF ClosePR, MergePR
  <2> QED BY <1>4, <2>1, <2>2
<1>5. ASSUME NEW t \in Task, Bury(t) \/ Unbury(t)
      PROVE  buried' # buried
  BY <1>5 DEF Bury, Unbury
<1> QED BY <1>2, <1>3, <1>4, <1>5 DEF WorldStep

\* What the steps that send nothing do to the ledger.
LEMMA SilentSteps ==
  ASSUME TypeInv, [Next]_vars, ~Emitting, ~CompleteFails,
         ~ \E r \in Repo : CompleteTask(r)
  PROVE  /\ UNCHANGED <<filed, completed>>
         /\ \/ Environment /\ UNCHANGED <<forgot, faults>> /\ merged \subseteq merged'
            \/ /\ UNCHANGED <<github, latest, now>>
               /\ \/ UNCHANGED <<emitted, evidence, forgot, faults>>
                  \/ faults' = faults + 1 /\ completed \ forgot' \subseteq completed \ forgot
<1>1. CASE UNCHANGED vars
  BY <1>1 DEF vars, worldVars, controller, historyVars
<1>2. CASE Environment
  BY <1>2, WorldStepType DEF Environment, TypeInv, TypeOK
<1>3. CASE \E f \in BOOLEAN : LoadCursor(f)
  BY <1>3 DEF LoadCursor, worldVars, controller
<1>4. CASE Progress
  BY <1>4 DEF Emitting, Progress, LatestStable, ListRepos, GetHeadSHA, GetGoMod,
     GetMaintainerConfig, OpenUpdatePRGate, SuppressInFlight, SkipCompleted, NotMerged,
     SaveCursor, SkipRepo, Fault, worldVars, controller, historyVars
<1>5. CASE Failure
  <2>1. UNCHANGED <<github, latest, now, filed, completed>> /\ faults' = faults + 1
    BY <1>5 DEF Emitting, Failure, AbortEarly, DropRepo, RateLimited, MergedCallFails,
       MergedRateLimited, Cancelled, SaveFails, Crash, LoseCursor, Fault, worldVars, controller
  <2>2. forgot \subseteq forgot' \/ forgot' = completed
    BY <1>5 DEF Emitting, Failure, AbortEarly, DropRepo, RateLimited, MergedCallFails,
       MergedRateLimited, Cancelled, SaveFails, Crash, LoseCursor, ForgetUnsaved, historyVars
  <2> QED BY <2>1, <2>2
<1> QED BY <1>1, <1>2, <1>3, <1>4, <1>5 DEF Next

\* The task of a candidate the cycle decides on.
LEMMA CurrentTaskType ==
  ASSUME TypeInv, pc = "decide"
  PROVE  /\ Current \in Repo /\ latestGo \in Version /\ CurrentTask \in Task
         /\ CurrentTask.repo = Current /\ CurrentTask.go = latestGo
  BY CurrentType DEF TypeInv, TypeOK, AtRepo, ControlInv, CurrentTask, Task

\* A create command goes out only when no claim on its release is live.
LEMMA NoLiveClaim ==
  ASSUME LedgerInv, Emitting
  PROVE  LiveClaim(Current) # latestGo
<1>1. pc = "decide" /\ ~EmissionInFlight(Current) /\ TypeInv /\ ClaimsInv
  BY DEF Emitting, PublishCreate, PublishFails, LedgerInv
<1>2. Current \in Repo /\ latestGo # None
  BY <1>1, CurrentTaskType, WorldAssumption DEF Version, None
<1>3. SUFFICES ASSUME LiveClaim(Current) = latestGo PROVE FALSE
  OBVIOUS
<1>4. emitted[Current].go = latestGo /\ ~ClaimEnded(Current)
  BY <1>2, <1>3, LiveClaimMeans
<1>5. mem[Current].inFlightTarget = latestGo
  BY <1>1, <1>2, <1>4 DEF ClaimsInv, ClaimInv, Effective, Claim
<1> QED BY <1>1, <1>2, <1>4, <1>5, ClearedClaimEnded

\* A delivered create command is a step of the ledger.
LEMMA CreateStep ==
  ASSUME LedgerInv, Emitting, filed' = filed \cup {CurrentTask},
         NEW extra, RecordEmission(Current, extra)
  PROVE  Ledger!Next
<1>1. TypeInv /\ pc = "decide"
  BY DEF LedgerInv, Emitting, PublishCreate, PublishFails
<1>2. PICK t \in Task, c \in Repo :
        t = CurrentTask /\ c = Current /\ t.repo = c /\ t.go = latestGo
  BY <1>1, CurrentTaskType
<1>3. /\ UNCHANGED <<commits, open, buried, latest, now, merged, completed, forgot>>
      /\ faults' \in {faults, faults + 1}
  BY DEF Emitting, PublishCreate, PublishFails, Fault, github
<1>4. /\ emitted'[c].go = latestGo
      /\ \A r \in Repo \ {c} : emitted'[r] = emitted[r] /\ evidence'[r] = evidence[r]
  BY <1>1, <1>2 DEF RecordEmission, TypeInv, TypeOK, HistoryTypeOK
<1>5. \A r \in Repo \ {c} : LiveClaim(r)' = LiveClaim(r)
  BY <1>3, <1>4, SameClaim
<1>6. LiveClaim(c)' \in {latestGo, None}
  BY <1>4 DEF LiveClaim
<1>7. LiveClaim(c) # latestGo
  BY <1>2, NoLiveClaim
<1>8. Ledger!Create(t)
  BY <1>2, <1>3, <1>5, <1>6, <1>7 DEF Ledger!Create
<1> QED BY <1>2, <1>8 DEF Ledger!Next

\* A task the merge-detection pass is about to complete is not settled.
LEMMA NotSettled ==
  ASSUME TypeInv, CompletionInv, NEW r \in Repo, pc # "idle", ~NothingToComplete(mem[r])
  PROVE  /\ RecordedTask(r) \in filed \ (completed \ forgot)
         /\ RecordedTask(r) \in Task /\ RecordedTask(r).repo = r
<1>1. RecordedTask(r) \in filed /\ RecordedTask(r) \in Task
  BY RecordedTaskFiled
<1>2. RecordedTask(r).repo = r /\ RecordedTask(r).sha = mem[r].lastSeenHeadSHA
  BY DEF RecordedTask
<1>3. /\ mem[r].completedHeadSHA \in Nat /\ mem[r].lastSeenHeadSHA \in Nat
      /\ mem[r].completedHeadSHA < mem[r].lastSeenHeadSHA
  BY CursorHeads DEF TypeInv, TypeOK, NothingToComplete, CompletionInv, Ordered
<1>4. ASSUME RecordedTask(r) \in completed \ forgot PROVE FALSE
  BY <1>2, <1>3, <1>4 DEF CompletionInv, MarkerInv, Effective
<1> QED BY <1>1, <1>2, <1>4

\* A complete command is a step of the ledger.
LEMMA CompleteStep ==
  ASSUME LedgerInv, CompleteFails \/ \E r \in Repo : CompleteTask(r)
  PROVE  Ledger!Next
<1>1. TypeInv /\ CompletionInv
  BY DEF LedgerInv
<1>2. PICK r \in Repo : r = Current
  BY <1>1, CurrentType DEF CompleteFails, CompleteTask, TypeInv, TypeOK, AtRepo
<1>3. /\ pc = "merged" /\ ~NothingToComplete(mem[r]) /\ MergedUpdate(r)
      /\ UNCHANGED <<commits, open, buried, latest, now, merged, filed, emitted, evidence>>
  BY <1>2 DEF CompleteFails, CompleteTask, github
<1>4. /\ RecordedTask(r) \in filed \ (completed \ forgot)
      /\ RecordedTask(r) \in Task /\ RecordedTask(r).repo = r
  BY <1>1, <1>3, NotSettled
<1>5. \E u \in merged : /\ u.repo = RecordedTask(r).repo
                        /\ ShortSHA[u.sha] = ShortSHA[RecordedTask(r).sha]
  BY <1>3 DEF MergedUpdate, GetMergedUpdatePR, SameBranch, RecordedTask
<1>6. \A q \in Repo : LiveClaim(q)' = LiveClaim(q)
  BY <1>3, SameClaim
<1>7. \/ /\ completed' = completed \cup {RecordedTask(r)}
         /\ \/ forgot' = forgot \ {RecordedTask(r)} /\ UNCHANGED faults
            \/ forgot' = forgot \cup {RecordedTask(r)} /\ faults' = faults + 1
      \/ UNCHANGED <<completed, forgot>> /\ faults' = faults + 1
  BY <1>2 DEF CompleteFails, CompleteTask, Fault
<1>8. CASE completed' = completed \cup {RecordedTask(r)}
  <2>1. \/ (completed \ forgot)' = (completed \ forgot) \cup {RecordedTask(r)} /\ UNCHANGED faults
        \/ (completed \ forgot)' = completed \ forgot /\ faults' = faults + 1
    BY <1>4, <1>7, <1>8
  <2>2. Ledger!Complete(RecordedTask(r))
    BY <1>3, <1>4, <1>5, <1>6, <1>8, <2>1 DEF Ledger!Complete
  <2> QED BY <1>4, <2>2 DEF Ledger!Next
<1>9. CASE UNCHANGED <<completed, forgot>> /\ faults' = faults + 1
  BY <1>3, <1>6, <1>9 DEF Ledger!Next, Ledger!Fail, Ledger!ClaimsEnd
<1> QED BY <1>7, <1>8, <1>9

\* Every step of the watcher is a step of the ledger, or none.
LEMMA LedgerStep ==
  ASSUME LedgerInv, TypeInv', [Next]_vars
  PROVE  [Ledger!Next]_(Ledger!vars)
<1>1. TypeInv
  BY DEF LedgerInv
<1>2. CASE Emitting
  <2>1. ASSUME NEW extra, filed' = filed \cup {CurrentTask}, RecordEmission(Current, extra)
        PROVE  Ledger!Next
    BY <1>2, <2>1, CreateStep
  <2>2. CASE PublishFails /\ UNCHANGED <<filed, emitted, evidence>>
    <3>1. /\ UNCHANGED <<commits, open, buried, latest, now, merged, filed, completed, forgot>>
          /\ faults' = faults + 1
      BY <2>2 DEF PublishFails, Fault, github
    <3>2. \A r \in Repo : LiveClaim(r)' = LiveClaim(r)
      BY <2>2, <3>1, SameClaim
    <3> QED BY <3>1, <3>2 DEF Ledger!Next, Ledger!Fail, Ledger!ClaimsEnd
  <2> QED BY <1>2, <2>1, <2>2 DEF Emitting, PublishCreate, PublishFails
<1>3. CASE CompleteFails \/ \E r \in Repo : CompleteTask(r)
  BY <1>3, CompleteStep
<1>4. CASE ~Emitting /\ ~CompleteFails /\ ~ \E r \in Repo : CompleteTask(r)
  <2>1. UNCHANGED <<filed, completed>>
    BY <1>1, <1>4, SilentSteps
  <2>2. \A r \in Repo : LiveClaim(r)' \in {LiveClaim(r), None}
    BY <1>1, <1>4, ClaimsOnlyEnd
  <2>3. CASE Environment /\ UNCHANGED <<forgot, faults>> /\ merged \subseteq merged'
    <3>1. <<commits, open, buried, latest, now>>' # <<commits, open, buried, latest, now>>
      BY <1>1, <2>3, WorldMoves DEF Environment
    <3> QED BY <2>1, <2>2, <2>3, <3>1 DEF Ledger!Next, Ledger!World, Ledger!ClaimsEnd
  <2>4. CASE UNCHANGED <<github, latest, now>> /\ UNCHANGED <<emitted, evidence, forgot, faults>>
    <3>1. \A r \in Repo : LiveClaim(r)' = LiveClaim(r)
      BY <2>4, SameClaim
    <3> QED BY <2>1, <2>4, <3>1 DEF Ledger!vars, github
  <2>5. CASE /\ UNCHANGED <<github, latest, now>>
             /\ faults' = faults + 1 /\ completed \ forgot' \subseteq completed \ forgot
    BY <2>1, <2>2, <2>5 DEF Ledger!Next, Ledger!Fail, Ledger!ClaimsEnd, github
  <2> QED BY <1>1, <1>4, <2>3, <2>4, <2>5, SilentSteps
<1> QED BY <1>2, <1>3, <1>4

\* The watcher keeps the ledger.
THEOREM LedgerKept == Spec => KeepsLedger
<1>1. Init => Ledger!Init
  BY DEF Init, WorldInit, Ledger!Init, LiveClaim, NeverEmitted
<1>2. Init => LedgerInv
  BY TypeInit, ClaimsInit, CompletionInit DEF LedgerInv
<1>3. LedgerInv /\ [Next]_vars => LedgerInv' /\ [Ledger!Next]_(Ledger!vars)
  <2> SUFFICES ASSUME LedgerInv, [Next]_vars
               PROVE  LedgerInv' /\ [Ledger!Next]_(Ledger!vars)
    OBVIOUS
  <2>1. TypeInv'
    BY TypeStep DEF LedgerInv
  <2> QED BY <2>1, ClaimsStep, CompletionStep, LedgerStep DEF LedgerInv
<1> QED BY <1>1, <1>2, <1>3, PTL DEF Spec, KeepsLedger, Ledger!Spec

=============================================================================

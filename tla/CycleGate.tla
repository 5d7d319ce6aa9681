----------------------------- MODULE CycleGate -----------------------------
(***************************************************************************)
(* The single cycle slot (pkg/cyclegate.go) and everyone who competes for  *)
(* it: the poll loop (main.go) and the requests to POST /trigger, each of  *)
(* which hands the slot it acquired over to a goroutine of its own         *)
(* (pkg/handler/trigger_handler.go).  What Poll does is module Watcher;    *)
(* here it is a call that takes time and may return, fail or panic.        *)
(*                                                                         *)
(* run.BackgroundRunner is a library: Run either reports an error and does *)
(* not start the function, or returns nil and the function is called once. *)
(* The handler relies on that, and so does this module.                    *)
(***************************************************************************)
EXTENDS Naturals

CONSTANTS
  Poller,      \* the poll loop
  Request,     \* trigger requests that may be on their way at one time
  MaxRestarts  \* bound: crashes and shutdowns of the process

ASSUME GateAssumption ==
  /\ Poller \notin Request
  /\ MaxRestarts \in Nat

Starter == Request \cup {Poller}

VARIABLES
  slot,      \* the channel of capacity 1 holds its element
  loop,      \* the next step of the poll loop
  trigger,   \* trigger[q]: the next step of request q or of its goroutine
  tick,      \* the ticker's channel holds a tick
  stopping,  \* the application's context is cancelled
  restarts   \* crashes and shutdowns so far

vars == <<slot, loop, trigger, tick, stopping, restarts>>

LoopStep    == {"try", "poll", "release", "unwind", "wait", "stopped"}
TriggerStep == {"none", "try", "start", "give_up", "begin", "poll", "release"}

Init ==
  /\ slot = FALSE
  /\ loop = "try"
  /\ trigger = [q \in Request |-> "none"]
  /\ tick = FALSE
  /\ stopping = FALSE
  /\ restarts = 0

-----------------------------------------------------------------------------
(* The gate *)

\* Mutant: the channel has room for more than one.
AcquireAlways == slot' = TRUE

\* TryAcquire returns true.
Acquire ==
  /\ ~slot
  /\ slot' = TRUE

\* TryAcquire returns false.
Busy == slot /\ UNCHANGED slot

\* Release asks nobody whether they hold the slot.
Release == slot' = FALSE

-----------------------------------------------------------------------------
(* pollLoop *)

LoopGoes(step) ==
  /\ loop' = step
  /\ UNCHANGED <<trigger, stopping, restarts>>

LoopAcquires == loop = "try" /\ Acquire /\ LoopGoes("poll") /\ UNCHANGED tick

\* Mutant: the deferred Release stands before the check.
LoopSkipsReleasing == loop = "try" /\ slot /\ Release /\ LoopGoes("wait") /\ UNCHANGED tick

LoopSkips == loop = "try" /\ Busy /\ LoopGoes("wait") /\ UNCHANGED tick

LoopPollReturns == loop = "poll" /\ LoopGoes("release") /\ UNCHANGED <<slot, tick>>

\* Poll panics.  Nothing in the loop recovers, so this is a crash to come.
LoopPollPanics ==
  /\ loop = "poll"
  /\ restarts < MaxRestarts
  /\ LoopGoes("unwind")
  /\ UNCHANGED <<slot, tick>>

\* The deferred Release, also run while a panic unwinds.
LoopReleases ==
  /\ loop \in {"release", "unwind"}
  /\ Release
  /\ LoopGoes(IF loop = "release" THEN "wait" ELSE "stopped")
  /\ UNCHANGED tick

LoopTicks == loop = "wait" /\ tick /\ tick' = FALSE /\ LoopGoes("try") /\ UNCHANGED slot

LoopStops == loop = "wait" /\ stopping /\ LoopGoes("stopped") /\ UNCHANGED <<slot, tick>>

LoopRuns ==
  \/ LoopAcquires \/ LoopSkips \/ LoopPollReturns \/ LoopPollPanics
  \/ LoopReleases \/ LoopTicks \/ LoopStops

\* The ticker drops the ticks nobody has received.
Tick ==
  /\ ~tick
  /\ tick' = TRUE
  /\ UNCHANGED <<slot, loop, trigger, stopping, restarts>>

-----------------------------------------------------------------------------
(* TriggerHandler.ServeHTTP and the function it hands to the runner *)

TriggerGoes(q, step) ==
  /\ trigger' = [trigger EXCEPT ![q] = step]
  /\ UNCHANGED <<loop, tick, stopping, restarts>>

\* An operator sends POST /trigger.
TriggerSent(q) == trigger[q] = "none" /\ TriggerGoes(q, "try") /\ UNCHANGED slot

TriggerAcquires(q) == trigger[q] = "try" /\ Acquire /\ TriggerGoes(q, "start")

\* 409 Conflict.
TriggerConflicts(q) == trigger[q] = "try" /\ Busy /\ TriggerGoes(q, "none")

\* The runner takes the function.  202 Accepted is written while it runs.
TriggerStarts(q) == trigger[q] = "start" /\ TriggerGoes(q, "begin") /\ UNCHANGED slot

TriggerStartFails(q) == trigger[q] = "start" /\ TriggerGoes(q, "give_up") /\ UNCHANGED slot

\* Mutant: the slot stays with a request that could not start its cycle.
TriggerGivesUpHolding(q) == trigger[q] = "give_up" /\ TriggerGoes(q, "none") /\ UNCHANGED slot

\* 500 Internal Server Error.
TriggerGivesUp(q) == trigger[q] = "give_up" /\ Release /\ TriggerGoes(q, "none")

TriggerPolls(q) == trigger[q] = "begin" /\ TriggerGoes(q, "poll") /\ UNCHANGED slot

\* Mutant: a panic skips the Release.
TriggerPollPanics(q) ==
  trigger[q] = "poll" /\ (\E step \in {"release", "none"} : TriggerGoes(q, step)) /\ UNCHANGED slot

\* Poll returns, fails or panics: run.CatchPanic makes the three the same.
TriggerPollEnds(q) == trigger[q] = "poll" /\ TriggerGoes(q, "release") /\ UNCHANGED slot

TriggerReleases(q) == trigger[q] = "release" /\ Release /\ TriggerGoes(q, "none")

TriggerRuns(q) ==
  \/ TriggerAcquires(q) \/ TriggerConflicts(q)
  \/ TriggerStarts(q) \/ TriggerStartFails(q) \/ TriggerGivesUp(q)
  \/ TriggerPolls(q) \/ TriggerPollEnds(q) \/ TriggerReleases(q)

-----------------------------------------------------------------------------
(* The process *)

\* A signal cancels the application's context.
Stop ==
  /\ ~stopping
  /\ restarts < MaxRestarts
  /\ stopping' = TRUE
  /\ UNCHANGED <<slot, loop, trigger, tick, restarts>>

\* The process ends, by a crash or because the loop has stopped (nobody waits
\* for a triggered cycle), and is started again.
Restart ==
  /\ restarts < MaxRestarts
  /\ restarts' = restarts + 1
  /\ slot' = FALSE
  /\ loop' = "try"
  /\ trigger' = [q \in Request |-> "none"]
  /\ tick' = FALSE
  /\ stopping' = FALSE

Next ==
  \/ LoopRuns \/ Tick
  \/ \E q \in Request : TriggerSent(q) \/ TriggerRuns(q)
  \/ Stop \/ Restart

Spec == Init /\ [][Next]_vars

\* Goroutines are scheduled, Poll returns (its calls have timeouts), the
\* ticker fires, and a stopped process is started again.  Nothing is assumed
\* of who sends requests.
FairSpec ==
  /\ Spec
  /\ WF_vars(LoopRuns) /\ WF_vars(Tick)
  /\ \A q \in Request : WF_vars(TriggerRuns(q))
  /\ WF_vars(loop = "stopped" /\ Restart)

-----------------------------------------------------------------------------
(* Properties *)

\* Those between a TryAcquire that returned true and the matching Release.
Holders ==
  {q \in Request : trigger[q] \in {"start", "give_up", "begin", "poll", "release"}}
    \cup (IF loop \in {"poll", "release", "unwind"} THEN {Poller} ELSE {})

Polling ==
  {q \in Request : trigger[q] = "poll"} \cup (IF loop = "poll" THEN {Poller} ELSE {})

TypeOK ==
  /\ slot \in BOOLEAN
  /\ loop \in LoopStep
  /\ trigger \in [Request -> TriggerStep]
  /\ tick \in BOOLEAN
  /\ stopping \in BOOLEAN
  /\ restarts \in 0..MaxRestarts

\* The slot is taken exactly while one starter is between its TryAcquire and
\* its Release, so no Release, which asks nobody, frees the slot of another
\* (pkg/cyclegate.go:39, pkg/handler/trigger_handler.go:107-113).
SlotIsHeld ==
  /\ slot <=> Holders # {}
  /\ \A s, t \in Holders : s = t

\* Cycles run one at a time, whoever starts them (pkg/cyclegate.go:9).
OneCycle == INSTANCE Cycle WITH running <- Polling
OneCycleAtATime == OneCycle!Spec

\* The slot does not stay taken: not by a start that failed, a cycle that
\* panicked or a request that was rejected (pkg/cyclegate.go:15).
SlotIsFreed == slot ~> ~slot

\* Cycles keep coming, however often a tick finds the slot taken and however
\* triggered cycles end, unless requests fail to start theirs again and again
\* and take the slot whenever the loop asks for it (main.go:143-166).
CyclesKeepComing ==
  []<>(Polling # {}) \/ []<>(\E q \in Request : trigger[q] = "give_up")

=============================================================================

-------------------------- MODULE CycleGateProofs --------------------------
(***************************************************************************)
(* The gate keeps its promise for every set of requests: poll cycles run   *)
(* one at a time.  The inductive fact is that the slot says who may be     *)
(* past TryAcquire: nobody while it is free, one starter while it is taken. *)
(* Release, which asks nobody, is harmless because only that one calls it. *)
(***************************************************************************)
EXTENDS CycleGate, TLAPS

GateInv == TypeOK /\ SlotIsHeld

\* The steps at which a request holds the slot.
TriggerHolds == {"start", "give_up", "begin", "poll", "release"}
LoopHolds    == {"poll", "release", "unwind"}

\* Holders, member by member.
LEMMA WhoHolds ==
  ASSUME NEW s
  PROVE  /\ s \in Holders <=> \/ s \in Request /\ trigger[s] \in TriggerHolds
                              \/ s = Poller /\ loop \in LoopHolds
         /\ s \in Polling <=> \/ s \in Request /\ trigger[s] = "poll"
                              \/ s = Poller /\ loop = "poll"
  BY DEF Holders, Polling, TriggerHolds, LoopHolds

\* Whoever polls holds the slot.
LEMMA PollingHold == Polling \subseteq Holders
  BY DEF Polling, Holders

\* A request's step leaves everybody else where they are.
LEMMA OthersStay ==
  ASSUME TypeOK, NEW q \in Request, NEW step, TriggerGoes(q, step)
  PROVE  /\ loop' = loop
         /\ trigger'[q] = step
         /\ \A s \in Request \ {q} : trigger'[s] = trigger[s]
  BY DEF TypeOK, TriggerGoes

\* The state is always one the processes can go on from.
LEMMA GateTypeStep == TypeOK /\ [Next]_vars => TypeOK'
<1> SUFFICES ASSUME TypeOK, [Next]_vars PROVE TypeOK'
  OBVIOUS
<1>1. CASE LoopRuns
  BY <1>1 DEF LoopRuns, LoopAcquires, LoopSkips, LoopPollReturns, LoopPollPanics,
     LoopReleases, LoopTicks, LoopStops, LoopGoes, Acquire, Busy, Release, TypeOK, LoopStep
<1>2. ASSUME NEW q \in Request, TriggerSent(q) \/ TriggerRuns(q)
      PROVE  TypeOK'
  BY <1>2 DEF TriggerSent, TriggerRuns, TriggerAcquires, TriggerConflicts, TriggerStarts,
     TriggerStartFails, TriggerGivesUp, TriggerPolls, TriggerPollEnds, TriggerReleases,
     TriggerGoes, Acquire, Busy, Release, TypeOK, TriggerStep
<1>3. CASE Tick \/ Stop
  BY <1>3 DEF Tick, Stop, TypeOK
<1>4. CASE Restart
  <2>1. slot' \in BOOLEAN /\ stopping' \in BOOLEAN /\ tick' \in BOOLEAN
    BY <1>4, Zenon DEF Restart
  <2>2. restarts' \in 0..MaxRestarts
    BY <1>4, GateAssumption DEF Restart, TypeOK
  <2>3. loop' \in LoopStep /\ trigger' \in [Request -> TriggerStep]
    BY <1>4 DEF Restart, LoopStep, TriggerStep
  <2> QED BY <2>1, <2>2, <2>3 DEF TypeOK
<1>5. CASE UNCHANGED vars
  BY <1>5 DEF vars, TypeOK
<1> QED BY <1>1, <1>2, <1>3, <1>4, <1>5 DEF Next

\* A step by which a request takes or gives back the slot, or keeps it as it is.
LEMMA TriggerKeepsSlot ==
  ASSUME GateInv, NEW q \in Request, TriggerSent(q) \/ TriggerRuns(q)
  PROVE  SlotIsHeld'
<1> USE DEF TriggerHolds, LoopHolds
<1>1. CASE TriggerAcquires(q)
  <2>1. Holders = {} /\ slot'
    BY <1>1 DEF GateInv, SlotIsHeld, TriggerAcquires, Acquire
  <2>2. \A s : s \in Holders' <=> s = q
    BY <1>1, <2>1, OthersStay, WhoHolds, GateAssumption
       DEF GateInv, TriggerAcquires, Holders
  <2> QED BY <2>1, <2>2 DEF SlotIsHeld
<1>2. CASE TriggerGivesUp(q) \/ TriggerReleases(q)
  <2>1. q \in Holders /\ ~slot'
    BY <1>2, WhoHolds DEF TriggerGivesUp, TriggerReleases, Release
  <2>2. Holders = {q}
    BY <2>1 DEF GateInv, SlotIsHeld
  <2>3. Holders' = {}
    BY <1>2, <2>2, OthersStay, GateAssumption
       DEF GateInv, TriggerGivesUp, TriggerReleases, Holders
  <2> QED BY <2>1, <2>3 DEF SlotIsHeld
<1>3. CASE \/ TriggerSent(q) \/ TriggerConflicts(q) \/ TriggerStarts(q)
           \/ TriggerStartFails(q) \/ TriggerPolls(q) \/ TriggerPollEnds(q)
  <2>1. slot' = slot
    BY <1>3, Zenon DEF TriggerSent, TriggerConflicts, TriggerStarts, TriggerStartFails,
       TriggerPolls, TriggerPollEnds, Busy
  <2>2. PICK step : /\ TriggerGoes(q, step)
                    /\ step \in TriggerHolds <=> trigger[q] \in TriggerHolds
    BY <1>3 DEF TriggerSent, TriggerConflicts, TriggerStarts, TriggerStartFails,
       TriggerPolls, TriggerPollEnds
  <2>3. Holders' = Holders
    BY <2>2, OthersStay DEF GateInv, Holders
  <2> QED BY <2>1, <2>3 DEF GateInv, SlotIsHeld
<1> QED BY <1>1, <1>2, <1>3 DEF TriggerRuns

\* The same of the poll loop.
LEMMA LoopKeepsSlot ==
  ASSUME GateInv, LoopRuns
  PROVE  SlotIsHeld'
<1>1. CASE LoopAcquires
  <2>1. Holders = {} /\ slot'
    BY <1>1 DEF GateInv, SlotIsHeld, LoopAcquires, Acquire
  <2>2. Holders' = {Poller}
    BY <1>1, <2>1 DEF LoopAcquires, LoopGoes, Holders
  <2> QED BY <2>1, <2>2 DEF SlotIsHeld
<1>2. CASE LoopReleases
  <2>1. Poller \in Holders /\ ~slot'
    BY <1>2 DEF LoopReleases, Release, Holders
  <2>2. Holders = {Poller}
    BY <2>1 DEF GateInv, SlotIsHeld
  <2>3. Holders' = {}
    BY <1>2, <2>2, GateAssumption DEF LoopReleases, LoopGoes, Holders
  <2> QED BY <2>1, <2>3 DEF SlotIsHeld
<1>3. CASE LoopSkips \/ LoopPollReturns \/ LoopPollPanics \/ LoopTicks \/ LoopStops
  <2>1. slot' = slot
    BY <1>3, Zenon DEF LoopSkips, LoopPollReturns, LoopPollPanics, LoopTicks, LoopStops, Busy
  <2>2. Holders' = Holders
    BY <1>3 DEF LoopSkips, LoopPollReturns, LoopPollPanics, LoopTicks, LoopStops, LoopGoes,
       Holders
  <2> QED BY <2>1, <2>2 DEF GateInv, SlotIsHeld
<1> QED BY <1>1, <1>2, <1>3 DEF LoopRuns

\* The gate's invariant is inductive.
LEMMA GateStep == GateInv /\ [Next]_vars => GateInv'
<1> SUFFICES ASSUME GateInv, [Next]_vars PROVE GateInv'
  OBVIOUS
<1>1. TypeOK'
  BY GateTypeStep DEF GateInv
<1>2. ASSUME Tick \/ Stop \/ UNCHANGED vars
      PROVE  SlotIsHeld'
  <2>1. slot' = slot
    BY <1>2, Zenon DEF Tick, Stop, vars
  <2>2. Holders' = Holders
    BY <1>2 DEF Tick, Stop, vars, Holders
  <2> QED BY <2>1, <2>2 DEF GateInv, SlotIsHeld
<1>3. ASSUME Restart
      PROVE  SlotIsHeld'
  <2>1. Holders' = {}
    BY <1>3 DEF Restart, Holders
  <2>2. ~slot'
    BY <1>3, Zenon DEF Restart
  <2> QED BY <2>1, <2>2 DEF SlotIsHeld
<1>4. SlotIsHeld'
  BY <1>2, <1>3, TriggerKeepsSlot, LoopKeepsSlot DEF Next
<1> QED BY <1>1, <1>4 DEF GateInv

\* Nobody holds the slot when the process starts.
LEMMA GateInit == Init => GateInv
<1> SUFFICES ASSUME Init PROVE GateInv
  OBVIOUS
<1>1. slot \in BOOLEAN /\ ~slot /\ stopping \in BOOLEAN /\ tick \in BOOLEAN
  BY Zenon DEF Init
<1>2. restarts \in 0..MaxRestarts
  BY GateAssumption DEF Init
<1>3. loop \in LoopStep /\ trigger \in [Request -> TriggerStep]
  BY DEF Init, LoopStep, TriggerStep
<1>4. Holders = {}
  BY DEF Init, Holders
<1> QED BY <1>1, <1>2, <1>3, <1>4 DEF GateInv, TypeOK, SlotIsHeld

\* The slot is taken exactly while one starter holds it, so that a Release
\* never frees the slot of another.
THEOREM SlotHeld == Spec => []SlotIsHeld
<1>1. GateInv => SlotIsHeld
  BY DEF GateInv
<1> QED BY <1>1, GateInit, GateStep, PTL DEF Spec

-----------------------------------------------------------------------------

\* Polls begin and end one by one.
LEMMA PollingSteps ==
  ASSUME GateInv, GateInv', [Next]_vars
  PROVE  [OneCycle!Next]_Polling
<1>1. \A s, t \in Polling : s = t
  BY PollingHold DEF GateInv, SlotIsHeld
<1>2. CASE Polling # {} /\ Polling' = {}
  BY <1>2 DEF OneCycle!Next, OneCycle!End
<1>3. CASE Polling = {} /\ Polling' # {}
  <2>1. PICK s \in Polling' : Polling' = {s}
    <3>1. \A s, t \in Polling' : s = t
      BY DEF GateInv, SlotIsHeld, Polling, Holders
    <3> QED BY <1>3, <3>1
  <2>2. s \in Starter
    BY <2>1 DEF Polling, Starter
  <2> QED BY <1>3, <2>1, <2>2 DEF OneCycle!Next, OneCycle!Begin
<1>4. CASE Polling # {} /\ Polling' # {}
  <2>1. PICK s : Polling = {s}
    BY <1>1, <1>4
  <2>2. slot /\ Holders = {s}
    BY <2>1, PollingHold DEF GateInv, SlotIsHeld
  <2>3. Polling' \subseteq Polling
    <3>1. CASE LoopRuns
      BY <2>2, <3>1, GateAssumption DEF LoopRuns, LoopAcquires, LoopSkips, LoopPollReturns,
         LoopPollPanics, LoopReleases, LoopTicks, LoopStops, LoopGoes, Acquire, Polling
    <3>2. ASSUME NEW q \in Request, TriggerSent(q) \/ TriggerRuns(q)
          PROVE  Polling' \subseteq Polling
      <4>1. CASE TriggerPolls(q)
        <5>1. q \in Holders /\ q \notin Polling
          BY <4>1, GateAssumption DEF TriggerPolls, Holders, Polling
        <5> QED BY <2>1, <2>2, <5>1
      <4>2. PICK step : TriggerGoes(q, step) /\ (step # "poll" \/ TriggerPolls(q))
        BY <3>2 DEF TriggerSent, TriggerRuns, TriggerAcquires, TriggerConflicts,
           TriggerStarts, TriggerStartFails, TriggerGivesUp, TriggerPolls, TriggerPollEnds,
           TriggerReleases
      <4> QED BY <4>1, <4>2, OthersStay DEF GateInv, Polling
    <3>3. CASE Tick \/ Stop \/ Restart
      BY <3>3 DEF Tick, Stop, Restart, Polling
    <3>4. CASE UNCHANGED vars
      BY <3>4 DEF vars, Polling
    <3> QED BY <3>1, <3>2, <3>3, <3>4 DEF Next
  <2> QED BY <1>4, <2>1, <2>3
<1>5. CASE Polling = {} /\ Polling' = {}
  BY <1>5
<1> QED BY <1>2, <1>3, <1>4, <1>5

\* The gate implements the promise that cycles run one at a time.
THEOREM OneAtATime == Spec => OneCycleAtATime
<1>1. Init => OneCycle!Init
  BY DEF Init, OneCycle!Init, Polling
<1> QED BY <1>1, GateInit, GateStep, PollingSteps, PTL
        DEF Spec, OneCycleAtATime, OneCycle!Spec

=============================================================================

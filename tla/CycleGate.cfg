SPECIFICATION FairSpec
CONSTANTS
  Poller = Poller
  Request = {q1, q2, q3}
  MaxRestarts = 1
INVARIANT SlotIsHeld
PROPERTY OneCycleAtATime
PROPERTY SlotIsFreed
PROPERTY CyclesKeepComing

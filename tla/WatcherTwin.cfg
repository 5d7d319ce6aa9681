\* A completion of a task whose pull request never merged.
CONSTANTS
  r1 = r1
  r2 = r2
  Repo = {r1}
  MaxSHA = 2
  FirstGo = 2
  MaxGo = 3
  MaxTime = 0
  NoGoMod = NoGoMod
  Unparsable = Unparsable
  Contents <- StillBehind
  ShortSHA <- OwnNames
  Crowded = {}
  Retargeted = {}
  Allowlist = {}
  Listings <- Single
  InFlightTTL = 0
  MaxFaults = 0
SPECIFICATION Spec
INVARIANT CompletesOwnTask

\* A second task for one release after a crash before the save.
CONSTANTS
  r1 = r1
  r2 = r2
  Repo = {r1}
  MaxSHA = 2
  FirstGo = 2
  MaxGo = 2
  MaxTime = 0
  NoGoMod = NoGoMod
  Unparsable = Unparsable
  Contents <- StillBehind
  ShortSHA <- OwnNames
  Crowded = {}
  Retargeted = {}
  Allowlist = {}
  Listings <- Single
  InFlightTTL = 0
  MaxFaults = 1
SPECIFICATION Spec
PROPERTY NoSecondTaskAfterLoss

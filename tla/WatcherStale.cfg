\* A repository that stays behind without a claim, a pull request or a new task.
CONSTANTS
  r1 = r1
  r2 = r2
  Repo = {r1}
  MaxSHA = 1
  FirstGo = 2
  MaxGo = 2
  MaxTime = 1
  NoGoMod = NoGoMod
  Unparsable = Unparsable
  Contents <- StillBehind
  ShortSHA <- OwnNames
  Crowded = {}
  Retargeted = {}
  Allowlist = {}
  Listings <- Single
  InFlightTTL = 0
  MaxFaults = 0
SPECIFICATION FairSpec
PROPERTY NoClaimNoPRIsFiled

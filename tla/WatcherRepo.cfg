\* One repository, two commits, two releases ahead of it, a claim that expires,
\* pull requests, merges into another branch, forced cycles and a fault.
CONSTANTS
  r1 = r1
  r2 = r2
  Repo = {r1}
  MaxSHA = 2
  FirstGo = 2
  MaxGo = 3
  MaxTime = 2
  NoGoMod = NoGoMod
  Unparsable = Unparsable
  Contents <- BehindOrCurrent
  ShortSHA <- OwnNames
  Crowded = {}
  Retargeted = {r1}
  Allowlist = {}
  Listings <- Single
  InFlightTTL = 1
  MaxFaults = 1
SPECIFICATION Spec
INVARIANT CompletedJustified CursorTruthful
PROPERTY NoSecondTask NoSecondCompletion KeepsLedger

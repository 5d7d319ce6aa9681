\* One repository under fair scheduling: commits, releases, pull requests, an
\* owner who does not answer, and one fault, after which calls succeed.
CONSTANTS
  r1 = r1
  r2 = r2
  Repo = {r1}
  MaxSHA = 2
  FirstGo = 2
  MaxGo = 3
  MaxTime = 1
  NoGoMod = NoGoMod
  Unparsable = Unparsable
  Contents <- AskedCommits
  ShortSHA <- OwnNames
  Crowded = {}
  Retargeted = {}
  Allowlist = {}
  Listings <- Single
  InFlightTTL = 0
  MaxFaults = 1
SPECIFICATION FairSpec
PROPERTY BehindIsFiled EndedClaimIsRenewed UndecidedIsAsked RecordedMergeIsCompleted

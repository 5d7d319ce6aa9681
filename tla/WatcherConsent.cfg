\* One repository, every content a commit can have, and every verdict of the
\* filters, and pull requests that come and go on the first page.
CONSTANTS
  r1 = r1
  r2 = r2
  Repo = {r1}
  MaxSHA = 3
  FirstGo = 1
  MaxGo = 2
  MaxTime = 0
  NoGoMod = NoGoMod
  Unparsable = Unparsable
  Contents <- AnyCommits
  ShortSHA <- OwnNames
  Crowded = {r1}
  Retargeted = {}
  Allowlist = {r1}
  Listings <- Single
  InFlightTTL = 0
  MaxFaults = 1
SPECIFICATION Spec
INVARIANT TypeOK FiledJustified DecisionJustified
PROPERTY PassedOverForAReason NoTaskBesideOpenPR

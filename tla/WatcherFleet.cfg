\* Two repositories, one of which may be missing from the listing.
CONSTANTS
  r1 = r1
  r2 = r2
  Repo = {r1, r2}
  MaxSHA = 2
  FirstGo = 2
  MaxGo = 2
  MaxTime = 0
  NoGoMod = NoGoMod
  Unparsable = Unparsable
  Contents <- StillBehind
  ShortSHA <- SharedName
  Crowded = {}
  Retargeted = {}
  Allowlist = {}
  Listings <- Fleet
  InFlightTTL = 0
  MaxFaults = 1
SPECIFICATION Spec
PROPERTY NoSecondTask NoSecondCompletion

CONSTANTS
  Empty = Empty
  Value = {Empty, v1, v2}
  NoCycle = NoCycle
  Missing = Missing
  Torn = Torn
  MaxFaults = 3
SPECIFICATION FairSpec
PROPERTY ImplementsCursorFile
PROPERTY CorruptionHeals

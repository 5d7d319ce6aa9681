CONSTANTS
  r1 = r1
  r2 = r2
  r3 = r3
  r4 = r4
  r5 = r5
  r6 = r6
  f1 = f1
  h1 = h1
  h2 = h2
  h3 = h3
  n1 = n1
  n2 = n2
  NoVersion = NoVersion
  Other = Other
  PageSize = 2
  Repo <- Repos
  Foreign = {f1}
  Archivable = {r2}
  Installations <- StartInstallations
  MaxListPages = 3
  MaxMoves = 2
  SHA = {h1, h2, h3}
  ShortSHA <- Short
  MaxRequests = 3
  MaxInt = 3
  Feeds <- AllFeeds
  MaxContentBytes = 1
  PeekBytes = 2
  MaxBody = 4
  GoModFiles <- GoMods
  ConfigFiles <- Configs
  Releases <- Targets
SPECIFICATION FairSpec
INVARIANT TypeOK
PROPERTY MissesFew
PROPERTY RepeatsFew
PROPERTY CapIsExceeded
PROPERTY OpenUpdatePRSeen
PROPERTY MergedUpdatePRSeen
PROPERTY BehindIsOutdated
PROPERTY ConsentIsOwners
PROPERTY LatestStableIsNewest
PROPERTY BodyIsKept
PROPERTY CallsAdvance
PROPERTY CallsReturn

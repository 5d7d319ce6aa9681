--------------------------- MODULE UpstreamProofs ---------------------------
(***************************************************************************)
(* What the version order, the lookup of the newest release, the scan of a *)
(* go.mod and the look through a page of pull requests answer and what a   *)
(* peek leaves of a body, for every feed, file, page, body and width of    *)
(* the integers, the types of the variables, and that no client goes round *)
(* in a circle.                                                            *)
(***************************************************************************)
EXTENDS RepoListingProofs

-----------------------------------------------------------------------------
(* Versions *)

Triple == [1..3 -> Int]

LEMMA PrecedesIsLexicographic ==
  ASSUME NEW a, NEW b
  PROVE  Precedes(a, b) <=> \/ a[1] < b[1]
                            \/ a[1] = b[1] /\ a[2] < b[2]
                            \/ a[1] = b[1] /\ a[2] = b[2] /\ a[3] < b[3]
<1>1. 1..(1 - 1) = {} /\ 1..(2 - 1) = {1} /\ 1..(3 - 1) = {1, 2} /\ 1..3 = {1, 2, 3}
  OBVIOUS
<1>2. Precedes(a, b) <=> \E i \in {1, 2, 3} : a[i] < b[i] /\ \A j \in 1..(i - 1) : a[j] = b[j]
  BY <1>1, Zenon DEF Precedes
<1>3. Precedes(a, b) <=> \/ a[1] < b[1] /\ \A j \in {} : a[j] = b[j]
                         \/ a[2] < b[2] /\ \A j \in {1} : a[j] = b[j]
                         \/ a[3] < b[3] /\ \A j \in {1, 2} : a[j] = b[j]
  BY <1>1, <1>2, Zenon
<1> QED
  BY <1>3, Zenon

LEMMA PrecedesTransitive ==
  ASSUME NEW a \in Triple, NEW b \in Triple, NEW c \in Triple,
         ~Precedes(b, a), Precedes(b, c)
  PROVE  Precedes(a, c)
<1> USE DEF Triple
<1>1. /\ a[1] \in Int /\ a[2] \in Int /\ a[3] \in Int
      /\ b[1] \in Int /\ b[2] \in Int /\ b[3] \in Int
      /\ c[1] \in Int /\ c[2] \in Int /\ c[3] \in Int
  OBVIOUS
<1> QED
  BY <1>1, PrecedesIsLexicographic

LEMMA PrecedesIrreflexive ==
  ASSUME NEW a \in Triple, NEW b \in Triple, Precedes(a, b)
  PROVE  ~Precedes(b, a)
<1>1. /\ a[1] \in Int /\ a[2] \in Int /\ a[3] \in Int
      /\ b[1] \in Int /\ b[2] \in Int /\ b[3] \in Int
  BY DEF Triple
<1> QED
  BY <1>1, PrecedesIsLexicographic

LEMMA NumbersTypes ==
  ASSUME NEW t \in Text, NEW v \in Version
  PROVE  /\ Numbers(t) \in Triple
         /\ NumbersOf(v) \in Triple
         /\ NumbersOf(v)[1] = v.major /\ NumbersOf(v)[2] = v.minor /\ NumbersOf(v)[3] = v.patch
<1>1. t.groups \in Seq(Nat) /\ Len(t.groups) \in Nat
  BY DEF Text
<1>2. \A i \in 1..3 : i <= Len(t.groups) => t.groups[i] \in Int
  BY <1>1, ElementOfSeq
<1>3. v.major \in Int /\ v.minor \in Int /\ v.patch \in Int
  BY GoVersionAssumption DEF Version
<1> QED
  BY <1>1, <1>2, <1>3 DEF Numbers, NumbersOf, Triple

\* The differences of two versions' numbers are ints, so that Compare has
\* the sign of their order for every width of an int.
LEMMA LessIsFields ==
  ASSUME NEW v \in Version, NEW w \in Version
  PROVE  Less(v, w) <=> \/ v.major < w.major
                        \/ v.major = w.major /\ v.minor < w.minor
                        \/ v.major = w.major /\ v.minor = w.minor /\ v.patch < w.patch
<1>1. /\ v.major \in 0..MaxInt /\ v.minor \in 0..MaxInt /\ v.patch \in 0..MaxInt
      /\ w.major \in 0..MaxInt /\ w.minor \in 0..MaxInt /\ w.patch \in 0..MaxInt
  BY DEF Version
<1>2. \A m, n \in 0..MaxInt : Wrapped(m - n) = m - n
  BY GoVersionAssumption DEF Wrapped
<1>3. /\ Wrapped(v.major - w.major) = v.major - w.major
      /\ Wrapped(v.minor - w.minor) = v.minor - w.minor
      /\ Wrapped(v.patch - w.patch) = v.patch - w.patch
  BY <1>1, <1>2
<1>4. Compare(v, w) = IF v.major # w.major THEN v.major - w.major
                      ELSE IF v.minor # w.minor THEN v.minor - w.minor
                      ELSE v.patch - w.patch
  BY <1>3 DEF Compare
<1>5. CASE v.major # w.major
  BY <1>1, <1>4, <1>5, GoVersionAssumption DEF Less
<1>6. CASE v.major = w.major /\ v.minor # w.minor
  BY <1>1, <1>4, <1>6, GoVersionAssumption DEF Less
<1>7. CASE v.major = w.major /\ v.minor = w.minor
  BY <1>1, <1>4, <1>7, GoVersionAssumption DEF Less
<1> QED
  BY <1>5, <1>6, <1>7

LEMMA LessIsPrecedes ==
  ASSUME NEW v \in Version, NEW w \in Version
  PROVE  Less(v, w) <=> Precedes(NumbersOf(v), NumbersOf(w))
<1>1. /\ NumbersOf(v)[1] = v.major /\ NumbersOf(v)[2] = v.minor /\ NumbersOf(v)[3] = v.patch
      /\ NumbersOf(w)[1] = w.major /\ NumbersOf(w)[2] = w.minor /\ NumbersOf(w)[3] = w.patch
  BY DEF NumbersOf
<1> QED
  BY <1>1, LessIsFields, PrecedesIsLexicographic

\* The code's order of versions is a strict total order, for every width of an
\* int: what LatestStable takes for the newest and what a filter takes for
\* behind do not depend on the order in which versions are looked at
\* (version.go:87).
THEOREM LessIsStrictTotalOrder ==
  /\ \A v \in Version : ~Less(v, v)
  /\ \A u, v, w \in Version : Less(u, v) /\ Less(v, w) => Less(u, w)
  /\ \A v, w \in Version : Less(v, w) \/ v = w \/ Less(w, v)
<1>1. \A v, w \in Version :
        Less(v, w) <=> \/ v.major < w.major
                       \/ v.major = w.major /\ v.minor < w.minor
                       \/ v.major = w.major /\ v.minor = w.minor /\ v.patch < w.patch
  BY LessIsFields
<1>2. \A v \in Version : v.major \in Int /\ v.minor \in Int /\ v.patch \in Int
  BY GoVersionAssumption DEF Version
<1>3. \A v, w \in Version :
        v.major = w.major /\ v.minor = w.minor /\ v.patch = w.patch => v = w
  BY DEF Version
<1>4. ASSUME NEW v \in Version
      PROVE  ~Less(v, v)
  BY <1>1, <1>2
<1>5. ASSUME NEW u \in Version, NEW v \in Version, NEW w \in Version, Less(u, v), Less(v, w)
      PROVE  Less(u, w)
  BY <1>1, <1>2, <1>5
<1>6. ASSUME NEW v \in Version, NEW w \in Version
      PROVE  Less(v, w) \/ v = w \/ Less(w, v)
  BY <1>1, <1>2, <1>3
<1> QED
  BY <1>4, <1>5, <1>6

LEMMA ParsedVersion ==
  ASSUME NEW t \in Text, NEW prefix \in BOOLEAN
  PROVE  /\ Names(t, prefix) <=> ParseVersion(t, prefix) # NoVersion
         /\ Names(t, prefix) => /\ ParseVersion(t, prefix) \in Version
                                /\ NumbersOf(ParseVersion(t, prefix)) = Numbers(t)
         /\ ParseVersion(t, prefix) \in Version \cup {NoVersion}
<1>1. Names(t, prefix) <=> Matches(t, prefix) /\ Atoi(t)
  BY DEF Names, Atoi
<1>2. ASSUME Matches(t, prefix), Atoi(t)
      PROVE  /\ ParseVersion(t, prefix) \in Version
             /\ NumbersOf(ParseVersion(t, prefix)) = Numbers(t)
  <2> DEFINE g == t.groups
             patch == IF Len(g) = 3 THEN g[3] ELSE 0
  <2>1. g \in Seq(Nat) /\ Len(g) \in {2, 3}
    BY <1>2 DEF Text, Matches
  <2>2. DOMAIN g = 1..Len(g) /\ \A i \in 1..Len(g) : g[i] \in 0..MaxInt
    BY <1>2, <2>1, ElementOfSeq, LenProperties DEF Atoi
  <2>3. g[1] \in 0..MaxInt /\ g[2] \in 0..MaxInt /\ patch \in 0..MaxInt
    BY <2>1, <2>2, GoVersionAssumption
  <2>4. ParseVersion(t, prefix) = [major |-> g[1], minor |-> g[2], patch |-> patch]
    BY <1>2 DEF ParseVersion
  <2>5. NumbersOf(ParseVersion(t, prefix)) = <<g[1], g[2], patch>>
    BY <2>4 DEF NumbersOf
  <2>6. Numbers(t) = <<g[1], g[2], patch>>
    <3>1. Numbers(t) = [i \in 1..3 |-> IF i <= Len(g) THEN g[i] ELSE 0]
      BY DEF Numbers
    <3> QED
      BY <2>1, <3>1
  <2> QED
    BY <2>3, <2>4, <2>5, <2>6 DEF Version
<1>3. ~(Matches(t, prefix) /\ Atoi(t)) => ParseVersion(t, prefix) = NoVersion
  BY DEF ParseVersion
<1> QED
  BY <1>1, <1>2, <1>3, GoVersionAssumption

-----------------------------------------------------------------------------
(* The newest release *)

\* No entry before k is a stable release.
NoneBefore(k) == \A i \in Candidates(releases) : i >= k

\* v is the newest stable release before k.
NewestBefore(v, k) ==
  /\ \E i \in Candidates(releases) : NumbersOf(v) = Numbers(releases[i].version)
  /\ \A i \in Candidates(releases) :
       i < k => ~Precedes(NumbersOf(v), Numbers(releases[i].version))

NewestSoFar ==
  /\ max = NoVersion => NoneBefore(at)
  /\ max # NoVersion => NewestBefore(max, at)

LookupTypes ==
  /\ releases \in Seq(GoDevRelease)
  /\ at \in 1..(Len(releases) + 1)
  /\ max \in Version \cup {NoVersion}

LookupInv ==
  /\ LookupTypes
  /\ ~fetched => at = 1 /\ max = NoVersion
  /\ NewestSoFar

LEMMA LookupStart ==
  ASSUME LookupTypes, at = 1, max = NoVersion
  PROVE  NewestSoFar
<1>1. \A i \in DOMAIN releases : i >= 1
  BY LenProperties DEF LookupTypes
<1>2. NoneBefore(at)
  BY <1>1 DEF NoneBefore, Candidates
<1> QED
  BY <1>2, Zenon DEF NewestSoFar

LEMMA LookupIdleInv == LookupIdle => LookupInv
<1> SUFFICES ASSUME LookupIdle
             PROVE  LookupInv
  OBVIOUS
<1>1. LookupTypes
  BY DEF LookupIdle, LookupTypes
<1>2. at = 1 /\ max = NoVersion
  BY DEF LookupIdle
<1> QED
  BY <1>1, <1>2, LookupStart, Zenon DEF LookupInv

LEMMA ForgetFeedInv ==
  ASSUME ForgetFeed
  PROVE  LookupInv'
<1>1. LookupIdle'
  BY DEF ForgetFeed, LookupIdle
<1> QED
  BY <1>1, LookupIdleInv, PTL

LEMMA LookupFrame ==
  ASSUME LookupInv, UNCHANGED lookupVars
  PROVE  LookupInv'
<1>1. fetched' = fetched /\ releases' = releases /\ at' = at /\ max' = max
  BY DEF lookupVars
<1>2. LookupTypes'
  BY <1>1 DEF LookupInv, LookupTypes
<1>3. Candidates(releases)' = Candidates(releases)
  BY <1>1, Zenon DEF Candidates
<1>4. NewestSoFar'
  BY <1>1, <1>3, Zenon DEF LookupInv, NewestSoFar, NoneBefore, NewestBefore
<1>5. (~fetched => at = 1 /\ max = NoVersion)'
  BY <1>1, Zenon DEF LookupInv
<1> QED
  BY <1>2, <1>4, <1>5, Zenon DEF LookupInv

\* What the loop does with an entry, in terms of the version it names.
LEMMA BetterIsNewer ==
  ASSUME LookupTypes, NEW i \in DOMAIN releases
  PROVE  /\ releases[i].version \in Text /\ releases[i].stable \in BOOLEAN
         /\ Better(releases[i]) <=>
              /\ i \in Candidates(releases)
              /\ \/ max = NoVersion
                 \/ Precedes(NumbersOf(max), Numbers(releases[i].version))
         /\ i \in Candidates(releases) =>
              /\ ParseGoRelease(releases[i].version) \in Version
              /\ NumbersOf(ParseGoRelease(releases[i].version)) = Numbers(releases[i].version)
<1> DEFINE t == releases[i].version
           v == ParseGoRelease(t)
<1>1. releases[i] \in GoDevRelease
  BY ElementOfSeq, LenProperties DEF LookupTypes
<1>2. t \in Text /\ releases[i].stable \in BOOLEAN
  BY <1>1 DEF GoDevRelease
<1>3. /\ Names(t, TRUE) <=> v # NoVersion
      /\ Names(t, TRUE) => v \in Version /\ NumbersOf(v) = Numbers(t)
  BY <1>2, ParsedVersion, Zenon DEF ParseGoRelease
<1>4. i \in Candidates(releases) <=> releases[i].stable /\ Names(t, TRUE)
  BY Zenon DEF Candidates
<1>5. Better(releases[i]) <=> /\ releases[i].stable
                              /\ v # NoVersion
                              /\ max = NoVersion \/ Less(max, v)
  BY Zenon DEF Better
<1>6. max # NoVersion /\ v \in Version => (Less(max, v) <=> Precedes(NumbersOf(max), NumbersOf(v)))
  BY LessIsPrecedes, Zenon DEF LookupTypes
<1> HIDE DEF t, v
<1>7. Better(releases[i]) <=>
        /\ i \in Candidates(releases)
        /\ max = NoVersion \/ Precedes(NumbersOf(max), Numbers(t))
  BY <1>3, <1>4, <1>5, <1>6, Zenon
<1> QED
  BY <1>2, <1>3, <1>4, <1>7, Zenon DEF t, v

LEMMA ExamineInv ==
  ASSUME LookupInv, ExamineRelease
  PROVE  LookupInv'
<1> DEFINE r == releases[at]
           v == ParseGoRelease(r.version)
<1>1. /\ fetched /\ at <= Len(releases) /\ at' = at + 1
      /\ max' = IF Better(r) THEN v ELSE max
      /\ fetched' = fetched /\ releases' = releases
  BY Zenon DEF ExamineRelease
<1>2. LookupTypes /\ NewestSoFar
  BY Zenon DEF LookupInv
<1>3. DOMAIN releases = 1..Len(releases) /\ Len(releases) \in Nat
  BY <1>2, LenProperties DEF LookupTypes
<1>4. at \in DOMAIN releases /\ at \in Nat
  BY <1>1, <1>2, <1>3 DEF LookupTypes
<1>5. /\ r.version \in Text
      /\ Better(r) <=> /\ at \in Candidates(releases)
                       /\ max = NoVersion \/ Precedes(NumbersOf(max), Numbers(r.version))
      /\ at \in Candidates(releases) => v \in Version /\ NumbersOf(v) = Numbers(r.version)
  BY <1>2, <1>4, BetterIsNewer, Zenon
<1> HIDE DEF r, v
<1>6. LookupTypes'
  <2>1. max' \in Version \cup {NoVersion}
    BY <1>1, <1>2, <1>5 DEF LookupTypes
  <2> QED
    BY <1>1, <1>2, <1>3, <2>1 DEF LookupTypes
<1>7. Candidates(releases)' = Candidates(releases)
  BY <1>1, Zenon DEF Candidates
<1>0. \A i \in Candidates(releases) : i \in Nat
  <2>1. Candidates(releases) \subseteq DOMAIN releases
    BY DEF Candidates
  <2> QED
    BY <1>3, <2>1
<1>8. \A i \in Candidates(releases) : releases[i].version \in Text
  <2>1. \A i \in DOMAIN releases : releases[i].version \in Text
    BY <1>2, BetterIsNewer, Zenon
  <2> QED
    BY <2>1, Zenon DEF Candidates
<1>9. /\ NoneBefore(at)' <=> NoneBefore(at + 1)
      /\ NewestBefore(max, at)' <=> NewestBefore(max', at + 1)
  BY <1>1, <1>7, Zenon DEF NoneBefore, NewestBefore
<1>10. ASSUME ~Better(r)
       PROVE  NewestSoFar'
  <2>1. max' = max
    BY <1>1, <1>10
  <2>2. ASSUME max = NoVersion
        PROVE  NoneBefore(at + 1)
    <3>1. at \notin Candidates(releases)
      BY <1>5, <1>10, <2>2, Zenon
    <3>2. \A i \in Candidates(releases) : i >= at
      BY <1>2, <2>2, Zenon DEF NewestSoFar, NoneBefore
    <3>3. ASSUME NEW i \in Candidates(releases)
          PROVE  i >= at + 1
      <4>1. i >= at /\ i # at /\ i \in Nat
        BY <1>0, <3>1, <3>2, <3>3
      <4> QED
        BY <1>4, <4>1
    <3> QED
      BY <3>3, Zenon DEF NoneBefore
  <2>3. ASSUME max # NoVersion
        PROVE  NewestBefore(max, at + 1)
    <3>1. NewestBefore(max, at)
      BY <1>2, <2>3, Zenon DEF NewestSoFar
    <3>2. at \in Candidates(releases) => ~Precedes(NumbersOf(max), Numbers(releases[at].version))
      BY <1>5, <1>10, Zenon DEF r
    <3>3. ASSUME NEW i \in Candidates(releases), i < at + 1
          PROVE  ~Precedes(NumbersOf(max), Numbers(releases[i].version))
      <4>1. i < at \/ i = at
        BY <1>4, <1>0, <3>3
      <4> QED
        BY <3>1, <3>2, <4>1, Zenon DEF NewestBefore
    <3> QED
      BY <3>1, <3>3, Zenon DEF NewestBefore
  <2> QED
    BY <1>9, <2>1, <2>2, <2>3, Zenon DEF NewestSoFar
<1>11. ASSUME Better(r)
       PROVE  NewestSoFar'
  <2>1. /\ max' = v /\ v \in Version /\ v # NoVersion /\ at \in Candidates(releases)
        /\ NumbersOf(v) = Numbers(releases[at].version)
    BY <1>1, <1>5, <1>11, GoVersionAssumption, Zenon DEF r
  <2>2. ASSUME NEW i \in Candidates(releases), i < at
        PROVE  ~Precedes(NumbersOf(v), Numbers(releases[i].version))
    <3>1. ~(i >= at)
      BY <1>4, <1>0, <2>2
    <3>2. max # NoVersion
      BY <1>2, <3>1, Zenon DEF NewestSoFar, NoneBefore
    <3>3. max \in Version
      BY <1>2, <3>2, Zenon DEF LookupTypes
    <3>4. ~Precedes(NumbersOf(max), Numbers(releases[i].version))
      BY <1>2, <2>2, <3>2, Zenon DEF NewestSoFar, NewestBefore
    <3>5. Precedes(NumbersOf(max), NumbersOf(v))
      BY <1>5, <1>11, <2>1, <3>2, Zenon
    <3>6. /\ NumbersOf(max) \in Triple /\ NumbersOf(v) \in Triple
          /\ Numbers(releases[i].version) \in Triple
      BY <1>8, <2>1, <2>2, <3>3, NumbersTypes, Zenon
    <3>7. SUFFICES ASSUME Precedes(NumbersOf(v), Numbers(releases[i].version))
                   PROVE  Precedes(NumbersOf(max), Numbers(releases[i].version))
      BY <3>4, Zenon
    <3>8. ~Precedes(NumbersOf(v), NumbersOf(max))
      BY <3>5, <3>6, PrecedesIrreflexive, Zenon
    <3> QED
      BY <3>6, <3>7, <3>8, PrecedesTransitive, Zenon
  <2>3. ~Precedes(NumbersOf(v), Numbers(releases[at].version))
    <3>1. NumbersOf(v) \in Triple
      BY <1>8, <2>1, NumbersTypes, Zenon
    <3> QED
      BY <2>1, <3>1, PrecedesIrreflexive, Zenon
  <2>4. NewestBefore(v, at + 1)
    <3>1. ASSUME NEW i \in Candidates(releases), i < at + 1
          PROVE  ~Precedes(NumbersOf(v), Numbers(releases[i].version))
      <4>1. i < at \/ i = at
        BY <1>4, <1>0, <3>1
      <4> QED
        BY <2>2, <2>3, <4>1, Zenon
    <3> QED
      BY <2>1, <3>1, Zenon DEF NewestBefore
  <2> QED
    BY <1>9, <2>1, <2>4, Zenon DEF NewestSoFar
<1>12. NewestSoFar'
  BY <1>10, <1>11, Zenon
<1>13. (~fetched => at = 1 /\ max = NoVersion)'
  BY <1>1
<1> QED
  BY <1>6, <1>12, <1>13, Zenon DEF LookupInv

LEMMA FetchReleasesInv ==
  ASSUME LookupInv, FetchReleases
  PROVE  LookupInv'
<1>1. /\ at' = 1 /\ max' = NoVersion /\ fetched' = TRUE /\ releases' \in Seq(GoDevRelease)
  BY ReleaseLookupAssumption DEF FetchReleases, LookupInv
<1>2. LookupTypes'
  BY <1>1 DEF LookupTypes
<1>3. (LookupTypes /\ at = 1 /\ max = NoVersion => NewestSoFar)'
  BY LookupStart, PTL
<1>4. NewestSoFar'
  BY <1>1, <1>2, <1>3, Zenon
<1> QED
  BY <1>1, <1>2, <1>4, Zenon DEF LookupInv

\* Every step but those of a lookup leaves it alone and does not end it.
LEMMA LookupStepKinds ==
  ASSUME [Next]_vars
  PROVE  \/ LookupStep
         \/ UNCHANGED lookupVars /\ (op = "latest_stable" => op' = "latest_stable")
<1>1. BeginListRepos \/ InstallationStep \/ ListingStep =>
        (op = "latest_stable" => op' = "latest_stable")
  BY DEF BeginListRepos, Begin, InstallationStep, Join, Leave, Archive, Unarchive,
     ListingStep, FetchPage, FetchFails
<1>2. (\/ BeginHasOpenUpdatePR \/ (\E h \in SHA : BeginGetMergedUpdatePR(h))
       \/ BeginGetHeadSHA \/ BeginGetGoMod \/ BeginGetMaintainerConfig
       \/ BeginLatestStable \/ BeginRequest)
        => (op = "latest_stable" => op' = "latest_stable")
  BY DEF BeginHasOpenUpdatePR, BeginGetMergedUpdatePR, BeginGetHeadSHA, BeginGetGoMod,
     BeginGetMaintainerConfig, BeginLatestStable, BeginRequest, Begin
<1>3. TakeAnswer \/ Cancel => (op = "latest_stable" => op' = "latest_stable")
  BY DEF TakeAnswer, Cancel
<1>4. PullRequestsStep \/ FilesStep => (op = "latest_stable" => op' = "latest_stable")
  BY DEF PullRequestsStep, ListPullRequests, ListPullRequestsFails,
     ExaminePullRequest, NoneDecides, PullRequestCall,
     FilesStep, FileRequestFails, ContentFails, GetHeadSHA, GetGoMod, ScanLine,
     NoDirective, GetMaintainerConfig, FileCall
<1>9. TransportStep => (op = "latest_stable" => op' = "latest_stable")
  BY TransportIsRequest
<1>5. CASE Caller
  <2>1. BeginLatestStable => UNCHANGED lookupVars
    BY DEF BeginLatestStable
  <2> QED
    BY <1>1, <1>2, <1>3, <1>5, <2>1, Zenon DEF Caller
<1>6. CASE Environment
  BY <1>1, <1>3, <1>6, Zenon DEF Environment
<1>7. CASE Client
  BY <1>1, <1>4, <1>7, <1>9, Zenon DEF Client
<1>8. CASE UNCHANGED vars
  BY <1>8 DEF vars, callVars
<1> QED
  BY <1>5, <1>6, <1>7, <1>8, Zenon DEF Next

LEMMA LookupNext ==
  ASSUME LookupInv, [Next]_vars
  PROVE  LookupInv'
<1>1. CASE LookupStep
  <2>1. FetchReleasesFails \/ FinishLookup => ForgetFeed
    BY Zenon DEF FetchReleasesFails, FinishLookup
  <2>2. ForgetFeed => LookupInv'
    BY ForgetFeedInv
  <2>3. FetchReleases => LookupInv'
    BY FetchReleasesInv
  <2>4. ExamineRelease => LookupInv'
    BY ExamineInv
  <2> QED
    BY <1>1, <2>1, <2>2, <2>3, <2>4, Zenon DEF LookupStep
<1>2. CASE UNCHANGED lookupVars
  BY <1>2, LookupFrame
<1> QED
  BY <1>1, <1>2, LookupStepKinds, Zenon

\* max is at any point of the loop the newest stable release before at.
THEOREM LookupHolds == Spec => []LookupInv
<1>1. Init => LookupInv
  BY LookupIdleInv, Zenon DEF Init
<1>2. LookupInv /\ [Next]_vars => LookupInv'
  BY LookupNext
<1> QED
  BY <1>1, <1>2, PTL DEF Spec

\* LatestStable answers with the newest stable release of any feed.
THEOREM LatestStableIsNewestHolds == Spec => LatestStableIsNewest
<1>1. LookupInv /\ [Next]_vars =>
        (op = "latest_stable" /\ fetched /\ op' = "none" =>
           IF Candidates(releases) = {} THEN answer' = Failed
           ELSE /\ answer'.kind = "ok"
                /\ \E i \in Candidates(releases) :
                     NumbersOf(answer'.version) = Numbers(releases[i].version)
                /\ \A i \in Candidates(releases) :
                     ~ Precedes(NumbersOf(answer'.version), Numbers(releases[i].version)))
  <2> SUFFICES ASSUME LookupInv, [Next]_vars, op = "latest_stable", fetched, op' = "none"
               PROVE  IF Candidates(releases) = {} THEN answer' = Failed
                      ELSE /\ answer'.kind = "ok"
                           /\ \E i \in Candidates(releases) :
                                NumbersOf(answer'.version) = Numbers(releases[i].version)
                           /\ \A i \in Candidates(releases) :
                                ~ Precedes(NumbersOf(answer'.version),
                                           Numbers(releases[i].version))
    OBVIOUS
  <2>1. FinishLookup
    <3>1. op' # "latest_stable"
      OBVIOUS
    <3>2. LookupStep
      BY <3>1, LookupStepKinds, Zenon
    <3> QED
      BY <3>1, <3>2 DEF LookupStep, FetchReleases, FetchReleasesFails, ExamineRelease, callVars
  <2>2. /\ at > Len(releases)
        /\ answer' = IF max = NoVersion THEN Failed ELSE [kind |-> "ok", version |-> max]
    BY <2>1 DEF FinishLookup, Return
  <2>3. \A i \in Candidates(releases) : i < at /\ ~(i >= at)
    <3>1. DOMAIN releases = 1..Len(releases) /\ Len(releases) \in Nat /\ at \in Nat
      BY LenProperties DEF LookupInv, LookupTypes
    <3> QED
      BY <2>2, <3>1 DEF Candidates
  <2>4. NewestSoFar
    BY Zenon DEF LookupInv
  <2>5. CASE max = NoVersion
    <3>1. Candidates(releases) = {}
      BY <2>3, <2>4, <2>5, Zenon DEF NewestSoFar, NoneBefore
    <3> QED
      BY <2>2, <2>5, <3>1
  <2>6. CASE max # NoVersion
    <3>1. answer'.kind = "ok" /\ answer'.version = max
      BY <2>2, <2>6
    <3>2. NewestBefore(max, at)
      BY <2>4, <2>6, Zenon DEF NewestSoFar
    <3>3. /\ \E i \in Candidates(releases) : NumbersOf(max) = Numbers(releases[i].version)
          /\ \A i \in Candidates(releases) :
               ~Precedes(NumbersOf(max), Numbers(releases[i].version))
      BY <2>3, <3>2, Zenon DEF NewestBefore
    <3>4. Candidates(releases) # {}
      BY <3>3, Zenon
    <3>5. /\ \E i \in Candidates(releases) :
               NumbersOf(answer'.version) = Numbers(releases[i].version)
          /\ \A i \in Candidates(releases) :
               ~Precedes(NumbersOf(answer'.version), Numbers(releases[i].version))
      BY <3>1, <3>3, Zenon
    <3> QED
      BY <3>1, <3>4, <3>5, Zenon
  <2> QED
    BY <2>5, <2>6
<1> QED
  BY <1>1, LookupHolds, PTL DEF Spec, LatestStableIsNewest

-----------------------------------------------------------------------------
(* The files *)

\* A scan that runs has a file of the right kind and has passed only lines
\* that do not decide.
ScanInv ==
  scanned # NotYet =>
    /\ op = "go_mod"
    /\ Readable
    /\ scanned \in 0..Len(file.content)
    /\ \A i \in 1..scanned : file.content[i].kind \in {"other", "bare_go"}

FilesInv ==
  /\ op = "go_mod" => file \in GoModFiles /\ latestGo \in Releases
  /\ op = "maintainer_config" => file \in ConfigFiles
  /\ latestGo \in Version \cup {NoVersion}
  /\ reachable \in BOOLEAN
  /\ ScanInv

LEMMA FilesIdleInv ==
  FilesIdle /\ op # "go_mod" /\ op # "maintainer_config" => FilesInv
<1> SUFFICES ASSUME FilesIdle, op # "go_mod", op # "maintainer_config"
             PROVE  FilesInv
  OBVIOUS
<1>1. scanned = NotYet /\ latestGo = NoVersion /\ reachable \in BOOLEAN
  BY Zenon DEF FilesIdle
<1>2. ScanInv
  BY <1>1, Zenon DEF ScanInv
<1> QED
  BY <1>1, <1>2, Zenon DEF FilesInv

LEMMA ForgetFileInv ==
  ASSUME ForgetFile, op' = "none"
  PROVE  FilesInv'
<1>1. FilesIdle'
  BY Zenon DEF ForgetFile, FilesIdle
<1>2. (FilesIdle /\ op # "go_mod" /\ op # "maintainer_config" => FilesInv)'
  BY FilesIdleInv, PTL
<1> QED
  BY <1>1, <1>2

\* Every step but those on files leaves them alone, and neither begins nor
\* ends a call that reads one.
LEMMA FileStepKinds ==
  ASSUME [Next]_vars
  PROVE  \/ BeginGetHeadSHA \/ BeginGetGoMod \/ BeginGetMaintainerConfig
         \/ FilesStep
         \/ /\ UNCHANGED fileVars
            /\ op = "go_mod" <=> op' = "go_mod"
            /\ op = "maintainer_config" <=> op' = "maintainer_config"
<1> DEFINE Same == /\ op = "go_mod" <=> op' = "go_mod"
                   /\ op = "maintainer_config" <=> op' = "maintainer_config"
<1>1. BeginListRepos \/ InstallationStep \/ ListingStep => Same
  BY DEF BeginListRepos, Begin, InstallationStep, Join, Leave, Archive, Unarchive,
     ListingStep, FetchPage, FetchFails, Return, callVars
<1>2. (\/ BeginHasOpenUpdatePR \/ (\E h \in SHA : BeginGetMergedUpdatePR(h))
       \/ BeginLatestStable \/ BeginRequest) => Same
  BY DEF BeginHasOpenUpdatePR, BeginGetMergedUpdatePR, BeginLatestStable, BeginRequest, Begin
<1>3. TakeAnswer \/ Cancel => Same
  BY DEF TakeAnswer, Cancel
<1>4. PullRequestsStep \/ LookupStep => Same
  BY DEF PullRequestsStep, ListPullRequests, ListPullRequestsFails, Return, callVars,
     ExaminePullRequest, NoneDecides, PullRequestCall,
     LookupStep, FetchReleases, FetchReleasesFails, ExamineRelease, FinishLookup
<1>9. TransportStep => Same
  BY TransportIsRequest
<1>5. UNCHANGED vars => Same /\ UNCHANGED fileVars
  BY DEF vars, callVars
<1> HIDE DEF Same
<1>6. CASE Caller
  BY <1>1, <1>2, <1>3, <1>6, Zenon DEF Caller, Same
<1>7. CASE Environment
  BY <1>1, <1>3, <1>7, Zenon DEF Environment, Same
<1>8. CASE Client
  BY <1>1, <1>4, <1>8, <1>9, Zenon DEF Client, Same
<1> QED
  BY <1>5, <1>6, <1>7, <1>8, Zenon DEF Next, Same

LEMMA FilesFrame ==
  ASSUME FilesInv, UNCHANGED fileVars,
         op = "go_mod" <=> op' = "go_mod",
         op = "maintainer_config" <=> op' = "maintainer_config"
  PROVE  FilesInv'
<1>1. file' = file /\ reachable' = reachable /\ latestGo' = latestGo /\ scanned' = scanned
  BY DEF fileVars
<1>2. Readable' <=> Readable
  BY <1>1, Zenon DEF Readable, Absent, Unreadable, Oversize
<1>3. ScanInv'
  BY <1>1, <1>2, Zenon DEF FilesInv, ScanInv, NotYet
<1> QED
  BY <1>1, <1>3, Zenon DEF FilesInv

LEMMA FilesBeginInv ==
  ASSUME FilesInv, BeginGetHeadSHA \/ BeginGetGoMod \/ BeginGetMaintainerConfig
  PROVE  FilesInv'
<1>1. op = "none" /\ scanned' = scanned
  BY DEF BeginGetHeadSHA, BeginGetGoMod, BeginGetMaintainerConfig, Begin, fileVars
<1>2. scanned = NotYet
  BY <1>1 DEF FilesInv, ScanInv
<1>3. ScanInv'
  BY <1>1, <1>2, Zenon DEF ScanInv, NotYet
<1>4. /\ latestGo \in Version \cup {NoVersion} /\ reachable \in BOOLEAN
  BY Zenon DEF FilesInv
<1>5. CASE BeginGetHeadSHA
  <2>1. op' = "head_sha" /\ latestGo' = latestGo /\ reachable' = reachable
    BY <1>5 DEF BeginGetHeadSHA, Begin, fileVars
  <2> QED
    BY <1>3, <1>4, <2>1, Zenon DEF FilesInv
<1>6. CASE BeginGetGoMod
  <2>1. op' = "go_mod" /\ latestGo' \in Releases /\ reachable' \in BOOLEAN /\ file' \in GoModFiles
    BY <1>6, Zenon DEF BeginGetGoMod, Begin
  <2>2. latestGo' \in Version
    BY <2>1, RepoFilesAssumption
  <2> QED
    BY <1>3, <2>1, <2>2, Zenon DEF FilesInv
<1>7. CASE BeginGetMaintainerConfig
  <2>1. /\ op' = "maintainer_config" /\ latestGo' = latestGo /\ reachable' \in BOOLEAN
        /\ file' \in ConfigFiles
    BY <1>7, Zenon DEF BeginGetMaintainerConfig, Begin
  <2> QED
    BY <1>3, <1>4, <2>1, Zenon DEF FilesInv
<1> QED
  BY <1>5, <1>6, <1>7

LEMMA FilesStepInv ==
  ASSUME FilesInv, FilesStep
  PROVE  FilesInv'
<1>1. \/ ForgetFile /\ op' = "none"
      \/ GetGoMod /\ ~ForgetFile
      \/ ScanLine /\ ~ForgetFile
  <2>1. FileRequestFails \/ ContentFails \/ GetHeadSHA \/ NoDirective \/ GetMaintainerConfig
          => ForgetFile /\ op' = "none"
    BY Zenon DEF FileRequestFails, ContentFails, GetHeadSHA, NoDirective,
       GetMaintainerConfig, Return
  <2>2. GetGoMod \/ ScanLine => ~ForgetFile \/ (ForgetFile /\ op' = "none")
    <3>1. GetGoMod /\ ForgetFile => scanned' = NotYet
      BY Zenon DEF ForgetFile
    <3>2. ScanLine /\ ForgetFile => op' = "none"
      <4> SUFFICES ASSUME ScanLine, ForgetFile, scanned' = scanned + 1
                   PROVE  FALSE
        BY Zenon DEF ScanLine, Return
      <4>1. scanned' = NotYet /\ scanned # NotYet
        BY Zenon DEF ForgetFile, ScanLine
      <4>2. scanned \in Nat
        BY <4>1 DEF FilesInv, ScanInv
      <4> QED
        BY <4>1, <4>2 DEF NotYet
    <3>3. GetGoMod /\ ForgetFile => op' = "none"
      BY <3>1 DEF GetGoMod, Return, NotYet
    <3> QED
      BY <3>2, <3>3, Zenon
  <2> QED
    BY <2>1, <2>2, Zenon DEF FilesStep
<1>2. CASE ForgetFile /\ op' = "none"
  BY <1>2, ForgetFileInv
<1>3. CASE GetGoMod /\ ~ForgetFile
  <2>1. /\ op = "go_mod" /\ op' = op /\ Readable /\ scanned' = 0
        /\ file' = file /\ reachable' = reachable /\ latestGo' = latestGo
    BY <1>3, Zenon DEF GetGoMod, callVars
  <2>2. Readable'
    BY <2>1, Zenon DEF Readable, Absent, Unreadable, Oversize
  <2>3. file \in GoModFiles
    BY <2>1, Zenon DEF FilesInv
  <2>4. Len(file.content) \in Nat
    <3>1. file \in Path(Seq(Line)) /\ ~(file.kind \in {"absent", "directory"})
      BY <2>1, <2>3, RepoFilesAssumption DEF Readable, Absent
    <3>2. file.content \in Seq(Line)
      BY <3>1 DEF Path
    <3> QED
      BY <3>2, LenProperties
  <2>5. ScanInv'
    BY <2>1, <2>2, <2>4 DEF ScanInv
  <2> QED
    BY <2>1, <2>5, Zenon DEF FilesInv
<1>4. CASE ScanLine /\ ~ForgetFile
  <2>1. /\ op = "go_mod" /\ op' = op /\ scanned # NotYet /\ scanned < Len(file.content)
        /\ NextLine.kind \in {"other", "bare_go"} /\ scanned' = scanned + 1
        /\ file' = file /\ reachable' = reachable /\ latestGo' = latestGo
    BY <1>4, Zenon DEF ScanLine, callVars
  <2>2. /\ Readable /\ scanned \in 0..Len(file.content)
        /\ \A i \in 1..scanned : file.content[i].kind \in {"other", "bare_go"}
    BY <2>1, Zenon DEF FilesInv, ScanInv
  <2>3. Readable'
    BY <2>1, <2>2, Zenon DEF Readable, Absent, Unreadable, Oversize
  <2>4. /\ scanned' \in 0..Len(file.content)
        /\ \A i \in 1..scanned' : file.content[i].kind \in {"other", "bare_go"}
    BY <2>1, <2>2 DEF NextLine
  <2>5. ScanInv'
    BY <2>1, <2>3, <2>4 DEF ScanInv
  <2> QED
    BY <2>1, <2>5, Zenon DEF FilesInv
<1> QED
  BY <1>1, <1>2, <1>3, <1>4

\* What is known of a file while a call reads it.
THEOREM FilesHold == Spec => []FilesInv
<1>1. Init => FilesInv
  BY FilesIdleInv DEF Init, CallInit
<1>2. ASSUME FilesInv, [Next]_vars
      PROVE  FilesInv'
  BY <1>2, FileStepKinds, FilesFrame, FilesBeginInv, FilesStepInv, Zenon
<1> QED
  BY <1>1, <1>2, PTL DEF Spec

LEMMA ReadableFile ==
  ASSUME NEW C, file \in Path(C), Readable
  PROVE  reachable /\ file.kind = "file" /\ Small /\ file.decodes /\ file.content \in C
<1>1. reachable /\ ~(file.kind \in {"absent", "directory"}) /\ ~Oversize /\ file.decodes
  BY Zenon DEF Readable, Unreadable, Absent
<1>2. file \in [kind: {"file"}, size: Nat, length: Nat, decodes: BOOLEAN, content: C]
  <2>1. file \notin [kind: {"absent", "directory"}]
    BY <1>1
  <2> QED
    BY <2>1, Zenon DEF Path
<1>3. file.kind = "file" /\ file.size \in Nat /\ file.length \in Nat /\ file.content \in C
  BY <1>2
<1>4. Small
  BY <1>1, <1>3, RepoFilesAssumption DEF Oversize, Small
<1> QED
  BY <1>1, <1>3, <1>4, Zenon

LEMMA ScannedFile ==
  ASSUME FilesInv, scanned # NotYet
  PROVE  /\ reachable /\ file.kind = "file" /\ Small
         /\ latestGo \in Version
         /\ DOMAIN file.content = 1..Len(file.content) /\ Len(file.content) \in Nat
         /\ \A i \in DOMAIN file.content :
              /\ file.content[i] \in Line
              /\ file.content[i].kind = "go" => file.content[i].value \in Text
         /\ scanned \in 0..Len(file.content)
         /\ \A i \in Deciding(file.content) : i > scanned
<1>1. /\ op = "go_mod" /\ Readable /\ scanned \in 0..Len(file.content)
      /\ \A i \in 1..scanned : file.content[i].kind \in {"other", "bare_go"}
  BY Zenon DEF FilesInv, ScanInv
<1>2. file \in Path(Seq(Line)) /\ latestGo \in Version
  BY <1>1, RepoFilesAssumption DEF FilesInv
<1>3. reachable /\ file.kind = "file" /\ Small /\ file.content \in Seq(Line)
  BY <1>1, <1>2, ReadableFile, Zenon
<1>4. DOMAIN file.content = 1..Len(file.content) /\ Len(file.content) \in Nat
  BY <1>3, LenProperties
<1>5. \A i \in DOMAIN file.content : file.content[i] \in Line
  BY <1>3, <1>4, ElementOfSeq
<1>6. ASSUME NEW i \in DOMAIN file.content, file.content[i].kind = "go"
      PROVE  file.content[i].value \in Text
  BY <1>5, <1>6 DEF Line
<1>7. ASSUME NEW i \in Deciding(file.content)
      PROVE  i > scanned
  <2>1. i \in DOMAIN file.content /\ file.content[i].kind \in {"go", "too_long"}
    BY <1>7 DEF Deciding
  <2> QED
    BY <1>1, <1>4, <2>1
<1> QED
  BY <1>1, <1>2, <1>3, <1>4, <1>5, <1>6, <1>7, Zenon

\* What an answered GetGoMod was answered from.
LEMMA GoModAnswers ==
  ASSUME FilesInv, [Next]_vars, op = "go_mod", op' = "none", answer'.kind = "ok"
  PROVE  \/ Absent /\ answer' = NoGoMod
         \/ /\ scanned # NotYet /\ scanned < Len(file.content)
            /\ NextLine.kind = "too_long" /\ answer' = Declares(NoVersion)
         \/ /\ scanned # NotYet /\ scanned < Len(file.content)
            /\ NextLine.kind = "go"
            /\ answer' = Declares(ParseGoDirective(NextLine.value))
         \/ /\ scanned # NotYet /\ scanned = Len(file.content)
            /\ answer' = Declares(NoVersion)
<1>1. FilesStep
  <2>1. ~BeginGetHeadSHA /\ ~BeginGetGoMod /\ ~BeginGetMaintainerConfig
    BY DEF BeginGetHeadSHA, BeginGetGoMod, BeginGetMaintainerConfig, Begin
  <2>2. op' # "go_mod"
    OBVIOUS
  <2> QED
    BY <2>1, <2>2, FileStepKinds, Zenon
<1>2. ~FileRequestFails /\ ~ContentFails
  BY DEF FileRequestFails, ContentFails, Return, RequestErrors, Failed, RateLimited
<1>3. ~GetHeadSHA /\ ~GetMaintainerConfig
  BY DEF GetHeadSHA, GetMaintainerConfig
<1>4. CASE GetGoMod
  BY <1>4 DEF GetGoMod, Return, callVars
<1>5. CASE ScanLine
  BY <1>5 DEF ScanLine, Return, callVars
<1>6. CASE NoDirective
  BY <1>6 DEF NoDirective, Return
<1> QED
  BY <1>1, <1>2, <1>3, <1>4, <1>5, <1>6, Zenon DEF FilesStep

\* A version read from a go directive is behind the target if and only if
\* the numbers it writes out are.
LEMMA BehindPrecedes ==
  ASSUME NEW t \in Text, latestGo \in Version
  PROVE  GoBehind(ParseGoDirective(t)) <=>
           Names(t, FALSE) /\ Precedes(Numbers(t), NumbersOf(latestGo))
<1> DEFINE v == ParseGoDirective(t)
<1>1. /\ Names(t, FALSE) <=> v # NoVersion
      /\ Names(t, FALSE) => v \in Version /\ NumbersOf(v) = Numbers(t)
  BY ParsedVersion, Zenon DEF ParseGoDirective
<1>2. v \in Version => (Less(v, latestGo) <=> Precedes(NumbersOf(v), NumbersOf(latestGo)))
  BY LessIsPrecedes, Zenon
<1> HIDE DEF v
<1>3. GoBehind(v) <=> v # NoVersion /\ Less(v, latestGo)
  BY Zenon DEF GoBehind
<1>4. GoBehind(v) <=> Names(t, FALSE) /\ Precedes(Numbers(t), NumbersOf(latestGo))
  BY <1>1, <1>2, <1>3, Zenon
<1> QED
  BY <1>4, Zenon DEF v

LEMMA BehindOf ==
  ASSUME NEW v
  PROVE  Declares(v).behind = GoBehind(v)
BY Zenon DEF Declares

\* A repository is reported behind exactly if its go.mod says so.
THEOREM BehindIsOutdatedHolds == Spec => BehindIsOutdated
<1> DEFINE Reported == op = "go_mod" /\ op' = "none" /\ answer'.kind = "ok"
           Owed == reachable /\ file.kind = "file" /\ Small /\ Outdated(file.content)
<1>1. ASSUME FilesInv, [Next]_vars, Reported
      PROVE  answer'.behind <=> Owed
  <2>1. CASE Absent /\ answer' = NoGoMod
    <3>1. ~Owed
      BY <2>1 DEF Absent
    <3>2. answer'.behind = FALSE
      BY <2>1 DEF NoGoMod
    <3> QED
      BY <3>1, <3>2, Zenon
  <2>2. CASE scanned # NotYet
    <3> DEFINE lines == file.content
               next == scanned + 1
    <3>1. /\ reachable /\ file.kind = "file" /\ Small /\ latestGo \in Version
          /\ DOMAIN lines = 1..Len(lines) /\ Len(lines) \in Nat
          /\ \A i \in DOMAIN lines :
               /\ lines[i] \in Line
               /\ lines[i].kind = "go" => lines[i].value \in Text
          /\ scanned \in 0..Len(lines)
          /\ \A i \in Deciding(lines) : i > scanned
      BY <1>1, <2>2, ScannedFile, Zenon
    <3> HIDE DEF lines
    <3>2. CASE scanned = Len(lines) /\ answer' = Declares(NoVersion)
      <4>1. Deciding(lines) = {}
        BY <3>1, <3>2 DEF Deciding
      <4>2. ~Outdated(lines)
        BY <4>1, Zenon DEF Outdated
      <4>3. answer'.behind = GoBehind(NoVersion) /\ ~GoBehind(NoVersion)
        BY <3>2, BehindOf, Zenon DEF GoBehind
      <4> QED
        BY <4>2, <4>3, Zenon DEF lines
    <3>3. ASSUME scanned < Len(lines), lines[next].kind \in {"go", "too_long"}
          PROVE  /\ next \in DOMAIN lines
                 /\ \A i \in Deciding(lines) :
                      (\A j \in Deciding(lines) : i <= j) <=> i = next
                 /\ next \in Deciding(lines)
      <4>1. next \in DOMAIN lines /\ next \in Deciding(lines)
        BY <3>1, <3>3 DEF Deciding
      <4>2. \A i \in Deciding(lines) : i \in Nat /\ next <= i
        BY <3>1 DEF Deciding
      <4>3. next \in Nat
        BY <3>1
      <4> HIDE DEF next
      <4>4. ASSUME NEW i \in Deciding(lines)
            PROVE  (\A j \in Deciding(lines) : i <= j) <=> i = next
        BY <4>1, <4>2, <4>3
      <4> QED
        BY <4>1, <4>4, Zenon
    <3>4. CASE /\ scanned < Len(lines) /\ NextLine.kind = "too_long"
               /\ answer' = Declares(NoVersion)
      <4>1. lines[next].kind = "too_long"
        BY <3>4 DEF NextLine, lines
      <4>2. ~Outdated(lines)
        <5> SUFFICES ASSUME NEW i \in Deciding(lines),
                            \A j \in Deciding(lines) : i <= j,
                            lines[i].kind = "go"
                     PROVE  FALSE
          BY Zenon DEF Outdated
        <5>1. i = next
          BY <3>3, <3>4, <4>1
        <5> QED
          BY <4>1, <5>1
      <4>3. answer'.behind = GoBehind(NoVersion) /\ ~GoBehind(NoVersion)
        BY <3>4, BehindOf, Zenon DEF GoBehind
      <4> QED
        BY <4>2, <4>3, Zenon DEF lines
    <3>5. CASE /\ scanned < Len(lines) /\ NextLine.kind = "go"
               /\ answer' = Declares(ParseGoDirective(NextLine.value))
      <4> DEFINE t == lines[next].value
      <4>1. /\ lines[next].kind = "go"
            /\ answer' = Declares(ParseGoDirective(t))
        BY <3>5 DEF NextLine, lines
      <4>2. /\ next \in DOMAIN lines /\ next \in Deciding(lines)
            /\ \A i \in Deciding(lines) :
                 (\A j \in Deciding(lines) : i <= j) <=> i = next
        BY <3>3, <3>5, <4>1
      <4> HIDE DEF next
      <4>3. t \in Text
        BY <3>1, <4>1, <4>2, Zenon
      <4>4. Outdated(lines) <=> Names(t, FALSE) /\ Precedes(Numbers(t), NumbersOf(latestGo))
        BY <4>1, <4>2, Zenon DEF Outdated
      <4>5. GoBehind(ParseGoDirective(t)) <=> Outdated(lines)
        BY <3>1, <4>3, <4>4, BehindPrecedes, Zenon
      <4>6. answer'.behind = GoBehind(ParseGoDirective(t))
        BY <4>1, BehindOf, Zenon
      <4> QED
        BY <3>1, <4>5, <4>6, Zenon DEF lines
    <3> QED
      BY <1>1, <2>1, <2>2, <3>2, <3>4, <3>5, GoModAnswers, Zenon DEF lines
  <2> QED
    BY <1>1, <2>1, <2>2, GoModAnswers, Zenon
<1>2. FilesInv /\ [Next]_vars =>
        (op = "go_mod" /\ op' = "none" /\ answer'.kind = "ok" =>
           (answer'.behind <=> /\ reachable
                               /\ file.kind = "file"
                               /\ Small
                               /\ Outdated(file.content)))
  BY <1>1, Zenon
<1> QED
  BY <1>2, FilesHold, PTL DEF Spec, BehindIsOutdated

\* Consent is what the owner wrote, for every consent file.
THEOREM ConsentIsOwnersHolds == Spec => ConsentIsOwners
<1>1. ASSUME FilesInv, [Next]_vars, op = "maintainer_config", op' = "none", answer'.kind = "ok"
      PROVE  /\ answer'.consent = "granted" => reachable /\ OwnerWrote("true")
             /\ answer'.consent = "refused" => reachable /\ OwnerWrote("false")
             /\ answer'.consent = "undecided" /\ reachable =>
                  ~OwnerWrote("true") /\ ~OwnerWrote("false")
  <2>1. GetMaintainerConfig
    <3>1. ~BeginGetHeadSHA /\ ~BeginGetGoMod /\ ~BeginGetMaintainerConfig
      BY <1>1 DEF BeginGetHeadSHA, BeginGetGoMod, BeginGetMaintainerConfig, Begin
    <3>2. op' # "maintainer_config"
      BY <1>1
    <3>3. FilesStep
      BY <1>1, <3>1, <3>2, FileStepKinds, Zenon
    <3>4. ~FileRequestFails /\ ~ContentFails
      BY <1>1 DEF FileRequestFails, ContentFails, Return, RequestErrors, Failed, RateLimited
    <3>5. ~GetHeadSHA /\ ~GetGoMod /\ ~ScanLine /\ ~NoDirective
      BY <1>1 DEF GetHeadSHA, GetGoMod, ScanLine, NoDirective
    <3> QED
      BY <3>3, <3>4, <3>5, Zenon DEF FilesStep
  <2>2. \/ Absent /\ answer' = [kind |-> "ok", consent |-> "undecided"]
        \/ Readable /\ answer' = ParseConsent(file.content)
    BY <2>1, Zenon DEF GetMaintainerConfig, Return
  <2>3. CASE Absent /\ answer' = [kind |-> "ok", consent |-> "undecided"]
    <3>1. answer'.consent = "undecided"
      BY <2>3
    <3>2. reachable => file.kind # "file"
      BY <2>3 DEF Absent
    <3>3. reachable => ~OwnerWrote("true") /\ ~OwnerWrote("false")
      BY <3>2, Zenon DEF OwnerWrote
    <3> QED
      BY <3>1, <3>3
  <2>4. CASE Readable /\ answer' = ParseConsent(file.content)
    <3> DEFINE c == file.content
    <3>1. file \in Path(Config)
      BY <1>1, RepoFilesAssumption DEF FilesInv
    <3>2. reachable /\ file.kind = "file" /\ Small /\ file.decodes
      BY <2>4, <3>1, ReadableFile, Zenon
    <3>3. \A b : OwnerWrote(b) <=> IsBool(c) /\ c.value = b
      BY <3>2, Zenon DEF OwnerWrote, IsBool
    <3> HIDE DEF c
    <3>4. c.kind # "undecodable"
      BY <1>1, <2>4 DEF ParseConsent, Failed, c
    <3>5. answer'.consent = IF IsBool(c) /\ c.value = "true" THEN "granted"
                            ELSE IF IsBool(c) /\ c.value = "false" THEN "refused"
                            ELSE "undecided"
      BY <2>4, <3>4 DEF ParseConsent, c
    <3>6. answer'.consent = IF OwnerWrote("true") THEN "granted"
                            ELSE IF OwnerWrote("false") THEN "refused"
                            ELSE "undecided"
      BY <3>3, <3>5, Zenon
    <3>7. ~(OwnerWrote("true") /\ OwnerWrote("false"))
      BY <3>3
    <3> QED
      BY <3>2, <3>6, <3>7
  <2> QED
    BY <2>2, <2>3, <2>4
<1>2. FilesInv /\ [Next]_vars =>
        (op = "maintainer_config" /\ op' = "none" /\ answer'.kind = "ok" =>
           /\ answer'.consent = "granted" => reachable /\ OwnerWrote("true")
           /\ answer'.consent = "refused" => reachable /\ OwnerWrote("false")
           /\ answer'.consent = "undecided" /\ reachable =>
                ~OwnerWrote("true") /\ ~OwnerWrote("false"))
  BY <1>1, Zenon
<1> QED
  BY <1>2, FilesHold, PTL DEF Spec, ConsentIsOwners

-----------------------------------------------------------------------------
(* The body of a response *)

\* What has been read, what is buffered and what is still to come make up the
\* body, and the error is kept exactly if the transport has met it.
BodyInv ==
  /\ sent \in Seq(Nat)
  /\ source \in Seq(Nat)
  /\ peeked \in Seq(Nat)
  /\ received \in Seq(Nat)
  /\ received \o (peeked \o source) = sent
  /\ breaks \in BOOLEAN
  /\ met \in BOOLEAN
  /\ met => source = <<>> /\ breaks
  /\ rest = IF met THEN "error" ELSE "source"
  /\ phase = "sent" => peeked = <<>> /\ received = <<>> /\ ~met

LEMMA Regroup ==
  ASSUME NEW a \in Seq(Nat), NEW b \in Seq(Nat), NEW c \in Seq(Nat)
  PROVE  (a \o b) \o c = a \o (b \o c)
BY ConcatAssociative

\* A byte moved from the head of one sequence to the end of the one before.
LEMMA MoveByte ==
  ASSUME NEW a \in Seq(Nat), NEW b \in Seq(Nat), b # <<>>
  PROVE  /\ Append(a, Head(b)) \in Seq(Nat)
         /\ Tail(b) \in Seq(Nat)
         /\ Append(a, Head(b)) \o Tail(b) = a \o b
<1> DEFINE h == <<Head(b)>>
<1>1. Head(b) \in Nat /\ Tail(b) \in Seq(Nat)
  BY HeadTailProperties
<1>2. h \in Seq(Nat) /\ Len(h) = 1 /\ h[1] = Head(b)
  BY <1>1
<1>3. h \o Tail(b) = b
  <2>1. /\ Len(Tail(b)) = Len(b) - 1
        /\ \A i \in 1..(Len(b) - 1) : Tail(b)[i] = b[i + 1]
        /\ Head(b) = b[1]
    BY HeadTailProperties
  <2> HIDE DEF h
  <2>2. /\ h \o Tail(b) \in Seq(Nat)
        /\ Len(h \o Tail(b)) = Len(h) + Len(Tail(b))
        /\ \A i \in 1..(Len(h) + Len(Tail(b))) :
             (h \o Tail(b))[i] = IF i <= Len(h) THEN h[i] ELSE Tail(b)[i - Len(h)]
    BY <1>1, <1>2, ConcatProperties
  <2>3. Len(b) \in Nat \ {0}
    BY EmptySeq, LenProperties
  <2>4. \A i \in 1..Len(b) : (h \o Tail(b))[i] = b[i]
    <3> SUFFICES ASSUME NEW i \in 1..Len(b)
                 PROVE  (h \o Tail(b))[i] = b[i]
      OBVIOUS
    <3>1. (h \o Tail(b))[i] = IF i <= 1 THEN Head(b) ELSE Tail(b)[i - 1]
      BY <1>2, <2>1, <2>2, <2>3
    <3>2. i > 1 => i - 1 \in 1..(Len(b) - 1) /\ (i - 1) + 1 = i
      BY <2>3
    <3>3. i > 1 => Tail(b)[i - 1] = b[i]
      BY <2>1, <3>2
    <3>4. i <= 1 <=> i = 1
      BY <2>3
    <3>5. i > 1 \/ i = 1
      BY <2>3
    <3> QED
      BY <2>1, <3>1, <3>3, <3>4, <3>5, Zenon
  <2>5. Len(h \o Tail(b)) = Len(b)
    BY <1>2, <2>1, <2>2, <2>3
  <2> QED
    BY <2>2, <2>4, <2>5, SeqEqual
<1>4. Append(a, Head(b)) = a \o h
  BY <1>1, AppendIsConcat
<1>5. Append(a, Head(b)) \in Seq(Nat)
  BY <1>1, AppendProperties
<1> HIDE DEF h
<1>6. (a \o h) \o Tail(b) = a \o (h \o Tail(b))
  BY <1>1, <1>2, Regroup, Zenon
<1> QED
  BY <1>1, <1>3, <1>4, <1>5, <1>6

LEMMA MoveByteBefore ==
  ASSUME NEW a \in Seq(Nat), NEW b \in Seq(Nat), NEW c \in Seq(Nat), b # <<>>
  PROVE  Append(a, Head(b)) \o (Tail(b) \o c) = a \o (b \o c)
<1> DEFINE d == Append(a, Head(b))
           e == Tail(b)
<1>1. d \in Seq(Nat) /\ e \in Seq(Nat) /\ d \o e = a \o b
  BY MoveByte
<1> HIDE DEF d, e
<1>2. (d \o e) \o c = d \o (e \o c)
  BY <1>1, Regroup
<1>3. (a \o b) \o c = a \o (b \o c)
  BY Regroup
<1>4. d \o (e \o c) = a \o (b \o c)
  BY <1>1, <1>2, <1>3
<1> QED
  BY <1>4 DEF d, e

LEMMA BodyStart ==
  ASSUME phase = "sent", sent = <<>>, breaks = FALSE, source = <<>>, met = FALSE,
         peeked = <<>>, rest = "source", received = <<>>
  PROVE  BodyInv
<1>1. <<>> \in Seq(Nat) /\ <<>> \o (<<>> \o <<>>) = <<>>
  BY ConcatEmptySeq
<1> QED
  BY <1>1 DEF BodyInv

LEMMA BodyStep ==
  ASSUME BodyInv, TransportStep
  PROVE  BodyInv'
<1> USE DEF BodyInv
<1>1. CASE RoundTrip
  <2>1. PICK n \in 0..MaxBody : sent' = Body(n) /\ source' = Body(n)
    BY <1>1 DEF RoundTrip
  <2>2. n \in Nat
    BY <2>1, LoggingTransportAssumption
  <2>3. Body(n) \in Seq(Nat)
    BY <2>2 DEF Body
  <2>4. <<>> \o (<<>> \o Body(n)) = Body(n)
    BY <2>3, ConcatEmptySeq
  <2>5. /\ phase = "sent" /\ phase' # "sent"
        /\ breaks' \in BOOLEAN
        /\ met' = met /\ peeked' = peeked /\ rest' = rest /\ received' = received
    BY <1>1 DEF RoundTrip
  <2>6. peeked' = <<>> /\ received' = <<>> /\ met' = FALSE /\ rest' = "source"
    BY <2>5
  <2> QED
    BY <2>1, <2>3, <2>4, <2>5, <2>6
<1>2. CASE RoundTripFails \/ ReadEnds
  <2>1. ForgetResponse
    BY <1>2, Zenon DEF RoundTripFails, ReadEnds
  <2>2. (phase = "sent" /\ sent = <<>> /\ breaks = FALSE /\ source = <<>> /\ met = FALSE
           /\ peeked = <<>> /\ rest = "source" /\ received = <<>> => BodyInv)'
    BY BodyStart, PTL
  <2> QED
    BY <2>1, <2>2, Zenon DEF ForgetResponse
<1>3. CASE Peek
  <2>1. /\ source # <<>> /\ phase = "peeking"
        /\ peeked' = Append(peeked, Head(source)) /\ source' = Tail(source)
        /\ UNCHANGED <<phase, sent, breaks, met, rest, received>>
    BY <1>3 DEF Peek
  <2>2. /\ peeked' \in Seq(Nat) /\ source' \in Seq(Nat)
        /\ peeked' \o source' = peeked \o source
    BY <2>1, MoveByte
  <2>3. ~met
    BY <2>1
  <2> QED
    BY <2>1, <2>2, <2>3
<1>4. CASE HandOver
  <2>1. /\ met' \in BOOLEAN /\ (met' => source = <<>> /\ breaks)
        /\ rest' = IF met' THEN "error" ELSE "source"
        /\ phase' = "handed"
        /\ UNCHANGED <<sent, breaks, source, peeked, received>>
    BY <1>4 DEF HandOver, Follows
  <2> QED
    BY <2>1
<1>5. CASE ReadPrefix
  <2>1. /\ peeked # <<>> /\ phase = "handed"
        /\ received' = Append(received, Head(peeked)) /\ peeked' = Tail(peeked)
        /\ UNCHANGED <<phase, sent, breaks, source, met, rest>>
    BY <1>5 DEF ReadPrefix
  <2>2. /\ Append(received, Head(peeked)) \in Seq(Nat) /\ Tail(peeked) \in Seq(Nat)
        /\ Append(received, Head(peeked)) \o (Tail(peeked) \o source) =
             received \o (peeked \o source)
    <3>1. received \in Seq(Nat) /\ peeked \in Seq(Nat) /\ source \in Seq(Nat)
      OBVIOUS
    <3> HIDE DEF BodyInv
    <3>2. Append(received, Head(peeked)) \in Seq(Nat) /\ Tail(peeked) \in Seq(Nat)
      BY <2>1, <3>1, MoveByte
    <3>3. Append(received, Head(peeked)) \o (Tail(peeked) \o source) =
            received \o (peeked \o source)
      BY <2>1, <3>1, MoveByteBefore
    <3> QED
      BY <3>2, <3>3
  <2> QED
    BY <2>1, <2>2
<1>6. CASE ReadSource
  <2>1. /\ source # <<>> /\ phase = "handed" /\ peeked = <<>>
        /\ received' = Append(received, Head(source)) /\ source' = Tail(source)
        /\ UNCHANGED <<phase, sent, breaks, met, peeked, rest>>
    BY <1>6 DEF ReadSource
  <2>2. /\ received' \in Seq(Nat) /\ source' \in Seq(Nat)
        /\ received' \o source' = received \o source
    BY <2>1, MoveByte
  <2>3. <<>> \o source' = source' /\ <<>> \o source = source
    BY <2>2, ConcatEmptySeq
  <2>4. ~met
    BY <2>1
  <2> QED
    BY <2>1, <2>2, <2>3, <2>4
<1> QED
  BY <1>1, <1>2, <1>3, <1>4, <1>5, <1>6, Zenon DEF TransportStep

\* Every step but those of the transport leaves its variables alone and does
\* not end a request.
LEMMA BodyStepKinds ==
  ASSUME [Next]_vars
  PROVE  \/ TransportStep
         \/ UNCHANGED bodyVars /\ (op = "request" => op' = "request")
<1>1. BeginListRepos \/ InstallationStep \/ ListingStep =>
        (op = "request" => op' = "request")
  BY DEF BeginListRepos, Begin, InstallationStep, Join, Leave, Archive, Unarchive,
     ListingStep, FetchPage, FetchFails
<1>2. (\/ BeginHasOpenUpdatePR \/ (\E h \in SHA : BeginGetMergedUpdatePR(h))
       \/ BeginGetHeadSHA \/ BeginGetGoMod \/ BeginGetMaintainerConfig
       \/ BeginLatestStable \/ BeginRequest)
        => (op = "request" => op' = "request")
  BY DEF BeginHasOpenUpdatePR, BeginGetMergedUpdatePR, BeginGetHeadSHA, BeginGetGoMod,
     BeginGetMaintainerConfig, BeginLatestStable, BeginRequest, Begin
<1>3. TakeAnswer \/ Cancel => (op = "request" => op' = "request")
  BY DEF TakeAnswer, Cancel
<1>4. PullRequestsStep \/ FilesStep => (op = "request" => op' = "request")
  BY DEF PullRequestsStep, ListPullRequests, ListPullRequestsFails,
     ExaminePullRequest, NoneDecides, PullRequestCall,
     FilesStep, FileRequestFails, ContentFails, GetHeadSHA, GetGoMod, ScanLine,
     NoDirective, GetMaintainerConfig, FileCall
<1>5. LookupStep => (op = "request" => op' = "request")
  BY DEF LookupStep, FetchReleases, FetchReleasesFails, ExamineRelease, FinishLookup
<1>6. BeginRequest => UNCHANGED bodyVars
  BY DEF BeginRequest
<1>7. CASE Caller
  BY <1>1, <1>2, <1>3, <1>6, <1>7, Zenon DEF Caller
<1>8. CASE Environment
  BY <1>1, <1>3, <1>8, Zenon DEF Environment
<1>9. CASE Client
  BY <1>1, <1>4, <1>5, <1>9, Zenon DEF Client
<1>10. CASE UNCHANGED vars
  BY <1>10 DEF vars, callVars
<1> QED
  BY <1>7, <1>8, <1>9, <1>10, Zenon DEF Next

THEOREM BodyHolds == Spec => []BodyInv
<1>1. Init => BodyInv
  BY BodyStart, Zenon DEF Init, TransportIdle
<1>2. BodyInv /\ [Next]_vars => BodyInv'
  <2> SUFFICES ASSUME BodyInv, [Next]_vars
               PROVE  BodyInv'
    OBVIOUS
  <2>1. UNCHANGED bodyVars => BodyInv'
    <3>1. UNCHANGED bodyVars =>
            /\ phase' = phase /\ sent' = sent /\ breaks' = breaks /\ source' = source
            /\ met' = met /\ peeked' = peeked /\ rest' = rest /\ received' = received
      BY DEF bodyVars
    <3> QED
      BY <3>1, Zenon DEF BodyInv
  <2> QED
    BY <2>1, BodyStepKinds, BodyStep, Zenon
<1> QED
  BY <1>1, <1>2, PTL DEF Spec

\* For every body, every size of the peek and every break of the connection:
\* the client reads all bytes that arrived in their order and learns of the
\* break.
THEOREM BodyIsKeptHolds == Spec => BodyIsKept
<1>1. BodyInv /\ [Next]_vars =>
        (op = "request" /\ phase = "handed" /\ op' = "none" =>
           /\ received = sent
           /\ answer'.kind = "failed" <=> breaks)
  <2> SUFFICES ASSUME BodyInv, [Next]_vars, op = "request", phase = "handed", op' = "none"
               PROVE  /\ received = sent
                      /\ answer'.kind = "failed" <=> breaks
    OBVIOUS
  <2>1. TransportStep
    BY BodyStepKinds
  <2>2. ReadEnds
    BY <2>1 DEF TransportStep, RoundTrip, RoundTripFails, Peek, HandOver, ReadPrefix,
       ReadSource, callVars
  <2>3. peeked = <<>> /\ source = <<>>
    BY <2>2 DEF ReadEnds, BodyInv
  <2>4. received \o (<<>> \o <<>>) = received
    <3>1. received \in Seq(Nat) /\ <<>> \in Seq(Nat)
      BY DEF BodyInv
    <3> QED
      BY <3>1, ConcatEmptySeq
  <2>5. received = sent
    BY <2>3, <2>4 DEF BodyInv
  <2>6. answer'.kind = "failed" <=> breaks
    <3>1. Failed.kind = "failed" /\ [kind |-> "ok"].kind = "ok"
      BY DEF Failed
    <3>2. \/ rest = "error" /\ answer' = Failed
          \/ rest = "source" /\ breaks /\ answer' = Failed
          \/ rest = "source" /\ (met \/ ~breaks) /\ answer' = [kind |-> "ok"]
      BY <2>2, Zenon DEF ReadEnds, Return
    <3> QED
      BY <3>1, <3>2 DEF BodyInv
  <2> QED
    BY <2>5, <2>6
<1> QED
  BY <1>1, BodyHolds, PTL DEF Spec, BodyIsKept

-----------------------------------------------------------------------------
(* Pull requests *)

\* A page that has arrived is the page of the running call, and none of its
\* pull requests the loop is done with decides the answer.
PullsInv ==
  loaded =>
    /\ PullRequestCall
    /\ \E k \in Nat : DOMAIN requests = 1..k
    /\ prs \subseteq Listed(requests)
    /\ \A n \in Listed(requests) \ prs : ~Decides(requests[n])

\* No other step touches a page while a call looks through it, or loads one.
LEMMA PullStepKinds ==
  ASSUME [Next]_vars
  PROVE  \/ PullRequestsStep
         \/ /\ loaded' = loaded
            /\ PullRequestCall => op' = op /\ UNCHANGED prVars
<1> DEFINE Kept == PullRequestCall => op' = op
<1>1. (\/ BeginListRepos \/ BeginHasOpenUpdatePR \/ (\E h \in SHA : BeginGetMergedUpdatePR(h))
       \/ BeginGetHeadSHA \/ BeginGetGoMod \/ BeginGetMaintainerConfig
       \/ BeginLatestStable \/ BeginRequest) => ~PullRequestCall
  BY DEF BeginListRepos, BeginHasOpenUpdatePR, BeginGetMergedUpdatePR, BeginGetHeadSHA,
     BeginGetGoMod, BeginGetMaintainerConfig, BeginLatestStable, BeginRequest, Begin,
     PullRequestCall
<1>2. BeginHasOpenUpdatePR \/ (\E h \in SHA : BeginGetMergedUpdatePR(h)) => loaded' = loaded
  BY DEF BeginHasOpenUpdatePR, BeginGetMergedUpdatePR, prVars
<1>3. InstallationStep \/ TakeAnswer \/ Cancel => Kept
  BY DEF InstallationStep, Join, Leave, Archive, Unarchive, TakeAnswer, Cancel, callVars
<1>4. ListingStep \/ FilesStep \/ LookupStep => ~PullRequestCall
  BY DEF ListingStep, FetchPage, FetchFails, FilesStep, FileRequestFails, ContentFails,
     GetHeadSHA, GetGoMod, ScanLine, NoDirective, GetMaintainerConfig, FileCall,
     LookupStep, FetchReleases, FetchReleasesFails, ExamineRelease, FinishLookup,
     PullRequestCall
<1>5. TransportStep => ~PullRequestCall
  BY TransportIsRequest DEF PullRequestCall
<1>6. UNCHANGED prVars => loaded' = loaded
  BY DEF prVars
<1>7. UNCHANGED vars => op' = op /\ UNCHANGED prVars
  BY DEF vars, callVars
<1> HIDE DEF Kept
<1>8. ASSUME Caller
      PROVE  loaded' = loaded /\ ((Kept /\ UNCHANGED prVars) \/ ~PullRequestCall)
  BY <1>1, <1>2, <1>3, <1>6, <1>8, Zenon DEF Caller
<1>9. ASSUME Environment
      PROVE  Kept /\ UNCHANGED prVars
  BY <1>3, <1>9, Zenon DEF Environment
<1>10. ASSUME Client
       PROVE  PullRequestsStep \/ (UNCHANGED prVars /\ ~PullRequestCall)
  BY <1>4, <1>5, <1>10, Zenon DEF Client
<1> QED
  BY <1>6, <1>7, <1>8, <1>9, <1>10, Zenon DEF Next, Kept

LEMMA PullsNext ==
  ASSUME PullsInv, [Next]_vars
  PROVE  PullsInv'
<1>1. CASE /\ loaded' = loaded
           /\ PullRequestCall => op' = op /\ UNCHANGED prVars
  BY <1>1 DEF PullsInv, PullRequestCall, prVars, Listed, Decides
<1>2. ForgetPullRequests => PullsInv'
  BY DEF ForgetPullRequests, PullsInv
<1>3. CASE ListPullRequests
  <2>1. \E k \in 0..MaxRequests : requests' \in [1..k -> PullRequest]
    BY <1>3 DEF ListPullRequests, SeqOf
  <2>2. \E k \in Nat : DOMAIN requests' = 1..k
    BY <2>1, PullRequestsAssumption
  <2>3. op' = op /\ asked' = asked /\ PullRequestCall /\ prs' = Listed(requests')
    BY <1>3, Zenon DEF ListPullRequests, callVars
  <2>4. Listed(requests)' = Listed(requests') /\ PullRequestCall'
    BY <2>3, Zenon DEF Listed, PullRequestCall
  <2> QED
    BY <2>2, <2>3, <2>4, Zenon DEF PullsInv
<1>4. CASE ExaminePullRequest
  <2>1. CASE ForgetPullRequests
    BY <1>2, <2>1
  <2>2. CASE \E n \in prs : /\ ~Decides(requests[n])
                            /\ prs' = prs \ {n}
                            /\ UNCHANGED <<callVars, requests, asked, loaded>>
    <3>1. PICK n \in prs : /\ ~Decides(requests[n])
                           /\ prs' = prs \ {n}
                           /\ UNCHANGED <<callVars, requests, asked, loaded>>
      BY <2>2
    <3>2. /\ op' = op /\ requests' = requests /\ asked' = asked /\ loaded
      BY <1>4, <3>1 DEF callVars, ExaminePullRequest
    <3>3. Listed(requests)' = Listed(requests) /\ (PullRequestCall' <=> PullRequestCall)
          /\ \A pr : Decides(pr)' <=> Decides(pr)
      BY <3>2 DEF Listed, PullRequestCall, Decides
    <3> QED
      BY <3>1, <3>2, <3>3, Zenon DEF PullsInv
  <2> QED
    BY <1>4, <2>1, <2>2, Zenon DEF ExaminePullRequest
<1> QED
  BY <1>1, <1>2, <1>3, <1>4, PullStepKinds, Zenon
  DEF PullRequestsStep, ListPullRequestsFails, NoneDecides

THEOREM PullsHold == Spec => []PullsInv
<1>1. Init => PullsInv
  BY DEF Init, PullRequestsIdle, PullsInv
<1> QED
  BY <1>1, PullsNext, PTL DEF Spec

\* What an answer says of the page it was read from.
LEMMA PullAnswer ==
  ASSUME PullsInv, [Next]_vars, PullRequestCall, op' = "none", answer'.kind = "ok"
  PROVE  /\ \E k \in Nat : DOMAIN requests = 1..k
         /\ IF answer'.found THEN \E n \in Listed(requests) : Decides(requests[n])
                             ELSE \A n \in Listed(requests) : ~Decides(requests[n])
<1>1. PullRequestsStep
  BY PullStepKinds DEF PullRequestCall
<1>2. Failed.kind # "ok" /\ \A e \in RequestErrors : e.kind # "ok"
  BY DEF RequestErrors, Failed, RateLimited
<1>3. /\ ~ListPullRequests
      /\ ~ \E e \in RequestErrors : Return(e)
      /\ ~Return(Failed)
  BY <1>2 DEF ListPullRequests, Return, callVars, PullRequestCall
<1>4. Found(TRUE).found = TRUE /\ Found(FALSE).found = FALSE
  BY DEF Found
<1>5. CASE ExaminePullRequest
  <2>1. \E n \in prs : Decides(requests[n]) /\ answer' = Found(TRUE)
    BY <1>3, <1>5 DEF ExaminePullRequest, Return, callVars, PullRequestCall
  <2> QED
    BY <1>4, <1>5, <2>1 DEF PullsInv, ExaminePullRequest
<1>6. CASE NoneDecides
  <2>1. answer' = Found(FALSE) /\ prs = {} /\ loaded
    BY <1>6 DEF NoneDecides, Return
  <2> QED
    BY <1>4, <2>1 DEF PullsInv
<1> QED
  BY <1>1, <1>3, <1>5, <1>6, Zenon DEF PullRequestsStep, ListPullRequestsFails

\* What is not on the first page has a full page before it.
LEMMA BeyondFirstPage ==
  ASSUME NEW listed, NEW k \in Nat, listed \subseteq 1..k,
         NEW n \in listed, n \notin FirstPage(listed)
  PROVE  Newer(n, listed) >= PageSize
<1>1. IsFiniteSet({m \in listed : m < n})
  <2>1. IsFiniteSet(1..k)
    BY FS_Interval
  <2>2. {m \in listed : m < n} \in SUBSET (1..k)
    OBVIOUS
  <2> QED
    BY <2>1, <2>2, FS_Subset, Zenon
<1>2. Newer(n, listed) \in Nat
  BY <1>1, FS_CardinalityType DEF Newer
<1> QED
  BY <1>2, ApiCallAssumption DEF FirstPage

LEMMA TellsOfPage ==
  ASSUME NEW listed, NEW wanted \in SUBSET listed, NEW k \in Nat, listed \subseteq 1..k,
         IF answer'.found THEN FirstPage(listed) \cap wanted # {}
                          ELSE FirstPage(listed) \cap wanted = {}
  PROVE  TellsOf(wanted, listed)
<1>1. \A n \in wanted : n \notin FirstPage(listed) => Newer(n, listed) >= PageSize
  BY BeyondFirstPage
<1> QED
  BY <1>1, Zenon DEF TellsOf

\* An update pull request found open was open, and one missed lies behind a
\* full page of newer open ones, for every page size and however many pull
\* requests there are.
THEOREM OpenUpdatePRSeenHolds == Spec => OpenUpdatePRSeen
<1> DEFINE Updates == {n \in Open(requests) : requests[n].head # Other}
<1>1. PullsInv /\ [Next]_vars =>
        (Answers("open_update_pr") => TellsOf(Updates, Open(requests)))
  <2> SUFFICES ASSUME PullsInv, [Next]_vars, Answers("open_update_pr")
               PROVE  TellsOf(Updates, Open(requests))
    OBVIOUS
  <2>1. Listed(requests) = FirstPage(Open(requests)) /\ PullRequestCall
    BY DEF Answers, Listed, PullRequestCall
  <2>2. /\ \E k \in Nat : DOMAIN requests = 1..k
        /\ IF answer'.found THEN \E n \in Listed(requests) : Decides(requests[n])
                            ELSE \A n \in Listed(requests) : ~Decides(requests[n])
    BY <2>1, PullAnswer, Zenon DEF Answers
  <2>3. \A n \in FirstPage(Open(requests)) : n \in Updates <=> Decides(requests[n])
    BY DEF Decides, Answers, FirstPage
  <2>4. Updates \in SUBSET Open(requests) /\ Open(requests) \subseteq DOMAIN requests
    BY DEF Open
  <2> HIDE DEF Updates
  <2>5. IF answer'.found THEN FirstPage(Open(requests)) \cap Updates # {}
                         ELSE FirstPage(Open(requests)) \cap Updates = {}
    BY <2>1, <2>2, <2>3, Zenon
  <2> QED
    BY <2>2, <2>4, <2>5, TellsOfPage, Zenon
<1>2. UNCHANGED vars => UNCHANGED <<callVars, prVars>>
  BY DEF vars
<1> QED
  BY <1>1, <1>2, PullsHold, PTL DEF Spec, OpenUpdatePRSeen

\* The same of an update found merged, among the tries from its branch.
THEOREM MergedUpdatePRSeenHolds == Spec => MergedUpdatePRSeen
<1> DEFINE Tries  == FromBranch(requests, UpdateBranch(asked))
           Merged == {n \in Tries : requests[n].state = "merged"}
<1>1. PullsInv /\ [Next]_vars =>
        (Answers("merged_update_pr") => TellsOf(Merged, Tries))
  <2> SUFFICES ASSUME PullsInv, [Next]_vars, Answers("merged_update_pr")
               PROVE  TellsOf(Merged, Tries)
    OBVIOUS
  <2>1. Listed(requests) = FirstPage(Tries) /\ PullRequestCall
    BY DEF Answers, Listed, PullRequestCall
  <2>2. /\ \E k \in Nat : DOMAIN requests = 1..k
        /\ IF answer'.found THEN \E n \in Listed(requests) : Decides(requests[n])
                            ELSE \A n \in Listed(requests) : ~Decides(requests[n])
    BY <2>1, PullAnswer, Zenon DEF Answers
  <2>3. \A n \in FirstPage(Tries) : n \in Merged <=> Decides(requests[n])
    BY DEF Decides, Answers, FirstPage
  <2>4. Merged \in SUBSET Tries /\ Tries \subseteq DOMAIN requests
    BY DEF FromBranch
  <2> HIDE DEF Merged, Tries
  <2>5. IF answer'.found THEN FirstPage(Tries) \cap Merged # {}
                         ELSE FirstPage(Tries) \cap Merged = {}
    BY <2>1, <2>2, <2>3, Zenon
  <2> QED
    BY <2>2, <2>4, <2>5, TellsOfPage, Zenon
<1>2. UNCHANGED vars => UNCHANGED <<callVars, prVars>>
  BY DEF vars
<1> QED
  BY <1>1, <1>2, PullsHold, PTL DEF Spec, MergedUpdatePRSeen

-----------------------------------------------------------------------------
(* Types *)

\* What no other invariant says of the variables.
CallTypes ==
  /\ op \in Op \cup {"none"}
  /\ answer.kind \in {"none", "ok", "failed", "rate_limited", "too_many"}
  /\ cancelled \in BOOLEAN
  /\ asked \in SHA \cup {Other}
  /\ loaded \in BOOLEAN

LEMMA CallTypesNext ==
  ASSUME CallTypes, [Next]_vars
  PROVE  CallTypes'
<1> DEFINE K == {"none", "ok", "failed", "rate_limited", "too_many"}
<1>1. ASSUME NEW a, Return(a), a.kind \in K
      PROVE  op' = "none" /\ answer'.kind \in K /\ cancelled' = cancelled
  BY <1>1 DEF Return
<1>2. \A e \in RequestErrors : e.kind \in K
  BY DEF RequestErrors, Failed, RateLimited
<1>3. ASSUME UNCHANGED <<op, answer, cancelled>>
      PROVE  op' \in Op \cup {"none"} /\ answer'.kind \in K /\ cancelled' \in BOOLEAN
  BY <1>3 DEF CallTypes
<1>4. UNCHANGED prVars => asked' \in SHA \cup {Other} /\ loaded' \in BOOLEAN
  BY DEF prVars, CallTypes
<1>5. ForgetPullRequests => asked' \in SHA \cup {Other} /\ loaded' \in BOOLEAN
  BY Zenon DEF ForgetPullRequests
<1>6. ASSUME NEW o \in Op, Begin(o)
      PROVE  op' \in Op \cup {"none"} /\ answer'.kind \in K /\ cancelled' \in BOOLEAN
  BY <1>6 DEF Begin, CallTypes
<1> DEFINE CallTyped == op' \in Op \cup {"none"} /\ answer'.kind \in K /\ cancelled' \in BOOLEAN
<1>7. ASSUME NEW a, Return(a), a.kind \in K
      PROVE  CallTyped
  BY <1>1, <1>7, Zenon DEF CallTypes
<1>8. ASSUME Caller
      PROVE  CallTypes'
  <2>1. ASSUME BeginListRepos \/ BeginHasOpenUpdatePR \/ (\E h \in SHA : BeginGetMergedUpdatePR(h))
               \/ BeginGetHeadSHA \/ BeginGetGoMod \/ BeginGetMaintainerConfig \/ BeginLatestStable
               \/ BeginRequest
        PROVE  CallTyped
    <3>1. \E o \in Op : Begin(o)
      BY <2>1 DEF Op, BeginListRepos, BeginHasOpenUpdatePR, BeginGetMergedUpdatePR,
         BeginGetHeadSHA, BeginGetGoMod, BeginGetMaintainerConfig, BeginLatestStable,
         BeginRequest
    <3> QED
      BY <3>1, <1>6
  <2>2. TakeAnswer => CallTyped
    BY DEF TakeAnswer, CallTypes, NoAnswer
  <2>3. (\E h \in SHA : BeginGetMergedUpdatePR(h))
          => asked' \in SHA \cup {Other} /\ loaded' \in BOOLEAN
    BY DEF BeginGetMergedUpdatePR, CallTypes
  <2>4. BeginHasOpenUpdatePR => UNCHANGED prVars
    BY DEF BeginHasOpenUpdatePR
  <2> HIDE DEF CallTyped
  <2>5. CallTyped /\ asked' \in SHA \cup {Other} /\ loaded' \in BOOLEAN
    BY <1>4, <1>8, <2>1, <2>2, <2>3, <2>4, Zenon DEF Caller
  <2> QED
    BY <2>5, Zenon DEF CallTypes, CallTyped
<1>9. ASSUME Environment
      PROVE  CallTypes'
  <2>1. InstallationStep => UNCHANGED <<op, answer, cancelled>>
    BY Zenon DEF InstallationStep, Join, Leave, Archive, Unarchive, callVars
  <2>2. Cancel => CallTyped
    BY DEF Cancel, CallTypes
  <2> HIDE DEF CallTyped
  <2>3. CallTyped /\ asked' \in SHA \cup {Other} /\ loaded' \in BOOLEAN
    BY <1>3, <1>4, <1>9, <2>1, <2>2, Zenon DEF Environment, CallTyped
  <2> QED
    BY <2>3, Zenon DEF CallTypes, CallTyped
<1>10. ASSUME Client
       PROVE  CallTypes'
  <2>1. ASSUME NEW a, Return(a), a.kind = "ok" \/ a.kind = "failed" \/ a.kind = "too_many"
        PROVE  CallTyped
    BY <1>7, <2>1, Zenon
  <2>2. ASSUME \E e \in RequestErrors : Return(e)
        PROVE  CallTyped
    BY <1>2, <1>7, <2>2, Zenon
  <2> HIDE DEF CallTyped
  <2>3. Failed.kind = "failed" /\ NoGoMod.kind = "ok" /\ \A v : Declares(v).kind = "ok"
    BY DEF Failed, NoGoMod, Declares
  <2>4. \A c : ParseConsent(c).kind \in {"ok", "failed"}
    BY DEF ParseConsent, Failed
  <2>5. UNCHANGED <<op, answer, cancelled>> => CallTyped
    BY <1>3, Zenon DEF CallTyped
  <2>6. ListingStep => CallTyped
    <3>1. \A link \in Links : FetchPage(link) => CallTyped
      <4> SUFFICES ASSUME NEW link \in Links, FetchPage(link)
                   PROVE  CallTyped
        OBVIOUS
      <4> DEFINE full == [kind |-> "ok", repos |-> Counted(MapGitHubRepos(Shown(nextPage)))]
      <4>1. full.kind = "ok" /\ [kind |-> "too_many"].kind = "too_many"
        OBVIOUS
      <4>2. Return(full) \/ Return([kind |-> "too_many"]) \/ UNCHANGED <<op, answer, cancelled>>
        BY Zenon DEF FetchPage, callVars
      <4> HIDE DEF full
      <4> QED
        BY <2>1, <2>5, <4>1, <4>2, Zenon
    <3>2. FetchFails => CallTyped
      BY <2>2, Zenon DEF FetchFails
    <3> QED
      BY <3>1, <3>2, Zenon DEF ListingStep
  <2>7. PullRequestsStep =>
          CallTyped /\ asked' \in SHA \cup {Other} /\ loaded' \in BOOLEAN
    <3>1. \A b : Found(b).kind = "ok"
      BY DEF Found
    <3>2. ListPullRequests =>
            UNCHANGED <<op, answer, cancelled>> /\ asked' = asked /\ loaded' = TRUE
      BY Zenon DEF ListPullRequests, callVars
    <3>3. ListPullRequestsFails => CallTyped /\ ForgetPullRequests
      BY <2>2, Zenon DEF ListPullRequestsFails
    <3>4. ExaminePullRequest =>
            \/ (Return(Failed) \/ Return(Found(TRUE))) /\ ForgetPullRequests
            \/ UNCHANGED <<op, answer, cancelled>> /\ asked' = asked /\ loaded' = loaded
      BY Zenon DEF ExaminePullRequest, callVars
    <3>5. NoneDecides => Return(Found(FALSE)) /\ ForgetPullRequests
      BY Zenon DEF NoneDecides
    <3> QED
      BY <1>5, <2>1, <2>3, <2>5, <3>1, <3>2, <3>3, <3>4, <3>5, Zenon
      DEF PullRequestsStep, CallTypes
  <2>8. FilesStep => CallTyped
    <3> DEFINE plain == [kind |-> "ok"]
               undecided == [kind |-> "ok", consent |-> "undecided"]
    <3>1. plain.kind = "ok" /\ undecided.kind = "ok"
      OBVIOUS
    <3>2. FileRequestFails => CallTyped
      BY <2>2, Zenon DEF FileRequestFails
    <3>3. ContentFails \/ GetHeadSHA => Return(Failed) \/ Return(plain)
      BY Zenon DEF ContentFails, GetHeadSHA
    <3>4. GetGoMod => Return(NoGoMod) \/ UNCHANGED <<op, answer, cancelled>>
      BY Zenon DEF GetGoMod, callVars
    <3>5. ScanLine \/ NoDirective =>
            (\E v : Return(Declares(v))) \/ UNCHANGED <<op, answer, cancelled>>
      BY Zenon DEF ScanLine, NoDirective, callVars
    <3>6. GetMaintainerConfig => Return(undecided) \/ \E c : Return(ParseConsent(c))
      BY Zenon DEF GetMaintainerConfig
    <3> HIDE DEF plain, undecided
    <3>7. ASSUME NEW c, Return(ParseConsent(c))
          PROVE  CallTyped
      <4>1. ParseConsent(c).kind = "ok" \/ ParseConsent(c).kind = "failed"
        BY <2>4
      <4> QED
        BY <2>1, <3>7, <4>1, Zenon
    <3> QED
      BY <2>1, <2>3, <2>5, <3>1, <3>2, <3>3, <3>4, <3>5, <3>6, <3>7, Zenon DEF FilesStep
  <2>9. LookupStep => CallTyped
    <3> DEFINE found == [kind |-> "ok", version |-> max]
    <3>1. found.kind = "ok"
      OBVIOUS
    <3>2. FetchReleases \/ ExamineRelease => UNCHANGED <<op, answer, cancelled>>
      BY Zenon DEF FetchReleases, ExamineRelease, callVars
    <3>3. FetchReleasesFails => Return(Failed)
      BY Zenon DEF FetchReleasesFails
    <3>4. FinishLookup => Return(Failed) \/ Return(found)
      <4>1. max = NoVersion \/ max # NoVersion
        OBVIOUS
      <4> QED
        BY <4>1 DEF FinishLookup
    <3> HIDE DEF found
    <3> QED
      BY <2>1, <2>3, <2>5, <3>1, <3>2, <3>3, <3>4, Zenon DEF LookupStep
  <2>11. TransportStep => CallTyped
    <3> DEFINE plain == [kind |-> "ok"]
    <3>1. plain.kind = "ok"
      OBVIOUS
    <3>2. RoundTrip \/ Peek \/ HandOver \/ ReadPrefix \/ ReadSource =>
            UNCHANGED <<op, answer, cancelled>>
      BY Zenon DEF RoundTrip, Peek, HandOver, ReadPrefix, ReadSource, callVars
    <3>3. RoundTripFails \/ ReadEnds => Return(Failed) \/ Return(plain)
      BY Zenon DEF RoundTripFails, ReadEnds
    <3> HIDE DEF plain
    <3> QED
      BY <2>1, <2>3, <2>5, <3>1, <3>2, <3>3, Zenon DEF TransportStep
  <2>10. CallTyped /\ asked' \in SHA \cup {Other} /\ loaded' \in BOOLEAN
    BY <1>4, <1>10, <2>6, <2>7, <2>8, <2>9, <2>11, Zenon DEF Client
  <2> QED
    BY <2>10, Zenon DEF CallTypes, CallTyped
<1>11. ASSUME UNCHANGED vars
       PROVE  CallTypes'
  BY <1>3, <1>4, <1>11, Zenon DEF vars, callVars, CallTypes
<1> QED
  BY <1>8, <1>9, <1>10, <1>11, Zenon DEF Next

\* The variables have the types the runs check.
THEOREM UpstreamTypes == Spec => []TypeOK
<1>1. Init => CallTypes
  <2>1. NoAnswer.kind = "none"
    BY DEF NoAnswer
  <2> QED
    BY <2>1, Zenon DEF Init, CallInit, PullRequestsIdle, CallTypes
<1>2. CallTypes /\ [Next]_vars => CallTypes'
  BY CallTypesNext
<1>3. CallTypes /\ ListingInv /\ LookupInv /\ FilesInv => TypeOK
  <2> SUFFICES ASSUME CallTypes, ListingInv, LookupInv, FilesInv
               PROVE  TypeOK
    OBVIOUS
  <2>1. times \in [Repo -> 0..MaxListPages]
    BY RepoListingAssumption DEF ListingInv, ListTypes
  <2> QED
    BY <2>1, Zenon DEF CallTypes, ListingInv, ListTypes, LookupInv, LookupTypes, FilesInv, TypeOK
<1> QED
  BY <1>1, <1>2, <1>3, ListingHolds, LookupHolds, FilesHold, PTL DEF Spec

-----------------------------------------------------------------------------
(* Calls come to an end *)

\* While a call runs there is no answer waiting to be taken.
Unanswered == op # "none" => answer = NoAnswer

LEMMA ClientCall ==
  ASSUME Client
  PROVE  op' = "none" \/ UNCHANGED callVars
<1>1. \A a : Return(a) => op' = "none"
  BY DEF Return
<1>2. ListingStep => op' = "none" \/ UNCHANGED callVars
  BY <1>1, Zenon DEF ListingStep, FetchPage, FetchFails
<1>3. PullRequestsStep => op' = "none" \/ UNCHANGED callVars
  BY <1>1, Zenon DEF PullRequestsStep, ListPullRequests, ListPullRequestsFails,
     ExaminePullRequest, NoneDecides, callVars
<1>4. FilesStep => op' = "none" \/ UNCHANGED callVars
  BY <1>1, Zenon DEF FilesStep, FileRequestFails, ContentFails, GetHeadSHA, GetGoMod,
     ScanLine, NoDirective, GetMaintainerConfig, callVars
<1>5. LookupStep => op' = "none" \/ UNCHANGED callVars
  BY <1>1, Zenon DEF LookupStep, FetchReleases, FetchReleasesFails, ExamineRelease,
     FinishLookup, callVars
<1>6. TransportStep => op' = "none" \/ UNCHANGED callVars
  BY <1>1, Zenon DEF TransportStep, RoundTrip, RoundTripFails, Peek, HandOver, ReadPrefix,
     ReadSource, ReadEnds, callVars
<1> QED
  BY <1>2, <1>3, <1>4, <1>5, <1>6, Zenon DEF Client

\* The caller waits for a call to return.
LEMMA CallerWaits ==
  ASSUME Unanswered, Caller
  PROVE  op = "none" /\ (op' = "none" \/ answer' = NoAnswer)
<1>1. \A o : Begin(o) => op = "none" /\ answer' = NoAnswer
  BY DEF Begin
<1>2. TakeAnswer => op = "none" /\ op' = "none"
  BY DEF TakeAnswer, Unanswered
<1> QED
  BY <1>1, <1>2, Zenon DEF Caller, BeginListRepos, BeginHasOpenUpdatePR, BeginGetMergedUpdatePR,
     BeginGetHeadSHA, BeginGetGoMod, BeginGetMaintainerConfig, BeginLatestStable, BeginRequest

LEMMA EnvironmentCall ==
  ASSUME Environment
  PROVE  op' = op /\ answer' = answer
<1>1. InstallationStep => UNCHANGED callVars
  BY Zenon DEF InstallationStep, Join, Leave, Archive, Unarchive
<1> QED
  BY <1>1, Zenon DEF Environment, Cancel, callVars

THEOREM UnansweredHolds == Spec => []Unanswered
<1>1. Init => Unanswered
  BY DEF Init, CallInit, Unanswered
<1>2. Unanswered /\ [Next]_vars => Unanswered'
  <2> SUFFICES ASSUME Unanswered, [Next]_vars
               PROVE  Unanswered'
    OBVIOUS
  <2>1. op' = "none" \/ answer' = NoAnswer \/ (op' = op /\ answer' = answer)
    BY ClientCall, CallerWaits, EnvironmentCall, Zenon DEF Next, vars, callVars
  <2> QED
    BY <2>1, Zenon DEF Unanswered
<1> QED
  BY <1>1, <1>2, PTL DEF Spec

LEMMA NearerPair ==
  ASSUME NEW i \in Nat, NEW a \in Nat, NEW j \in Int, NEW b \in Int,
         i < j \/ (i = j /\ a < b)
  PROVE  Nearer(<<i, a>>, <<j, b>>)
BY DEF Nearer

LEMMA ListingAdvances ==
  ASSUME ListingInv, ListingStep, op' # "none"
  PROVE  Nearer(Remaining', Remaining)
<1>1. PICK link \in Links : FetchPage(link)
  BY DEF ListingStep, FetchFails, Return
<1>2. op = "list_repos" /\ op' = op /\ page' = page + 1 /\ page + 1 < MaxListPages
  BY <1>1 DEF FetchPage, Return, MorePages, callVars
<1>3. /\ Remaining = <<0, MaxListPages - page>>
      /\ Remaining' = <<0, MaxListPages - page'>>
  BY <1>2, Zenon DEF Remaining, PullRequestCall
<1>4. page \in Nat /\ MaxListPages \in Nat
  BY RepoListingAssumption DEF ListingInv, ListTypes
<1> QED
  BY <1>2, <1>3, <1>4, NearerPair

\* The page a loop looks through is finite.
LEMMA PageIsFinite ==
  ASSUME PullsInv, loaded
  PROVE  IsFiniteSet(prs) /\ Cardinality(prs) \in Nat
<1>1. PICK k \in Nat : DOMAIN requests = 1..k
  BY DEF PullsInv
<1>2. prs \subseteq 1..k
  BY <1>1 DEF PullsInv, Listed, FirstPage, Open, FromBranch
<1>3. IsFiniteSet(1..k)
  BY FS_Interval
<1> QED
  BY <1>2, <1>3, FS_Subset, FS_CardinalityType

LEMMA PullRequestsAdvance ==
  ASSUME PullsInv, PullsInv', PullRequestsStep, op' # "none"
  PROVE  Nearer(Remaining', Remaining)
<1>1. /\ PullRequestCall
      /\ Remaining = IF loaded THEN <<0, Cardinality(prs)>> ELSE <<1, 0>>
  BY DEF PullRequestsStep, ListPullRequests, ListPullRequestsFails, ExaminePullRequest,
     NoneDecides, PullRequestCall, Remaining
<1>2. PullRequestCall' => Remaining' = IF loaded' THEN <<0, Cardinality(prs')>> ELSE <<1, 0>>
  BY DEF PullRequestCall, Remaining
<1>3. CASE ListPullRequests
  <2>1. op' = op /\ ~loaded /\ loaded'
    BY <1>3 DEF ListPullRequests, callVars
  <2>2. PullRequestCall'
    BY <1>1, <2>1 DEF PullRequestCall
  <2>3. Cardinality(prs') \in Nat
    <3>1. (PullsInv /\ loaded => Cardinality(prs) \in Nat)'
      BY PageIsFinite, PTL
    <3> QED
      BY <2>1, <3>1
  <2> QED
    BY <1>1, <1>2, <2>1, <2>2, <2>3, NearerPair
<1>4. CASE ExaminePullRequest
  <2>1. PICK n \in prs : prs' = prs \ {n} /\ UNCHANGED <<callVars, requests, asked, loaded>>
    BY <1>4 DEF ExaminePullRequest, Return
  <2>2. op' = op /\ loaded /\ loaded'
    BY <1>4, <2>1 DEF ExaminePullRequest, callVars
  <2>3. PullRequestCall'
    BY <1>1, <2>2 DEF PullRequestCall
  <2>4. IsFiniteSet(prs) /\ Cardinality(prs) \in Nat
    BY <2>2, PageIsFinite
  <2>5. Cardinality(prs') = Cardinality(prs) - 1
    BY <2>1, <2>4, FS_RemoveElement
  <2>6. Cardinality(prs') \in Nat
    BY <2>1, <2>4, FS_RemoveElement, FS_CardinalityType
  <2> QED
    BY <1>1, <1>2, <2>2, <2>3, <2>4, <2>5, <2>6, NearerPair
<1> QED
  BY <1>3, <1>4 DEF PullRequestsStep, ListPullRequestsFails, NoneDecides, Return

LEMMA LookupAdvances ==
  ASSUME LookupInv, LookupInv', LookupStep, op' # "none"
  PROVE  Nearer(Remaining', Remaining)
<1>1. FetchReleases \/ ExamineRelease
  BY DEF LookupStep, FetchReleasesFails, FinishLookup, Return
<1>2. op = "latest_stable" /\ op' = op /\ fetched'
  BY <1>1 DEF FetchReleases, ExamineRelease, callVars
<1>3. /\ Remaining = IF fetched THEN <<0, Len(releases) + 1 - at>> ELSE <<1, 0>>
      /\ Remaining' = <<0, Len(releases') + 1 - at'>>
  BY <1>2 DEF Remaining, PullRequestCall
<1>4. /\ Len(releases) \in Nat /\ at \in Nat
      /\ Len(releases') + 1 - at' \in Nat
  BY DEF LookupInv, LookupTypes
<1>5. CASE FetchReleases
  BY <1>3, <1>4, <1>5, NearerPair DEF FetchReleases
<1>6. CASE ExamineRelease
  <2>1. fetched /\ releases' = releases /\ at' = at + 1
    BY <1>6 DEF ExamineRelease
  <2> QED
    BY <1>3, <1>4, <2>1, NearerPair
<1> QED
  BY <1>1, <1>5, <1>6

LEMMA FilesAdvance ==
  ASSUME FilesInv, FilesInv', FilesStep, op' # "none"
  PROVE  Nearer(Remaining', Remaining)
<1>1. GetGoMod \/ ScanLine
  BY DEF FilesStep, FileRequestFails, ContentFails, GetHeadSHA, NoDirective,
     GetMaintainerConfig, Return
<1>2. op = "go_mod" /\ op' = op /\ file' = file /\ scanned' # NotYet
  <2>1. CASE GetGoMod
    BY <2>1 DEF GetGoMod, Return, NotYet, callVars
  <2>2. CASE ScanLine
    <3>1. scanned' = scanned + 1 /\ file' = file /\ op' = op /\ op = "go_mod" /\ scanned # NotYet
      BY <2>2 DEF ScanLine, Return, callVars
    <3>2. scanned \in Nat
      BY <3>1, ScannedFile DEF FilesInv, ScanInv
    <3> QED
      BY <3>1, <3>2 DEF NotYet
  <2> QED
    BY <1>1, <2>1, <2>2
<1>3. /\ Remaining = IF scanned = NotYet THEN <<1, 0>> ELSE <<0, Len(file.content) - scanned>>
      /\ Remaining' = <<0, Len(file.content) - scanned'>>
  BY <1>2 DEF Remaining, PullRequestCall
<1>4. Len(file.content) \in Nat /\ scanned' \in 0..Len(file.content)
  <2>1. (FilesInv /\ scanned # NotYet => Len(file.content) \in Nat)'
    BY ScannedFile, PTL
  <2>2. scanned' \in 0..Len(file'.content)
    BY <1>2 DEF FilesInv, ScanInv, NotYet
  <2> QED
    BY <1>2, <2>1, <2>2
<1>5. CASE GetGoMod
  <2>1. scanned = NotYet
    BY <1>5 DEF GetGoMod
  <2> QED
    BY <1>3, <1>4, <2>1, NearerPair
<1>6. CASE ScanLine
  <2>1. scanned # NotYet /\ scanned' = scanned + 1
    BY <1>6 DEF ScanLine, Return
  <2>2. scanned \in Nat
    BY <2>1, <1>4, ScannedFile DEF FilesInv, ScanInv
  <2> QED
    BY <1>3, <1>4, <2>1, <2>2, NearerPair
<1> QED
  BY <1>1, <1>5, <1>6

LEMMA TransportAdvances ==
  ASSUME BodyInv, BodyInv', TransportStep, op' # "none"
  PROVE  Nearer(Remaining', Remaining)
<1>1. RoundTrip \/ Peek \/ HandOver \/ ReadPrefix \/ ReadSource
  BY DEF TransportStep, RoundTripFails, ReadEnds, Return
<1>2. op = "request" /\ op' = op
  BY <1>1 DEF RoundTrip, Peek, HandOver, ReadPrefix, ReadSource, callVars
<1>3. /\ Remaining = IF phase = "sent" THEN <<2, 0>>
                     ELSE IF phase = "peeking" THEN <<1, Len(source)>>
                     ELSE <<0, Len(peeked) + Len(source)>>
      /\ Remaining' = IF phase' = "sent" THEN <<2, 0>>
                      ELSE IF phase' = "peeking" THEN <<1, Len(source')>>
                      ELSE <<0, Len(peeked') + Len(source')>>
  <2>1. op = "request" /\ op' = "request"
    BY <1>2
  <2>2. ~PullRequestCall /\ ~PullRequestCall'
    BY <2>1 DEF PullRequestCall
  <2> QED
    BY <2>1, <2>2 DEF Remaining
<1>4. /\ Len(source) \in Nat /\ Len(peeked) \in Nat
      /\ Len(source') \in Nat /\ Len(peeked') \in Nat
  <2>1. /\ source \in Seq(Nat) /\ peeked \in Seq(Nat)
        /\ source' \in Seq(Nat) /\ peeked' \in Seq(Nat)
    BY Zenon DEF BodyInv
  <2> QED
    BY <2>1
<1>5. \A s \in Seq(Nat) : s # <<>> => Len(Tail(s)) = Len(s) - 1
  BY HeadTailProperties
<1>6. CASE RoundTrip
  <2>1. phase = "sent" /\ phase' \in {"peeking", "handed"}
    BY <1>6 DEF RoundTrip
  <2> QED
    BY <1>3, <1>4, <2>1, NearerPair
<1>7. CASE Peek
  <2>1. phase = "peeking" /\ phase' = phase /\ source # <<>> /\ source' = Tail(source)
    BY <1>7 DEF Peek
  <2>2. Len(source') = Len(source) - 1
    BY <1>5, <2>1 DEF BodyInv
  <2> QED
    BY <1>3, <1>4, <2>1, <2>2, NearerPair
<1>8. CASE HandOver
  <2>1. phase = "peeking" /\ phase' = "handed"
    BY <1>8 DEF HandOver
  <2> QED
    BY <1>3, <1>4, <2>1, NearerPair
<1>9. CASE ReadPrefix
  <2>1. phase = "handed" /\ phase' = phase /\ peeked # <<>> /\ peeked' = Tail(peeked)
        /\ source' = source
    BY <1>9 DEF ReadPrefix
  <2>2. Len(peeked') = Len(peeked) - 1
    BY <1>5, <2>1 DEF BodyInv
  <2> QED
    BY <1>3, <1>4, <2>1, <2>2, NearerPair
<1>10. CASE ReadSource
  <2>1. phase = "handed" /\ phase' = phase /\ source # <<>> /\ source' = Tail(source)
        /\ peeked' = peeked
    BY <1>10 DEF ReadSource
  <2>2. Len(source') = Len(source) - 1
    BY <1>5, <2>1 DEF BodyInv
  <2> QED
    BY <1>3, <1>4, <2>1, <2>2, NearerPair
<1> QED
  BY <1>1, <1>6, <1>7, <1>8, <1>9, <1>10

\* What happens outside a call does not take it back.
LEMMA RemainingStays ==
  ASSUME Environment
  PROVE  Remaining' = Remaining
<1>1. op' = op
  BY EnvironmentCall
<1>2. /\ page' = page /\ loaded' = loaded /\ prs' = prs
      /\ fetched' = fetched /\ releases' = releases /\ at' = at
      /\ file' = file /\ scanned' = scanned
      /\ phase' = phase /\ source' = source /\ peeked' = peeked
  <2>1. UNCHANGED <<prVars, fileVars, lookupVars, bodyVars>>
    BY Zenon DEF Environment
  <2>2. page' = page
    BY DEF Environment, InstallationStep, Join, Leave, Archive, Unarchive, listVars
  <2> QED
    BY <2>1, <2>2 DEF prVars, fileVars, lookupVars, bodyVars
<1> QED
  BY <1>1, <1>2, Zenon DEF Remaining, PullRequestCall

\* For every page size, cap, set of links, feed, file and body: no client goes
\* round in a circle.  With the fairness of its steps this is why each call
\* returns.
THEOREM CallsAdvanceHolds == Spec => CallsAdvance
<1> DEFINE Inv == ListingInv /\ PullsInv /\ LookupInv /\ FilesInv /\ BodyInv /\ Unanswered
           Progress == op # "none" /\ op' # "none" =>
                         /\ op' = op
                         /\ \/ Nearer(Remaining', Remaining)
                            \/ Environment /\ Remaining' = Remaining
<1>1. ASSUME Inv, Inv', Client
      PROVE  Progress
  <2>1. op' # "none" => op' = op
    BY <1>1, ClientCall DEF callVars
  <2> QED
    BY <1>1, <2>1, ListingAdvances, PullRequestsAdvance, LookupAdvances, FilesAdvance,
       TransportAdvances, Zenon DEF Client
<1>2. ASSUME Inv, Caller
      PROVE  Progress
  BY <1>2, CallerWaits
<1>3. ASSUME Environment
      PROVE  Progress
  BY <1>3, EnvironmentCall, RemainingStays
<1>4. Inv /\ Inv' /\ [Next]_vars => [Progress]_vars
  BY <1>1, <1>2, <1>3, Zenon DEF Next
<1>5. Spec => []Inv
  BY ListingHolds, PullsHold, LookupHolds, FilesHold, BodyHolds, UnansweredHolds, PTL
<1> QED
  BY <1>4, <1>5, PTL DEF Spec, CallsAdvance

=============================================================================

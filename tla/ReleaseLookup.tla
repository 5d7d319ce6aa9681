--------------------------- MODULE ReleaseLookup ---------------------------
(***************************************************************************)
(* LatestStable of pkg/godevclient.go: the newest stable release of the    *)
(* feed go.dev answers with, entry by entry.                               *)
(***************************************************************************)
EXTENDS ApiCall, GoVersion

CONSTANTS
  Feeds  \* the feeds go.dev may answer with

GoDevRelease == [version: Text, stable: BOOLEAN]

ASSUME ReleaseLookupAssumption == Feeds \subseteq Seq(GoDevRelease)

VARIABLES
  fetched,   \* the feed has arrived
  releases,  \* the feed
  at,        \* index of the entry the loop is at
  max        \* the newest stable release among those before it

lookupVars == <<fetched, releases, at, max>>

LookupIdle ==
  /\ fetched = FALSE
  /\ releases = <<>>
  /\ at = 1
  /\ max = NoVersion

ForgetFeed ==
  /\ fetched' = FALSE
  /\ releases' = <<>>
  /\ at' = 1
  /\ max' = NoVersion

BeginLatestStable ==
  /\ Begin("latest_stable")
  /\ UNCHANGED lookupVars

FetchReleases ==
  /\ op = "latest_stable"
  /\ ~fetched
  /\ ~cancelled
  /\ fetched' = TRUE
  /\ releases' \in Feeds
  /\ UNCHANGED <<callVars, at, max>>

\* No answer in time, a status other than 200, a body that breaks off or is
\* not a list of releases.
FetchReleasesFails ==
  /\ op = "latest_stable"
  /\ ~fetched
  /\ Return(Failed)
  /\ ForgetFeed

\* The entry becomes the newest one seen.
Better(r) ==
  LET v == ParseGoRelease(r.version) IN
  /\ r.stable
  /\ v # NoVersion
  /\ max = NoVersion \/ Less(max, v)

ExamineRelease ==
  /\ op = "latest_stable"
  /\ fetched
  /\ at <= Len(releases)
  /\ at' = at + 1
  /\ max' = IF Better(releases[at]) THEN ParseGoRelease(releases[at].version) ELSE max
  /\ UNCHANGED <<callVars, fetched, releases>>

FinishLookup ==
  /\ op = "latest_stable"
  /\ fetched
  /\ at > Len(releases)
  /\ Return(IF max = NoVersion THEN Failed ELSE [kind |-> "ok", version |-> max])
  /\ ForgetFeed

LookupStep ==
  \/ FetchReleases
  \/ FetchReleasesFails
  \/ ExamineRelease
  \/ FinishLookup

-----------------------------------------------------------------------------
(* Properties *)

Candidates(s) == {i \in DOMAIN s : s[i].stable /\ Names(s[i].version, TRUE)}

\* Once the feed is there, LatestStable answers with the three numbers of a
\* stable release of it that no other stable release exceeds, wherever
\* either stands in the feed and whatever unstable and unreadable entries
\* stand beside them, and fails only if there is no stable release at all.
LatestStableIsNewest ==
  [][op = "latest_stable" /\ fetched /\ op' = "none" =>
       IF Candidates(releases) = {} THEN answer' = Failed
       ELSE /\ answer'.kind = "ok"
            /\ \E i \in Candidates(releases) :
                 NumbersOf(answer'.version) = Numbers(releases[i].version)
            /\ \A i \in Candidates(releases) :
                 ~ Precedes(NumbersOf(answer'.version), Numbers(releases[i].version))
    ]_<<callVars, lookupVars>>

=============================================================================

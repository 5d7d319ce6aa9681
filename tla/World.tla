------------------------------- MODULE World -------------------------------
(***************************************************************************)
(* Everything the watcher talks to and does not contain: the repositories  *)
(* on GitHub, the Go release feed, the update agent that turns a filed     *)
(* task into a pull request, the task controller downstream, the clock.    *)
(* None of it is code of this repository: each definition states what      *)
(* pkg/watcher.go, pkg/githubclient.go and their doc comments rely on.     *)
(*                                                                         *)
(* A repository is the sequence of commits its default branch has had.  A  *)
(* head SHA is the position of a commit in that sequence, so the content   *)
(* of a SHA never changes and HEAD only moves to fresh SHAs.  Go releases  *)
(* are numbered in the order Version.Less gives them.  0 stands for the    *)
(* empty string wherever the code compares with "".                        *)
(***************************************************************************)
EXTENDS Naturals, Sequences

CONSTANTS
  Repo,        \* the repositories of the owner
  MaxSHA,      \* bound: commits a default branch gets
  FirstGo,     \* the stable release when the watcher starts
  MaxGo,       \* bound: stable Go releases
  MaxTime,     \* bound: ticks of the clock
  NoGoMod,     \* content of a commit without a go.mod
  Unparsable,  \* content of a commit whose go.mod has no readable version
  Contents,    \* what an owner may commit, a subset of Commit
  ShortSHA,    \* ShortSHA[h]: the first seven characters of SHA h
  Crowded,     \* bound: repositories whose pull requests fill a page
  Retargeted   \* bound: repositories whose update may go to another branch

None    == 0
SHA     == 1..MaxSHA
Version == 1..MaxGo
GoMod   == Version \cup {NoGoMod, Unparsable}
Consent == {"granted", "refused", "undecided", "malformed"}
Commit  == [goMod: GoMod, consent: Consent]

\* An update task; DeriveTaskID hashes exactly these three.
Task == [repo: Repo, go: Version, sha: SHA]

ASSUME WorldAssumption ==
  /\ MaxSHA \in Nat \ {0}
  /\ MaxGo \in Nat \ {0}
  /\ FirstGo \in 1..MaxGo
  /\ MaxTime \in Nat
  /\ NoGoMod \notin Nat
  /\ Unparsable \notin Nat
  /\ NoGoMod # Unparsable
  /\ Contents \subseteq Commit
  /\ Contents # {}
  /\ DOMAIN ShortSHA = SHA
  /\ Crowded \subseteq Repo
  /\ Retargeted \subseteq Repo

VARIABLES
  commits,    \* commits[r]: the commits of r's default branch, oldest first
  latest,     \* the newest stable Go release
  now,        \* the clock
  open,       \* tasks whose update pull request is open
  merged,     \* tasks whose update pull request has merged
  buried,     \* of these two, the ones behind a full page of newer ones
  filed,      \* create-task commands the controller has received
  completed,  \* complete-task commands the controller has received
  decisions   \* repositories a decision task was received for

github     == <<commits, open, merged, buried>>
controller == <<filed, completed, decisions>>
worldVars  == <<github, latest, now, controller>>

HeadOf(r)     == Len(commits[r])
HeadCommit(r) == commits[r][HeadOf(r)]

\* The head branch of an update pull request is fix/update-go-<sha[:7]>: it
\* names neither the Go version nor the whole SHA.
SameBranch(t, r, h) == t.repo = r /\ ShortSHA[t.sha] = ShortSHA[h]

\* What is so, and what the first page of the listing shows of it.
OpenUpdatePR(r)         == \E t \in open : t.repo = r
HasOpenUpdatePR(r)      == \E t \in open \ buried : t.repo = r
MergedUpdatePR(r, h)    == \E t \in merged : SameBranch(t, r, h)
GetMergedUpdatePR(r, h) == \E t \in merged \ buried : SameBranch(t, r, h)

\* A go directive is strictly behind release v; absent and unreadable are not.
Behind(g, v) == g \in Version /\ g < v

WorldTypeOK ==
  /\ commits \in [Repo -> Seq(Commit)]
  /\ \A r \in Repo : HeadOf(r) \in SHA
  /\ latest \in Version
  /\ now \in 0..MaxTime
  /\ open \subseteq Task
  /\ merged \subseteq Task
  /\ buried \subseteq Task
  /\ filed \subseteq Task
  /\ completed \subseteq Task
  /\ decisions \subseteq Repo

WorldInit ==
  /\ commits \in [Repo -> {<<c>> : c \in Contents}]
  /\ latest = FirstGo
  /\ now = 0
  /\ open = {}
  /\ merged = {}
  /\ buried = {}
  /\ filed = {}
  /\ completed = {}
  /\ decisions = {}

-----------------------------------------------------------------------------

AddCommit(r, c) ==
  /\ HeadOf(r) < MaxSHA
  /\ commits' = [commits EXCEPT ![r] = Append(@, c)]

\* Somebody pushes to the default branch of r.
Push(r) ==
  /\ \E c \in Contents : AddCommit(r, c)
  /\ UNCHANGED <<open, merged, buried, latest, now, controller>>

\* A new stable Go release appears on the download feed.
Release ==
  /\ latest < MaxGo
  /\ latest' = latest + 1
  /\ UNCHANGED <<github, now, controller>>

Tick ==
  /\ now < MaxTime
  /\ now' = now + 1
  /\ UNCHANGED <<github, latest, controller>>

\* The agent picks up an unfinished task and opens its pull request.  GitHub
\* refuses a second open pull request from the same branch.
OpenPR(t) ==
  /\ t \in filed \ (completed \cup merged)
  /\ ~ \E u \in open : SameBranch(u, t.repo, t.sha)
  /\ open' = open \cup {t}
  /\ UNCHANGED <<commits, merged, buried, latest, now, controller>>

\* A pull request is closed unmerged.
ClosePR(t) ==
  /\ t \in open
  /\ open' = open \ {t}
  /\ buried' = buried \ {t}
  /\ UNCHANGED <<commits, merged, latest, now, controller>>

\* A pull request merges: HEAD moves, to the task's version or, when go.mod
\* was resolved otherwise on the way, to what it declared before; or the
\* branch merged into is not the default one, and HEAD stays.  No newer pull
\* request can have come from the same branch meanwhile.
MergePR(t) ==
  /\ t \in open
  /\ \/ \E g \in {t.go, HeadCommit(t.repo).goMod} :
          AddCommit(t.repo, [goMod |-> g, consent |-> HeadCommit(t.repo).consent])
     \/ t.repo \in Retargeted /\ UNCHANGED commits
  /\ open' = open \ {t}
  /\ merged' = merged \cup {t}
  /\ buried' = buried \ {t}
  /\ UNCHANGED <<latest, now, controller>>

\* A hundred newer pull requests push one off the first page: newer open ones
\* an open one, later attempts from its branch a merged one.
Bury(t) ==
  /\ t \in (open \cup merged) \ buried
  /\ t.repo \in Crowded
  /\ buried' = buried \cup {t}
  /\ UNCHANGED <<commits, open, merged, latest, now, controller>>

\* Newer open ones close.  The attempts from a branch stay listed.
Unbury(t) ==
  /\ t \in open \cap buried
  /\ buried' = buried \ {t}
  /\ UNCHANGED <<commits, open, merged, latest, now, controller>>

WorldStep ==
  \/ \E r \in Repo : Push(r)
  \/ Release
  \/ Tick
  \/ \E t \in Task :
       OpenPR(t) \/ ClosePR(t) \/ MergePR(t) \/ Bury(t) \/ Unbury(t)

=============================================================================

------------------------------ MODULE Upstream ------------------------------
(***************************************************************************)
(* The clients of GitHub and go.dev together, as the cycle uses them: any  *)
(* call after any other, one at a time.                                    *)
(***************************************************************************)
EXTENDS RepoListing, PullRequests, RepoFiles, ReleaseLookup, LoggingTransport

vars == <<callVars, listVars, prVars, fileVars, lookupVars, bodyVars>>

Init ==
  /\ CallInit
  /\ ListingIdle
  /\ PullRequestsIdle
  /\ FilesIdle
  /\ LookupIdle
  /\ TransportIdle

Caller ==
  \/ BeginListRepos /\ UNCHANGED <<prVars, fileVars, lookupVars, bodyVars>>
  \/ /\ \/ BeginHasOpenUpdatePR
        \/ \E h \in SHA : BeginGetMergedUpdatePR(h)
     /\ UNCHANGED <<listVars, fileVars, lookupVars, bodyVars>>
  \/ /\ BeginGetHeadSHA \/ BeginGetGoMod \/ BeginGetMaintainerConfig
     /\ UNCHANGED <<listVars, prVars, lookupVars, bodyVars>>
  \/ BeginLatestStable /\ UNCHANGED <<listVars, prVars, fileVars, bodyVars>>
  \/ BeginRequest /\ UNCHANGED <<listVars, prVars, fileVars, lookupVars>>
  \/ TakeAnswer /\ UNCHANGED <<listVars, prVars, fileVars, lookupVars, bodyVars>>

Environment ==
  \/ InstallationStep /\ UNCHANGED <<prVars, fileVars, lookupVars, bodyVars>>
  \/ Cancel /\ UNCHANGED <<listVars, prVars, fileVars, lookupVars, bodyVars>>

Client ==
  \/ ListingStep /\ UNCHANGED <<prVars, fileVars, lookupVars, bodyVars>>
  \/ PullRequestsStep /\ UNCHANGED <<listVars, fileVars, lookupVars, bodyVars>>
  \/ FilesStep /\ UNCHANGED <<listVars, prVars, lookupVars, bodyVars>>
  \/ LookupStep /\ UNCHANGED <<listVars, prVars, fileVars, bodyVars>>
  \/ TransportStep /\ UNCHANGED <<listVars, prVars, fileVars, lookupVars>>

Next == Caller \/ Environment \/ Client

Spec == Init /\ [][Next]_vars

\* A request is answered or fails at some time.
FairSpec == Spec /\ WF_vars(Client)

-----------------------------------------------------------------------------
(* Properties *)

TypeOK ==
  /\ op \in Op \cup {"none"}
  /\ answer.kind \in {"none", "ok", "failed", "rate_limited", "too_many"}
  /\ cancelled \in BOOLEAN
  /\ installed \in Seq(Repo)
  /\ archived \subseteq Repo
  /\ page \in 0..(MaxListPages - 1)
  /\ nextPage \in Links \ {0}
  /\ times \in [Repo -> 0..MaxListPages]
  /\ steady \subseteq Repo \ (archived \cup Foreign)
  /\ left + joined <= MaxMoves
  /\ asked \in SHA \cup {Other}
  /\ loaded \in BOOLEAN
  /\ max \in Version \cup {NoVersion}
  /\ at \in 1..(Len(releases) + 1)
  /\ latestGo \in Version \cup {NoVersion}

\* How far a call is from its end: the stages before its last loop, and the
\* pages, pull requests, entries, lines or bytes the loop has still to go.
Remaining ==
  CASE op = "list_repos"    -> <<0, MaxListPages - page>>
    [] PullRequestCall      -> IF loaded THEN <<0, Cardinality(prs)>> ELSE <<1, 0>>
    [] op = "latest_stable" -> IF fetched THEN <<0, Len(releases) + 1 - at>> ELSE <<1, 0>>
    [] op = "go_mod"        -> IF scanned = NotYet THEN <<1, 0>>
                               ELSE <<0, Len(file.content) - scanned>>
    [] op = "request"       -> IF phase = "sent" THEN <<2, 0>>
                               ELSE IF phase = "peeking" THEN <<1, Len(source)>>
                               ELSE <<0, Len(peeked) + Len(source)>>
    [] OTHER                -> <<0, 0>>

\* Lexicographic order on pairs of natural numbers, which is well-founded.
Nearer(a, b) ==
  /\ a \in Nat \X Nat
  /\ a[1] < b[1] \/ (a[1] = b[1] /\ a[2] < b[2])

\* No client can go round in a circle: each of its steps returns or brings the
\* call nearer to its end, whatever the links of a listing say
\* (githubclient.go:30), however the installation moves meanwhile and whatever
\* fails; nothing from outside takes a call back.
CallsAdvance ==
  [][op # "none" /\ op' # "none" =>
       /\ op' = op
       /\ \/ Nearer(Remaining', Remaining)
          \/ Environment /\ Remaining' = Remaining]_vars

\* Every call returns, a listing whose links lead in circles included
\* (githubclient.go:30).
CallsReturn == (op # "none") ~> (op = "none")

=============================================================================

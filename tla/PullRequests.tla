---------------------------- MODULE PullRequests ----------------------------
(***************************************************************************)
(* HasOpenUpdatePR and GetMergedUpdatePR of pkg/githubclient.go: one page  *)
(* of a repository's pull requests, newest first, looked through one by    *)
(* one until the context is done.                                          *)
(***************************************************************************)
EXTENDS ApiCall, SequencesExt

CONSTANTS
  SHA,         \* commits an update task may be filed at
  ShortSHA,    \* ShortSHA[h]: the first seven characters of h
  Other,       \* the head of a pull request that is not an update
  MaxRequests  \* bound: pull requests of the repository

ASSUME PullRequestsAssumption ==
  /\ DOMAIN ShortSHA = SHA
  /\ Other \notin SHA
  /\ MaxRequests \in Nat

\* A pull request, by the commit whose update it is.
PullRequest == [head: SHA \cup {Other}, state: {"open", "merged", "closed"}]

VARIABLES
  requests,  \* the repository's pull requests when they were listed
  asked,     \* the commit GetMergedUpdatePR was asked about, or Other
  prs,       \* positions on the answered page still to be looked at
  loaded     \* the page has arrived

prVars == <<requests, asked, prs, loaded>>

PullRequestsIdle ==
  /\ requests = <<>>
  /\ asked = Other
  /\ prs = {}
  /\ loaded = FALSE

ForgetPullRequests ==
  /\ requests' = <<>>
  /\ asked' = Other
  /\ prs' = {}
  /\ loaded' = FALSE

\* The branch updateBranchName gives the update filed at h.
UpdateBranch(h) == ShortSHA[h]

\* GitHub's side of the two listings: the positions of the pull requests a
\* listing selects among all, and of those the ones on its first page.
Open(all) == {n \in DOMAIN all : all[n].state = "open"}

FromBranch(all, branch) ==
  {n \in DOMAIN all : all[n].head # Other /\ UpdateBranch(all[n].head) = branch}

Newer(n, listed) == Cardinality({m \in listed : m < n})

FirstPage(listed) == {n \in listed : Newer(n, listed) < PageSize}

\* Mutant: the merged pull requests are looked for among the open ones.
ListedOpenOnly(all) == FirstPage(Open(all))

\* The page the running call gets: the open pull requests for one, for the
\* other those of any state from the branch of the commit asked about.
Listed(all) ==
  FirstPage(IF op = "open_update_pr" THEN Open(all)
                                     ELSE FromBranch(all, UpdateBranch(asked)))

\* What the running call looks for: the branch prefix, or MergedAt.
Decides(pr) ==
  IF op = "open_update_pr" THEN pr.head # Other ELSE pr.state = "merged"

Found(b) == [kind |-> "ok", found |-> b]

BeginHasOpenUpdatePR ==
  /\ Begin("open_update_pr")
  /\ UNCHANGED prVars

BeginGetMergedUpdatePR(h) ==
  /\ Begin("merged_update_pr")
  /\ asked' = h
  /\ UNCHANGED <<requests, prs, loaded>>

PullRequestCall == op \in {"open_update_pr", "merged_update_pr"}

ListPullRequests ==
  /\ PullRequestCall
  /\ ~loaded
  /\ ~cancelled
  /\ requests' \in SeqOf(PullRequest, MaxRequests)
  /\ prs' = Listed(requests')
  /\ loaded' = TRUE
  /\ UNCHANGED <<callVars, asked>>

ListPullRequestsFails ==
  /\ PullRequestCall
  /\ ~loaded
  /\ \E e \in RequestErrors : Return(e)
  /\ ForgetPullRequests

\* Mutant: a loop broken off by the context answers no.
ExamineBreaksOff ==
  /\ PullRequestCall
  /\ loaded
  /\ \E n \in prs :
       /\ \A m \in prs : n <= m
       /\ \/ cancelled /\ Return(Found(FALSE)) /\ ForgetPullRequests
          \/ ~cancelled /\ Decides(requests[n]) /\ Return(Found(TRUE)) /\ ForgetPullRequests
          \/ /\ ~cancelled /\ ~Decides(requests[n])
             /\ prs' = prs \ {n} /\ UNCHANGED <<callVars, requests, asked, loaded>>

\* The loop looks at one pull request, unless the context is done.
ExaminePullRequest ==
  /\ PullRequestCall
  /\ loaded
  /\ \E n \in prs :
       /\ \A m \in prs : n <= m
       /\ \/ cancelled /\ Return(Failed) /\ ForgetPullRequests
          \/ ~cancelled /\ Decides(requests[n]) /\ Return(Found(TRUE)) /\ ForgetPullRequests
          \/ /\ ~cancelled /\ ~Decides(requests[n])
             /\ prs' = prs \ {n}
             /\ UNCHANGED <<callVars, requests, asked, loaded>>

NoneDecides ==
  /\ PullRequestCall
  /\ loaded
  /\ prs = {}
  /\ Return(Found(FALSE))
  /\ ForgetPullRequests

PullRequestsStep ==
  \/ ListPullRequests
  \/ ListPullRequestsFails
  \/ ExaminePullRequest
  \/ NoneDecides

-----------------------------------------------------------------------------
(* Properties *)

Answers(o) == op = o /\ op' = "none" /\ answer'.kind = "ok"

\* An answer about a listing: yes if one of the pull requests wanted is on it,
\* no if those there are come after a full page of newer ones.
TellsOf(wanted, listed) ==
  IF answer'.found THEN wanted # {}
  ELSE \A n \in wanted : Newer(n, listed) >= PageSize

\* HasOpenUpdatePR says yes only with an update pull request open when it
\* looked, and misses one only behind a full page of newer open ones; a
\* shutdown in the middle of the loop never turns into a no.
OpenUpdatePRSeen ==
  [][Answers("open_update_pr") =>
       TellsOf({n \in Open(requests) : requests[n].head # Other}, Open(requests))
      ]_<<callVars, prVars>>

\* GetMergedUpdatePR says yes only if an update merged whose commit the branch
\* name does not tell from the one asked about, and no only if no such update
\* has merged, a page full of later attempts from its branch aside.
MergedUpdatePRSeen ==
  [][Answers("merged_update_pr") =>
       LET tries == FromBranch(requests, UpdateBranch(asked)) IN
       TellsOf({n \in tries : requests[n].state = "merged"}, tries)
      ]_<<callVars, prVars>>

\* githubclient.go:106 promises of a no that there is no open update pull
\* request.
NoMeansNone ==
  [][Answers("open_update_pr") /\ ~answer'.found =>
       \A n \in Open(requests) : requests[n].head = Other]_<<callVars, prVars>>

=============================================================================

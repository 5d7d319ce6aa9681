---------------------------- MODULE RepoListing ----------------------------
(***************************************************************************)
(* ListRepos of pkg/githubclient.go: page after page of the repositories   *)
(* an installation may access, while repositories are added to it, taken   *)
(* from it, archived and unarchived between any two pages.                 *)
(*                                                                         *)
(* GitHub numbers the pages by position at the time of the request.  Each  *)
(* listing starts from any installation, so what happens between two       *)
(* listings needs no step.                                                 *)
(***************************************************************************)
EXTENDS ApiCall, SequencesExt

CONSTANTS
  Repo,           \* the repositories that may be in the installation
  Foreign,        \* those of another owner or without a name
  Archivable,     \* bound: those that are ever archived
  Installations,  \* the installations a listing may start from
  MaxListPages,   \* maxListPages
  MaxMoves        \* bound: repositories that join or leave during a listing

ASSUME RepoListingAssumption ==
  /\ IsFiniteSet(Repo)
  /\ Foreign \subseteq Repo
  /\ Archivable \subseteq Repo
  /\ MaxListPages \in Nat \ {0}
  /\ MaxMoves \in Nat
  /\ Installations \subseteq Seq(Repo)
  /\ \A s \in Installations : IsInjective(s)

VARIABLES
  installed,  \* the repositories of the installation, in GitHub's order
  archived,   \* the archived ones
  page,       \* pages read
  nextPage,   \* the page to ask for, opts.Page
  times       \* times[r]: how often r is in the slice; its order is left out

\* History of the running listing.
VARIABLES
  steady,  \* repositories in scope ever since the listing began
  left,    \* departures from the installation
  joined,  \* additions to it
  misled   \* some page came with a wrong link to the next one

listVars == <<installed, archived, page, nextPage, times,
              steady, left, joined, misled>>

\* The page read last ends at this position.
Offset == page * PageSize

Shown(p) ==
  {installed[q] : q \in {q \in DOMAIN installed :
                           (p - 1) * PageSize < q /\ q <= p * PageSize}}

\* What mapGitHubRepos keeps of a page.
MapGitHubRepos(repos) == repos \ (archived \cup Foreign)

\* Where GitHub's link on page p points to, 0 if there is none.
TrueLink(p) == IF Len(installed) > p * PageSize THEN p + 1 ELSE 0

Links == 0..(MaxListPages + 1)

ListingIdle ==
  /\ installed = <<>>
  /\ archived = {}
  /\ page = 0
  /\ nextPage = 1
  /\ times = [r \in Repo |-> 0]
  /\ steady = {}
  /\ left = 0
  /\ joined = 0
  /\ misled = FALSE

ForgetListing ==
  /\ installed' = <<>>
  /\ archived' = {}
  /\ page' = 0
  /\ nextPage' = 1
  /\ times' = [r \in Repo |-> 0]
  /\ steady' = {}
  /\ left' = 0
  /\ joined' = 0
  /\ misled' = FALSE

-----------------------------------------------------------------------------
(* The installation *)

Join(r, p) ==
  /\ op = "list_repos"
  /\ left + joined < MaxMoves
  /\ \A q \in DOMAIN installed : installed[q] # r
  /\ installed' = InsertAt(installed, p, r)
  /\ joined' = joined + 1
  /\ UNCHANGED <<callVars, archived, page, nextPage, times, steady, left, misled>>

Leave(p) ==
  /\ op = "list_repos"
  /\ left + joined < MaxMoves
  /\ installed' = RemoveAt(installed, p)
  /\ steady' = steady \ {installed[p]}
  /\ left' = left + 1
  /\ UNCHANGED <<callVars, archived, page, nextPage, times, joined, misled>>

\* Archived repositories stay in the installation and on its pages.
Archive(r) ==
  /\ op = "list_repos"
  /\ r \notin archived
  /\ archived' = archived \cup {r}
  /\ steady' = steady \ {r}
  /\ UNCHANGED <<callVars, installed, page, nextPage, times, left, joined, misled>>

Unarchive(r) ==
  /\ op = "list_repos"
  /\ r \in archived
  /\ archived' = archived \ {r}
  /\ UNCHANGED <<callVars, installed, page, nextPage, times, steady, left,
                 joined, misled>>

InstallationStep ==
  \/ \E r \in Repo, p \in 1..(Len(installed) + 1) : Join(r, p)
  \/ \E p \in DOMAIN installed : Leave(p)
  \/ \E r \in Archivable : Archive(r) \/ Unarchive(r)

-----------------------------------------------------------------------------
(* ListRepos *)

BeginListRepos ==
  /\ Begin("list_repos")
  /\ installed' \in Installations
  /\ archived' \in SUBSET Archivable
  /\ steady' = ToSet(installed') \ (archived' \cup Foreign)
  /\ UNCHANGED <<page, nextPage, times, left, joined, misled>>

\* Mutant: a page replaces the slice instead of being appended to it.
LastPageOnly(repos) == [r \in Repo |-> IF r \in repos THEN 1 ELSE 0]

\* The slice with a page appended.
Counted(repos) == [r \in Repo |-> IF r \in repos THEN times[r] + 1 ELSE times[r]]

\* Mutant: one page fewer than the cap allows.
MorePagesShort(link) == page + 2 < MaxListPages

\* Mutant: one page more than the cap allows.
MorePagesLong(link) == page < MaxListPages

\* The cap lets the page a link points to be read as well.
MorePages(link) == page + 1 < MaxListPages

\* Mutant: the request for the next page asks for this one again.
SamePage(link) == nextPage

\* The page to ask for next.
PageOf(link) == link

\* A page arrives.  Without a link to another one the listing is complete,
\* and with one it goes on, or fails if it has read maxListPages of them.
FetchPage(link) ==
  /\ op = "list_repos"
  /\ ~cancelled
  /\ LET listed == Counted(MapGitHubRepos(Shown(nextPage))) IN
     \/ /\ link = 0
        /\ Return([kind |-> "ok", repos |-> listed])
        /\ ForgetListing
     \/ /\ link # 0
        /\ ~MorePages(link)
        /\ Return([kind |-> "too_many"])
        /\ ForgetListing
     \/ /\ link # 0
        /\ MorePages(link)
        /\ page' = page + 1
        /\ nextPage' = PageOf(link)
        /\ times' = listed
        /\ misled' = (misled \/ link # TrueLink(nextPage))
        /\ UNCHANGED <<callVars, installed, archived, steady, left, joined>>

\* Mutant: a page that does not arrive is asked for again, whatever the cause.
FetchAgain ==
  /\ op = "list_repos"
  /\ UNCHANGED <<callVars, listVars>>

\* Mutant: a page that does not arrive makes the listing start over.
FetchRestarts ==
  /\ op = "list_repos"
  /\ page' = 0
  /\ nextPage' = 1
  /\ times' = [r \in Repo |-> 0]
  /\ UNCHANGED <<callVars, installed, archived, steady, left, joined, misled>>

\* A page does not arrive, or the context is found done before it is asked for.
FetchFails ==
  /\ op = "list_repos"
  /\ \E e \in RequestErrors : Return(e)
  /\ ForgetListing

ListingStep ==
  \/ \E link \in Links : FetchPage(link)
  \/ FetchFails

-----------------------------------------------------------------------------
(* Properties *)

ListingEnds(kind) == op = "list_repos" /\ op' = "none" /\ answer'.kind = kind

\* Every page, the last one included, came with the right link.
LinksTrue(kind) == ~misled /\ ((kind = "ok") <=> TrueLink(nextPage) = 0)

Missed   == {r \in steady : answer'.repos[r] = 0}
Repeated == {r \in Repo : answer'.repos[r] > 1}

\* ListRepos misses at most one repository for each that left the
\* installation while it read, and none if none left, whatever else moved:
\* githubclient.go:52 calls the slice the full set.
MissesFew ==
  [][ListingEnds("ok") /\ LinksTrue("ok") => Cardinality(Missed) <= left]_<<callVars, listVars>>

\* ListRepos returns at most one repository twice or more for each addition
\* while it read; the cycle processes those twice.
RepeatsFew ==
  [][ListingEnds("ok") /\ LinksTrue("ok") =>
       Cardinality(Repeated) <= joined]_<<callVars, listVars>>

\* A listing runs into the page cap only if the installation has more
\* repositories than maxListPages pages hold: a full last page is no error.
CapIsExceeded ==
  [][ListingEnds("too_many") /\ LinksTrue("too_many") =>
       Len(installed) > MaxListPages * PageSize]_<<callVars, listVars>>

=============================================================================

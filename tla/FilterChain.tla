----------------------------- MODULE FilterChain -----------------------------
(***************************************************************************)
(* The filters of pkg/filter and the order factory.CreateStaticFilters     *)
(* and watcher.Poll put them in.  Each filter is the reason it skips the   *)
(* candidate for, or Pass.  A candidate is a record                        *)
(*   repo, headSHA, latestGo, goModPresent, goModParsable, goBehind,       *)
(*   consent                                                               *)
(* the fields of filter.Candidate.                                         *)
(***************************************************************************)

\* The empty reason: the filter lets the candidate through.
Pass == ""

\* TaskCreationFilterList.Skip on a list of two: the first reason counts and
\* the rest of the list is not asked.
Then(first, rest) == IF first # Pass THEN first ELSE rest

\* An empty allowlist allows every repository of the owner.
RepoAllowlistFilter(allowlist, c) ==
  IF allowlist = {} \/ c.repo \in allowlist THEN Pass ELSE "scope"

GoModPresentFilter(c) == IF c.goModPresent THEN Pass ELSE "no_gomod"

GoModParsableFilter(c) ==
  IF c.goModPresent /\ ~c.goModParsable THEN "gomod_unparsable" ELSE Pass

GoBehindFilter(c) == IF c.goBehind THEN Pass ELSE "go_current"

\* Mutant: everything but an explicit refusal opts in.
AutoUpdateFilterOptOut(c) ==
  IF c.consent = "refused" THEN "auto_update_disabled" ELSE Pass

\* Mutant: an unanswered question reads as a refusal.
AutoUpdateFilterTwoValued(c) ==
  IF c.consent = "granted" THEN Pass ELSE "auto_update_disabled"

\* Positive opt-in: everything but an explicit grant is a skip, and every
\* value that is neither a grant nor a refusal reads as undecided.
AutoUpdateFilter(c) ==
  CASE c.consent = "granted" -> Pass
    [] c.consent = "refused" -> "auto_update_disabled"
    [] OTHER                 -> "auto_update_undecided"

\* Mutant: HEAD is the only key, as before spec 004.
SHAUnchangedFilterOneKey(lastSeenSHA, lastSeenGo, noSHA, c) ==
  IF c.headSHA # noSHA /\ c.headSHA = lastSeenSHA
  THEN "sha_unchanged" ELSE Pass

\* noSHA is the empty head SHA, which never counts as already seen.
SHAUnchangedFilter(lastSeenSHA, lastSeenGo, noSHA, c) ==
  IF /\ c.headSHA # noSHA
     /\ c.headSHA = lastSeenSHA
     /\ c.latestGo = lastSeenGo
  THEN "sha_unchanged" ELSE Pass

\* Mutant: consent is looked at before the version is.
StaticFiltersConsentFirst(allowlist, c) ==
  Then(RepoAllowlistFilter(allowlist, c),
  Then(AutoUpdateFilter(c),
  Then(GoModPresentFilter(c),
  Then(GoModParsableFilter(c), GoBehindFilter(c)))))

\* The cycle-invariant part of the chain.
StaticFilters(allowlist, c) ==
  Then(RepoAllowlistFilter(allowlist, c),
  Then(GoModPresentFilter(c),
  Then(GoModParsableFilter(c),
  Then(GoBehindFilter(c), AutoUpdateFilter(c)))))

\* The chain of one cycle: a forced cycle leaves SHAUnchangedFilter out.
CycleFilter(force, allowlist, lastSeenSHA, lastSeenGo, noSHA, c) ==
  Then(StaticFilters(allowlist, c),
       IF force THEN Pass
       ELSE SHAUnchangedFilter(lastSeenSHA, lastSeenGo, noSHA, c))

=============================================================================

----------------------------- MODULE MCWatcher -----------------------------
(***************************************************************************)
(* Watcher on small instances.  The .cfg files choose among these.         *)
(***************************************************************************)
EXTENDS Watcher

CONSTANTS r1, r2

With(g, c) == [goMod |-> g, consent |-> c]

\* One repository, every way a go.mod and a consent can read.
AnyCommits ==
  {With(1, "granted"), With(1, "undecided"), With(1, "refused"),
   With(1, "malformed"), With(2, "granted"), With(2, "undecided"),
   With(NoGoMod, "granted"), With(Unparsable, "undecided")}

\* Commits that leave a consenting repository behind every release but the
\* first, or make it current.
BehindOrCurrent == {With(1, "granted"), With(MaxGo, "granted")}

\* Commits behind every release but the first, by an owner who consents or
\* does not answer.
AskedCommits == {With(1, "granted"), With(1, "undecided")}

\* Commits that never touch go.mod.
StillBehind == {With(1, "granted")}

\* Short SHAs that tell the commits of a repository apart, and ones that do not.
OwnNames   == [h \in SHA |-> h]
SharedName == [h \in SHA |-> 1]

\* ListRepos on one repository, and on two of which one may be missing.
Single == {<<r1>>}
Fleet  == {<<r1, r2>>, <<r2>>}
=============================================================================

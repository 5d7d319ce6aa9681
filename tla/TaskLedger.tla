----------------------------- MODULE TaskLedger -----------------------------
(***************************************************************************)
(* What the task controller and the owner of a repository may take for     *)
(* granted about the commands the watcher sends (docs/dod.md:32,           *)
(* pkg/watcher.go:134-143): no create command for a release while the      *)
(* claim of the last one for it lives, no complete command but for a task  *)
(* that was created and whose branch merged, and none for a task settled.  *)
(* The watcher never ends a claim or unsettles a task of its own accord:   *)
(* the world does the one, and a fault does either.                        *)
(***************************************************************************)
EXTENDS Naturals

CONSTANTS
  Repo,       \* the repositories
  Task,       \* records with the fields repo, go and sha
  ShortSHA,   \* ShortSHA[h]: what a branch is named by
  None        \* no claim

VARIABLES
  world,      \* repositories, releases and the clock
  merged,     \* tasks whose update has merged
  filed,      \* tasks a create command was delivered for
  completed,  \* tasks a complete command was delivered for
  claim,      \* claim[r]: the release a live claim on r is for
  settled,    \* completed tasks no second complete command may be sent for
  faults      \* failing calls, crashes and shutdowns so far

vars == <<world, merged, filed, completed, claim, settled, faults>>

Init ==
  /\ filed = {}
  /\ completed = {}
  /\ claim = [r \in Repo |-> None]
  /\ settled = {}

\* Claims only end.
ClaimsEnd == \A r \in Repo : claim'[r] \in {claim[r], None}

\* A claim may be over as it is made: the update has landed in the meantime.
Create(t) ==
  /\ claim[t.repo] # t.go
  /\ filed' = filed \cup {t}
  /\ \A r \in Repo \ {t.repo} : claim'[r] = claim[r]
  /\ claim'[t.repo] \in {t.go, None}
  /\ faults' \in {faults, faults + 1}
  /\ UNCHANGED <<world, merged, completed, settled>>

\* A complete command whose delivery is reported as a failure settles nothing.
Complete(t) ==
  /\ t \in filed \ settled
  /\ \E u \in merged : u.repo = t.repo /\ ShortSHA[u.sha] = ShortSHA[t.sha]
  /\ completed' = completed \cup {t}
  /\ \/ settled' = settled \cup {t} /\ UNCHANGED faults
     \/ faults' = faults + 1 /\ UNCHANGED settled
  /\ UNCHANGED <<world, merged, filed, claim>>

World ==
  /\ world' # world
  /\ merged \subseteq merged'
  /\ ClaimsEnd
  /\ UNCHANGED <<filed, completed, settled, faults>>

Fail ==
  /\ faults' = faults + 1
  /\ ClaimsEnd
  /\ settled' \subseteq settled
  /\ UNCHANGED <<world, merged, filed, completed>>

Next ==
  \/ \E t \in Task : Create(t) \/ Complete(t)
  \/ World
  \/ Fail

Spec == Init /\ [][Next]_vars

=============================================================================

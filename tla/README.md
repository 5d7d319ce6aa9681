# A TLA+ model of github-update-go-watcher

The watcher polls the repositories of one GitHub owner, finds those whose
`go.mod` is behind the newest stable Go release, and files an update task for
each with the task controller (over Kafka). Another program, the update agent,
turns tasks into pull requests. When an update pull request has merged, the
watcher completes its task. Between cycles it remembers what it filed in a
*cursor*, a JSON file on a volume.

The code is a sequential program; what makes it hard is that the world does not
stand still while it runs. HEAD moves between two reads of one repository, the
agent opens a pull request between the check for one and the publish, a command
is out before the file says so, calls fail half way through a cycle, and the
memory of one cycle is judged by another, many releases later.

## Inventory

| component | code | state | operations | talks to |
|---|---|---|---|---|
| poll cycle | `pkg/watcher.go` | the in-memory cursor, the target release, the listing | `Poll`, `processRepos`, `gatherCandidate`, `openUpdatePRGate`, `emissionInFlight`, `markPublished`, `completeMergedUpdates`, `completeTask` | everything below |
| filter chain | `pkg/filter`, `pkg/candidate.go`, `pkg/cursorreader.go`, order in `pkg/factory` | none | `Skip` | reads the in-memory cursor |
| cursor | `pkg/cursor.go` | the file, its `.tmp`, its `.corrupt` | `LoadCursor`, `SaveCursor` | loaded at the start of a cycle, saved at its end |
| task identity and publishing | `pkg/taskid.go`, `pkg/taskbuilder.go`, `pkg/taskpublisher.go` | none | `DeriveTaskID`, `PublishCreate`, `PublishDecision` | Kafka, the controller behind it |
| GitHub client | `pkg/githubclient.go`, `pkg/non2xx_log.go` under it | none between two calls; within one the page, the slice, the loop | listing, HEAD, `go.mod`, `.maintainer.yaml`, open and merged pull requests | GitHub |
| Go release lookup | `pkg/godevclient.go` | none | `LatestStable` | go.dev |
| versions, go.mod, consent | `pkg/version.go`, `pkg/gomod.go`, `pkg/filter/consent.go` | none | parsing, `Less`, `ParseConsent` | |
| cycle gate, poll loop, trigger | `pkg/cyclegate.go`, `main.go`, `pkg/handler/trigger_handler.go` | the slot; goroutines | `TryAcquire`, `Release`, the loop, `POST /trigger` | start `Poll` |
| the rest | auth, metrics, test endpoints, wiring | none that decides anything | | |

What makes each one correct:

* poll cycle: no second task for a release while the first one's claim lives; no
  task beside an open update pull request that the first page shows; tasks,
  completions and consent questions only where they are deserved; completions
  once, and one merge completes one task; a repository that stays behind is not
  forgotten.
* filter chain: order and three-valued consent, seen through the cycle's properties.
* cursor: a save takes effect in whole or not at all; a corrupt file heals.
* clients: an answer says something true of the world it was read from, whatever
  moved, failed or was cut short meanwhile: a listing loses and repeats no more
  than moved, no is never a loop broken off, a 404 is never an owner's answer,
  the target is the newest stable release.
* gate: one cycle at a time, a slot that never stays taken, no `Release` that
  frees the slot of somebody else.

`PROJECT.json` lists the hazards with the line each bites at.

## Modules

| module | what it is |
|---|---|
| `World` | what the watcher talks to: commits, releases, pull requests, the agent, the controller, the clock. Not code of this repository: it says what the code relies on |
| `FilterChain` | the filters as pure operators, and their order |
| `Watcher` | `Poll`, EXTENDS `World` and `FilterChain`; one action per remote call, with everything the code does locally before the next one |
| `MCWatcher` | sets of commits and listings the configurations choose from |
| `TaskLedger` | abstract: the create and complete commands as the controller may rely on them; `Watcher` implements it |
| `Cycle` | abstract: cycles run one at a time |
| `CycleGate` | the slot, the poll loop, the trigger requests; implements `Cycle` |
| `CursorFile` | abstract: the persisted cursor as one value |
| `CursorStore` | `LoadCursor` and `SaveCursor` file operation by file operation; implements `CursorFile` |
| `ApiCall` | one call to GitHub or go.dev: what runs, what it answered, whether its context is done |
| `RepoListing` | `ListRepos`, page by page over an installation that moves |
| `PullRequests` | `HasOpenUpdatePR`, `GetMergedUpdatePR` and their loops |
| `GoVersion` | version texts, their parsing and `Compare`, as operators beside a definition of the order that does not use the code |
| `ReleaseLookup` | `LatestStable`, entry by entry |
| `RepoFiles` | `GetHeadSHA`, `GetGoMod` with `ParseGoModVersion`, `GetMaintainerConfig` with `ParseConsent` |
| `LoggingTransport` | the transport that peeks at the body of a response for its log line |
| `Upstream` | composes the seven above: any call after any other |
| `MCUpstream` | the installations, feeds, files and texts of its runs |
| `RepoListingProofs`, `UpstreamProofs` | theorems about `Upstream`, the second on top of the first |
| `WatcherProofs`, `WatcherClaimProofs`, `WatcherCompletionProofs`, `WatcherFilingProofs` | theorems about `Watcher`, each module on top of the one before |
| `CycleGateProofs`, `CursorStoreProofs` | theorems about the other two |

`TaskLedger` knows only what can be seen from outside: the tasks filed and
completed, the release a live claim on a repository is for, the completed tasks
that count as settled, and how often something failed. A claim ends by the world
or by a fault, a task is unsettled by a fault only, and the watcher has no step
of its own that does either. `LiveClaim` and `completed \ forgot` are the
refinement mapping.

`Watcher` takes two things for granted that other modules show. Its variable
`pc` is one program counter because cycles do not overlap: `CycleGate`
implements `Cycle`. Its variable `disk` is one value because the file behaves
like one: `CursorStore` implements `CursorFile`. The file's `Save` is the
watcher's `SaveCursor`, its `Damage` `LoseCursor`, and its `Abandon` every end of a
cycle without a save: `SaveFails`, `Crash`, and the returns of `AbortEarly` and
`RateLimited`, which are `WorkFails` in `CursorStore`.

### How Watcher corresponds to the code

* A repository is the sequence of commits of its default branch, a commit is
  what its `go.mod` and its `.maintainer.yaml` say, a head SHA is a position in
  the sequence. Releases are numbered in the order of `Version.Less`. A task is
  the triple `DeriveTaskID` hashes, so two commands for one triple are one task,
  as they are for the controller.
* `pc` is the next call of the cycle: `latest_stable`, `list_repos`; then per
  repository `head_sha`, `go_mod`, `maintainer_config`, `open_update_pr`,
  `decide`; then `merged` per repository; then `save`. The environment may take
  any number of steps between two of them. `decide` is the claim check, the
  filter chain and the publish: the code makes no other call between them.
* `mem[r]` is the cursor entry of `r` in memory and `disk[r]` the one in the file,
  with the five fields of `RepoState`. `ClearInFlight`, `Published`,
  `EmissionInFlight` and `RecordedTask` are the code's helpers of those names
  (`markPublished`, `completeTask` for the last but one and the last).
* The updates of a repository are in `open` and `merged`; those in `buried` are
  open or merged but not on the first page of their listing, because a hundred newer
  pull requests are in front of them. `HasOpenUpdatePR` and `GetMergedUpdatePR`
  answer from what is on the page; `OpenUpdatePR` and `MergedUpdatePR` are the
  truth they are measured by. Only the repositories in `Crowded` are that busy.
  A branch is named by the first seven characters of a commit, `ShortSHA`, and
  `SameBranch` compares no more than that.
* A pull request may be merged into another branch than the default one, in the
  repositories in `Retargeted`: the update counts as merged and HEAD stays where
  it is, as the code looks at the head branch of a closed pull request only.
* A failing call has an action of its own for each of its consequences:
  `AbortEarly` (nothing changed yet), `DropRepo` (this repository waits),
  `RateLimited` (the cycle ends, *unsaved*), `MergedRateLimited` (it ends,
  *saved*), `PublishFails` and `CompleteFails` (sent or not, the watcher cannot
  know), `SaveFails`, `Crash`, `Cancelled`, `LoseCursor`.
* `emitted`, `evidence`, `forgot` and `shielded` are history: no action reads
  them. `evidence[r]` is what has happened since the last create command for `r`
  that ends its claim: an open pull request, convergence, or the loss of the
  claim by the cursor. `forgot` are the completed tasks whose marker the cursor has
  lost since their last completion.

### How Upstream corresponds to the code

`World` and `Watcher` take the answers of the clients as given; `Upstream` looks
at how they come about, at the scale of pages, lines and bytes, where a model of
the cycle would have too many states. Its properties are what `World` relies on:
`OpenUpdatePRSeen` and `MergedUpdatePRSeen` are the answers `World` gives, the page and
the shared short name included. Where they say less than `World` assumes, the
difference is in *Not modelled*.

* `op` is the call that runs. A cycle makes one at a time, so one variable will
  do; the clients keep nothing between calls, so the variables of a call go back
  to their initial values when it returns and the caller's `TakeAnswer` clears
  the answer. A call may start from any installation, feed or file the
  configuration lists: what happens between two calls needs no step.
* `Cancel` may fall between any two steps. The code looks at the context before
  each page and before each pull request, and a request under a context that is
  done fails; it is never taken for a rate limit.
* A listing is `page` (pages read), `nextPage` (`opts.Page`) and `times`, how often
  each repository is in the slice. Repositories join, leave, get archived and
  unarchived between two pages (`InstallationStep`). GitHub numbers pages by
  position; the link to the next one is taken from a response that may carry any
  number (`Links`), and the properties about content speak of listings whose
  links were right.
* `requests` are the pull requests when they were listed, newest first; `prs`
  the positions on the answered page that the loop has still to look at. Branches are compared
  by the first seven characters of their commit (`ShortSHA`), which two commits
  may share.
* A text is what the two patterns tell apart: prefix, digit groups, and whether
  there is anything else. Groups are unbounded, `int` ends at `MaxInt`: `Atoi`
  refuses what is larger and `Compare` subtracts with wrap-around (`Wrapped`).
* A go.mod is its lines by their first two fields, a consent file what the YAML
  decoder makes of it. Sizes are checked twice, as in the code: the one GitHub
  reports and the decoded one.
* The call `request` is one HTTP request taken by itself. `source` is what the
  connection still holds, `peeked` what the peek has taken from it and the client
  has not, `rest` what the body handed on has behind that.
* `steady`, `left`, `joined` and `misled` are history.

## The runs

| run | instance | question |
|---|---|---|
| `watcher_repo` | one repository, 2 commits, 2 releases, 3 clock values, TTL 1, 1 fault, merges into another branch | claim and completions, what the cursor file says, the ledger |
| `watcher_consent` | one repository, every content the filters tell apart, an allowlist, pull requests on and off the first page | are tasks and questions deserved, is none filed beside an open pull request that shows, and is a repository passed over only for a reason |
| `watcher_fleet` | two repositories, one sometimes not listed, two commits that share a branch name | what an abort or a short listing does to the others |
| `watcher_live` | one repository that stays or falls behind, fairness | is anything forgotten for ever |
| `cycle_gate` | the loop and three requests, one restart, fairness | overlap, lost slots |
| `cursor_store` | three cursors, three faults, fairness | atomic saves, corrupt files |
| `upstream` | pages of 2, cap 3, 7 repositories with 2 movements, 3 pull requests, 3 commits of which two share a name, feeds of up to 3 entries, go.mod files of up to 2 lines, every consent file, bodies of up to 4 bytes and a peek of 2, fairness | what an answer of the clients says of the world, and that every call comes to its end |
| `open_pr_page` | the same instance | a statement of a comment that does not hold, see below |
| `watcher_loss`, `watcher_stale`, `watcher_overwrite`, `watcher_twin` | small instances | statements of the documents that do not hold, see below |

Why the bounds are enough to be interesting: a second task takes one commit or
one release after the first emission, so two commits and two releases give both;
a claim with TTL 1 is live at ages 0 and 1 and expired at 2, hence three clock
values; one fault loses a claim or an acknowledgement; two repositories are needed
for an abort at the second to cost the first something. A merge that leaves HEAD
where it is and a second release give one commit two tasks, which is what it takes
for the completion marker to matter after a new entry is published: without such
merges a commit is no longer HEAD once its task is completed. A pull request that leaves the page
and comes back has the gate answer yes, no and yes again while it is open.
In `watcher_consent` the allowlist holds every repository and the clock stands
still, so the clauses on scope and on the TTL in `FiledJustified`,
`DecisionJustified` and `PassedOverForAReason` are not exercised there; that they
hold is shown by the theorems, for every `Allowlist` and every `MaxTime`.
In `upstream` the installations start at one page, exactly two pages and two and a
half, and may grow to the cap or past it, so a listing ends at, below and above
the cap and a border is crossed in both directions; three pull requests are one
more than a page; the version texts differ in each position, with and without a
patch, and have groups at and above `MaxInt`; a body is shorter than,
as long as and longer than the peek.
Every property of a passing run has a mutant in `PROJECT.json`, a plausible bug
of the code that makes TLC find it violated on the same instance: a claim that
expires a tick early, the gate or the marker left out, the save missing on the
rate-limited path, filters in the wrong order, consent read as two-valued, a
`Release` too many or too few, a publish that failed recorded all the same, a
claim cleared by the gate whatever it finds, the cursor written in place, a page
that replaces the slice, a listing that starts over when a page fails, a cap off by one, a loop that answers no when it is broken off, a
patch that outranks the minor version, an error swallowed by the peek. The bounds on faults,
commits, releases, time and restarts are guards, not state constraints, so the
liveness runs see complete behaviours.

Fairness. `Watcher!FairSpec` is weak fairness of starting an unforced cycle and of
the cycle's successful steps: the poll loop ticks, and every call returns. The
go.dev client has a timeout of 30 seconds (`factory.go:40`); the HTTP client
under the GitHub calls comes from the library `githubapp`, whose timeout cannot
be seen from this repository, so that a request to GitHub is answered or fails
is an assumption. `Upstream!FairSpec` is that same assumption, weak fairness of
the clients' steps; given that, `CallsReturn` shows that no call goes on for
ever, a listing whose links lead in a circle included. What it needs besides
fairness is `CallsAdvance`, which is proved.
Faults are bounded, so they stop; nothing is assumed of the environment, and
forced cycles need not happen. `CycleGate!FairSpec` is weak fairness of each
goroutine's own steps, of the ticker, and of restarting a process whose loop has
stopped. `CursorStore!FairSpec` is weak fairness of file operations that succeed.
The liveness properties are stated for conditions that hold from some point on
(`<>[]`): with the world free to change its mind nothing else can be promised.
`CyclesKeepComing` has one exception, and it is real: requests whose start fails
again and again may hold the slot whenever the loop asks for it.

## What the documents say and the code does not do

Five runs end in a violation, each of a statement in a document or a comment.

* `watcher_loss`: a create command is published before its claim is saved. When
  the claim is lost (crash, failed save, or the rate-limited abort, which does
  not save) and a commit lands, the repository is filed for again under another
  identifier. `docs/dod.md:32` names three events that clear a claim, and spec 005
  says a lost write is absorbed by an identical identifier.
* `watcher_stale`: after the TTL, or after a pull request closed unmerged, the
  repository is *not* filed for again while HEAD and the release stand still:
  the `sha_unchanged` filter still remembers them. Spec 005 says the next cycle emits.
* `watcher_overwrite`: the cursor has room for one task per repository. A task
  whose pull request merges after a newer one was filed is never completed.
* `watcher_twin`: two tasks filed at one HEAD for two releases share a branch
  name; the merge of one completes the other.
* `open_pr_page`: `HasOpenUpdatePR` reads one page of 100 open pull requests. An
  update pull request behind a full page of newer ones is answered with no, which
  `githubclient.go:106` explains as "no such open PR"; the gate then lets a second
  task through. `OpenUpdatePRSeen` is what does hold of the answer, and
  `NoTaskBesideOpenPR` of the cycle: both speak of an update on the first page.

Smaller ones, without a run of their own. `gomod.go:21` lists a directive
with no value among the errors; the code passes over a line that is only `go` and
takes a later one (`ScanLine`). `consent.go` speaks of an error for content that is
"not valid YAML at all"; `goUpdate: yes` is valid YAML and an error too, as it does
not decode into the expected section. `githubclient.go:52` calls the slice of
`ListRepos` the full set; `MissesFew` says how many repositories it may lack.

The safety theorems are stated so that they hold in spite of these: a claim the
cursor lost counts as ended in `NoSecondTask`, a marker it lost as forgotten in
`NoSecondCompletion`, `NoTaskBesideOpenPR` speaks of an update that was open and on
the first page ever since the cycle began, and `RecordedMergeIsCompleted` of a merge
that stays on its page, of the task the file keeps naming, and promises a
completion for a task of that commit.

## What is proved

For all values of the constants that satisfy the named assumptions
(`WorldAssumption`, `WatcherAssumption`, `GateAssumption`, `StoreAssumption`, and
those of the modules `Upstream` composes):

| theorem | property | inductive invariant |
|---|---|---|
| `TypeCorrect` | `TypeOK` | `TypeInv`: types, what each step relies on the ones before to have set, and that every cursor entry names a filed task |
| `ClaimHolds` | `NoSecondTask` | `ClaimsInv` |
| `GateHolds` | `NoTaskBesideOpenPR` | `ShieldInv` |
| `CompletedOnce` | `NoSecondCompletion` | `CompletionInv` |
| `CompletionsJustified` | `CompletedJustified` | `TypeInv` |
| `LedgerKept` | `KeepsLedger`, the refinement of `TaskLedger` | `LedgerInv` |
| `FilingsJustified`, `DecisionsJustified` | `FiledJustified`, `DecisionJustified` | `JustifiedInv` |
| `CursorIsTruthful`, `PassedOverJustified` | `CursorTruthful`, `PassedOverForAReason` | `TruthInv` |
| `SlotHeld`, `OneAtATime` | `SlotIsHeld`, the refinement of `Cycle` | `GateInv` |
| `SaveIsAtomic`, `StoreTypeCorrect` | the refinement of `CursorFile`, types | `StoreInv` |
| `MissesFewHolds`, `RepeatsFewHolds`, `CapIsExceededHolds` | `MissesFew`, `RepeatsFew`, `CapIsExceeded` | `ListingInv` |
| `LessIsStrictTotalOrder` | the order of versions | none: about the operator |
| `LatestStableIsNewestHolds` | `LatestStableIsNewest` | `LookupInv` |
| `BehindIsOutdatedHolds`, `ConsentIsOwnersHolds` | `BehindIsOutdated`, `ConsentIsOwners` | `FilesInv` |
| `OpenUpdatePRSeenHolds`, `MergedUpdatePRSeenHolds` | `OpenUpdatePRSeen`, `MergedUpdatePRSeen` | `PullsInv` |
| `BodyIsKeptHolds` | `BodyIsKept` | `BodyInv` |
| `CallsAdvanceHolds` | `CallsAdvance` | all of these with `Unanswered` |
| `UpstreamTypes` | `TypeOK` of `Upstream` | `ListingInv`, `LookupInv` and `FilesInv` with `CallTypes` |

None of the properties is inductive as it stands.

* *Claims.* While nothing has ended a claim, the cursor the next decision goes by
  says exactly what was last emitted (`ClaimInv`). To keep that, a cycle may
  never clear a live claim. It clears one on what it read earlier, so the proof
  needs that whatever in the world ends a claim is on record (`EvidenceInv`), that
  a candidate read as converged is matched by such a record (`ConvergedInv`), and
  that until the first repository memory and file agree (`FreshInv`).
* *Gate.* A repository whose update was open and on the first page ever since the
  cycle began cannot be the one at `decide` (`ShieldInv`).
* *Completions.* HEAD only moves on, an entry names a HEAD that was read, its
  marker is not ahead of it, and a completed task the cursor has not lost is
  covered by the marker (`Ordered`, `CandidateOrdered`, `MarkerInv`): then a
  marker that differs from the entry's HEAD is behind it, and the task to complete
  is of a commit none of whose tasks has been completed and is remembered.
* *Filings.* The three reads of a candidate come in order and commits do not
  change, so each read saw the commit of the one before or a later one (`GatheredInv`).
* *Ledger.* Every step of `Watcher` is one of the ledger or changes nothing it
  knows. A publish is a `Create` because the claim on the release has ended
  (`NoLiveClaim`, from the invariant of `ClaimHolds`); the new claim may be over as
  it is made, if the update has landed since the candidate was read. A completion
  is a `Complete` because a marker behind the entry's HEAD means that the task is
  not settled (`NotSettled`). The cycle's other steps are silent, and a claim the
  world has ended does not come back (`ClaimsOnlyEnd`).
* *What the cursor says.* An entry's claim is for its own release, which is not
  newer than that of the last emission, and if it is the same one not made later
  (`EntryTrue`). That holds of the file as of memory, so loading, saving or losing
  either keeps it. Emissions never go back to an older release (`EmissionInv`), so
  a stale entry brought back by a lost save claims no more than was emitted. Hence
  a repository passed over for its claim has had a command within the TTL, and one
  passed over by the dedup keys was filed for.
* *Gate and file.* The slot says who may be past `TryAcquire`, so the only caller
  of `Release` is the holder (`SlotIsHeld`); the `.tmp` about to be renamed holds
  the cycle's cursor (`StepInv`).

* *Listing.* The installation is split at `Offset`, the last position read. A
  steady repository the pages before have missed is not `Ahead` of it (`Passed`),
  and one that is ahead and has been read will be read again (`Again`). A
  departure in front of the border pulls one repository back over it and an
  addition pushes one out; each changes one of the two sets by at most one
  element, a page by none. The last page leaves nothing ahead, so what was missed
  is `Passed` and what is repeated is in `Again`.
* *Lookup and files.* The sign of `Compare` is the lexicographic order of the
  numbers although the subtraction wraps, because the components are not
  negative (`LessIsPrecedes`); the newest entry so far (`NewestSoFar`) and
  "no line scanned decides" (`ScanInv`) are the loop invariants.
* *Pull requests.* The page is described by positions. Those the loop is done with
  do not decide the answer (`PullsInv`), and what is not on the page has a full
  page of newer ones before it (`BeyondFirstPage`).
* *Calls.* `Remaining` is a pair: the stages before the last loop of a call, and
  what that loop has still to go. Each step of a client lowers it lexicographically
  or returns, and nothing from outside changes it: the cap on pages bounds a
  listing whatever its links say, a finite page loses a pull request, and the bytes
  peeked at are taken from the source once.
* *Body.* What the client has read, what is peeked and the source make up the body,
  and the error is behind it exactly if the transport has met it
  (`BodyInv`).

Model-checked only: the liveness properties (`BehindIsFiled`, `EndedClaimIsRenewed`,
`UndecidedIsAsked`, `RecordedMergeIsCompleted`, `SlotIsFreed`, `CyclesKeepComing`,
`CorruptionHeals`, `CallsReturn`), as the prover has no rule for fairness that
serves here, and the five violations. Every invariant and every action property of
a passing run is proved, and so are the three refinements.

## Not modelled

* Authentication, metrics, the wording of the HTTP log, the test endpoints and
  start-up: they decide nothing about tasks.
* The text of tasks, titles, frontmatter, log lines and HTTP answers.
* `run.BackgroundRunner`, a library: it is taken to either report an error and
  not start the function, or to call it once. If it could accept a function and
  not call it, the slot would stay taken; that is outside this repository.
* A machine that loses what was not flushed: `SaveCursor` does not sync, and
  `CursorStore` has only the process die.
* An `in_flight_since` that does not parse (counts as expired) and entries from
  before a field existed: the file is only written by this version.
* The environment does what `World` allows it: head SHAs are never reused (no
  force push back to an older commit), releases are not withdrawn.
* Where `World` is more exact than the clients: in the runs it lists a repository
  once or not at all (one that `RepeatsFew` lets appear twice is processed twice in
  one cycle, the second time with the claim the first one set; the theorems about
  `Watcher` hold for any `Listings`, repetitions included). It reads a repository
  that became unreachable as one whose call failed; the code reads the 404 as a
  missing file, which the filters skip or, for the consent file, ask about.
* The YAML and JSON decoders, go-github and `net/http`: what they return is an
  input of the model. That an error of a connection could be given a second time
  is not relied on (`ReadEnds`).

## What is left

All components that decide something are modelled. What would come next:

1. The listings of `World` replaced by those `Upstream` allows (a repository listed
   twice), so that the runs exercise what the theorems already cover.
2. The bounds the model adds (`MaxSHA`, `MaxGo`, `MaxMoves`) out of the theorems where
   the argument does not need them.

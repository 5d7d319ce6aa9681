------------------------------ MODULE ApiCall ------------------------------
(***************************************************************************)
(* The calls a cycle makes to GitHub and to go.dev, taken from the side of *)
(* the client that answers them.  A cycle makes one at a time.  The        *)
(* clients keep nothing between two calls, so the variables of a call mean *)
(* something while it runs, and only its answer outlives it until the      *)
(* cycle has looked at it.                                                 *)
(***************************************************************************)
EXTENDS Integers, Sequences

CONSTANTS
  PageSize  \* entries on a page of a GitHub listing

ASSUME ApiCallAssumption == PageSize \in Nat \ {0}

VARIABLES
  op,         \* the call that runs, "none" between calls
  answer,     \* what the last call returned
  cancelled   \* the context the calls run under is done

callVars == <<op, answer, cancelled>>

Op ==
  {"list_repos", "head_sha", "go_mod", "maintainer_config",
   "open_update_pr", "merged_update_pr", "latest_stable", "request"}

NoAnswer    == [kind |-> "none"]
Failed      == [kind |-> "failed"]
RateLimited == [kind |-> "rate_limited"]

\* wrapRateLimitErr and isRateLimitError: what a request that is answered by
\* an error turns into.  With its context done a request cannot be limited.
RequestErrors == {Failed} \cup IF cancelled THEN {} ELSE {RateLimited}

CallInit ==
  /\ op = "none"
  /\ answer = NoAnswer
  /\ cancelled = FALSE

Begin(o) ==
  /\ op = "none"
  /\ answer = NoAnswer
  /\ op' = o
  /\ UNCHANGED <<answer, cancelled>>

Return(a) ==
  /\ op' = "none"
  /\ answer' = a
  /\ UNCHANGED cancelled

\* The cycle looks at the answer before it makes its next call.
TakeAnswer ==
  /\ answer # NoAnswer
  /\ answer' = NoAnswer
  /\ UNCHANGED <<op, cancelled>>

\* The process is told to stop.
Cancel ==
  /\ ~cancelled
  /\ cancelled' = TRUE
  /\ UNCHANGED <<op, answer>>

=============================================================================

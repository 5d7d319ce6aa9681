------------------------------- MODULE Cycle -------------------------------
(***************************************************************************)
(* What the rest of the watcher may take for granted about poll cycles:    *)
(* one runs at a time (the promise of pkg/cyclegate.go:9, relied on by     *)
(* pkg/cursor.go:23).                                                      *)
(***************************************************************************)
CONSTANT Starter     \* whoever may start a cycle

VARIABLE running     \* the starters whose call of Poll has not returned

Init == running = {}

Begin(s) ==
  /\ running = {}
  /\ running' = {s}

\* The cycle returns, or dies with its process.
End ==
  /\ running # {}
  /\ running' = {}

Next == (\E s \in Starter : Begin(s)) \/ End

Spec == Init /\ [][Next]_running

=============================================================================

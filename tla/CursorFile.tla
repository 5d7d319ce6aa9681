----------------------------- MODULE CursorFile -----------------------------
(***************************************************************************)
(* What module Watcher takes the persisted cursor for: one value that a    *)
(* cycle reads at its start and replaces, in whole or not at all, at its   *)
(* end.  Only damage from outside ever empties it.                         *)
(***************************************************************************)
EXTENDS Naturals

CONSTANTS
  Value,    \* the cursors
  Empty,    \* the cursor of a cold start
  NoCycle   \* no cycle is running

VARIABLES
  content,  \* the persisted cursor
  memory,   \* the cursor of the running cycle
  damages   \* how often the file has been damaged from outside

vars == <<content, memory, damages>>

Init ==
  /\ content = Empty
  /\ memory = NoCycle
  /\ damages = 0

Load ==
  /\ memory = NoCycle
  /\ memory' = content
  /\ UNCHANGED <<content, damages>>

Work ==
  /\ memory # NoCycle
  /\ memory' \in Value
  /\ UNCHANGED <<content, damages>>

Save ==
  /\ memory # NoCycle
  /\ content' = memory
  /\ memory' = NoCycle
  /\ UNCHANGED damages

\* The cycle ends without a save that took effect.
Abandon ==
  /\ memory # NoCycle
  /\ memory' = NoCycle
  /\ UNCHANGED <<content, damages>>

Damage ==
  /\ content' = Empty
  /\ damages' = damages + 1
  /\ UNCHANGED memory

Next == Load \/ Work \/ Save \/ Abandon \/ Damage

Spec == Init /\ [][Next]_vars

=============================================================================

---------------------------- MODULE CursorStore ----------------------------
(***************************************************************************)
(* LoadCursor and SaveCursor (pkg/cursor.go) on the files they work with:  *)
(* the cursor, its .tmp and its .corrupt.  Each file operation is a step,  *)
(* may fail, and the process may die between any two of them.  The files   *)
(* are the kernel's: what a process has written survives it.  A machine    *)
(* that loses what it has not flushed is not part of the model.            *)
(*                                                                         *)
(* What the cycle does to the cursor in between is module Watcher; here it *)
(* turns it into any other.                                                *)
(***************************************************************************)
EXTENDS Naturals

CONSTANTS
  Value,     \* the cursors
  Empty,     \* the cursor of a cold start
  NoCycle,   \* no cycle is running
  Missing,   \* no such file
  Torn,      \* a file whose content is not a cursor
  MaxFaults  \* bound: failing operations, crashes, damage from outside

ASSUME StoreAssumption ==
  /\ Empty \in Value
  /\ NoCycle \notin Value
  /\ Missing \notin Value
  /\ Torn \notin Value
  /\ Missing # Torn
  /\ MaxFaults \in Nat

File == Value \cup {Missing, Torn}

VARIABLES
  file,     \* the cursor file
  tmp,      \* <path>.tmp
  corrupt,  \* <path>.corrupt
  pc,       \* the next operation of the cycle
  memory,   \* the cursor of the running cycle
  faults,   \* failing operations, crashes and damage so far
  damages   \* damage from outside so far

vars == <<file, tmp, corrupt, pc, memory, faults, damages>>

Step == {"read", "preserve", "work", "open", "write", "rename", "remove"}

Init ==
  /\ file = Missing
  /\ tmp = Missing
  /\ corrupt = Missing
  /\ pc = "read"
  /\ memory = NoCycle
  /\ faults = 0
  /\ damages = 0

Fault ==
  /\ faults < MaxFaults
  /\ faults' = faults + 1

\* The next cycle will read the file again.
Ends == pc' = "read" /\ memory' = NoCycle

-----------------------------------------------------------------------------
(* LoadCursor *)

LoadMissing ==
  /\ pc = "read"
  /\ file = Missing
  /\ memory' = Empty
  /\ pc' = "work"
  /\ UNCHANGED <<file, tmp, corrupt, faults, damages>>

LoadReads ==
  /\ pc = "read"
  /\ file \in Value
  /\ memory' = file
  /\ pc' = "work"
  /\ UNCHANGED <<file, tmp, corrupt, faults, damages>>

\* Mutant: a corrupt file ends the cycle with an error.
LoadCorruptFails ==
  /\ pc = "read"
  /\ file = Torn
  /\ UNCHANGED vars

LoadCorrupt ==
  /\ pc = "read"
  /\ file = Torn
  /\ pc' = "preserve"
  /\ UNCHANGED <<file, tmp, corrupt, memory, faults, damages>>

\* The file cannot be read: the cycle ends with an error.
LoadFails ==
  /\ pc = "read"
  /\ Fault
  /\ UNCHANGED <<file, tmp, corrupt, pc, memory, damages>>

\* The bad file is kept aside, and the cycle starts cold.
Preserve ==
  /\ pc = "preserve"
  /\ file # Missing
  /\ corrupt' = file
  /\ file' = Missing
  /\ memory' = Empty
  /\ pc' = "work"
  /\ UNCHANGED <<tmp, faults, damages>>

\* Keeping it aside fails, which is only logged.
PreserveFails ==
  /\ pc = "preserve"
  /\ \/ file = Missing /\ UNCHANGED faults
     \/ Fault
  /\ memory' = Empty
  /\ pc' = "work"
  /\ UNCHANGED <<file, tmp, corrupt, damages>>

\* The cycle's calls, as far as they change the cursor to be saved.
Work ==
  /\ pc = "work"
  /\ memory' \in Value
  /\ pc' = "open"
  /\ UNCHANGED <<file, tmp, corrupt, faults, damages>>

\* The release lookup or the listing fails, or a call is rate limited: Poll
\* returns without a save.
WorkFails ==
  /\ pc = "work"
  /\ Fault
  /\ Ends
  /\ UNCHANGED <<file, tmp, corrupt, damages>>

-----------------------------------------------------------------------------
(* SaveCursor *)

\* Mutant: the cursor file itself is truncated and written.
OpenInPlace ==
  /\ pc = "open"
  /\ file' = Torn
  /\ pc' = "write"
  /\ UNCHANGED <<tmp, corrupt, memory, faults, damages>>

\* os.WriteFile truncates what an earlier save may have left in the .tmp.
OpenTmp ==
  /\ pc = "open"
  /\ tmp' = Torn
  /\ pc' = "write"
  /\ UNCHANGED <<file, corrupt, memory, faults, damages>>

WriteTmp ==
  /\ pc = "write"
  /\ tmp' = memory
  /\ pc' = "rename"
  /\ UNCHANGED <<file, corrupt, memory, faults, damages>>

\* os.WriteFile fails to open or to write: the .tmp stays as it is.
WriteFails ==
  /\ pc \in {"open", "write"}
  /\ Fault
  /\ Ends
  /\ UNCHANGED <<file, tmp, corrupt, damages>>

RenameTmp ==
  /\ pc = "rename"
  /\ file' = tmp
  /\ tmp' = Missing
  /\ Ends
  /\ UNCHANGED <<corrupt, faults, damages>>

RenameFails ==
  /\ pc = "rename"
  /\ Fault
  /\ pc' = "remove"
  /\ UNCHANGED <<file, tmp, corrupt, memory, damages>>

\* The error of os.Remove is ignored.
RemoveTmp ==
  /\ pc = "remove"
  /\ \/ tmp' = Missing /\ UNCHANGED faults
     \/ Fault /\ UNCHANGED tmp
  /\ Ends
  /\ UNCHANGED <<file, corrupt, damages>>

-----------------------------------------------------------------------------

\* The process dies and is started again.
Crash ==
  /\ pc # "read"
  /\ Fault
  /\ Ends
  /\ UNCHANGED <<file, tmp, corrupt, damages>>

\* Somebody removes the file, or a fault of the volume garbles it.
Damage ==
  /\ Fault
  /\ file' \in {Missing, Torn}
  /\ damages' = damages + 1
  /\ UNCHANGED <<tmp, corrupt, pc, memory>>

Progress ==
  \/ LoadMissing \/ LoadReads \/ LoadCorrupt \/ Preserve \/ PreserveFails
  \/ Work \/ OpenTmp \/ WriteTmp \/ RenameTmp \/ RemoveTmp

Next ==
  \/ Progress
  \/ LoadFails \/ WorkFails \/ WriteFails \/ RenameFails \/ Crash \/ Damage

Spec == Init /\ [][Next]_vars

\* The poll loop starts cycle after cycle, and file operations return.
FairSpec == Spec /\ WF_vars(Progress)

-----------------------------------------------------------------------------
(* Properties *)

TypeOK ==
  /\ file \in File /\ tmp \in File /\ corrupt \in File
  /\ pc \in Step
  /\ memory \in Value \cup {NoCycle}
  /\ faults \in 0..MaxFaults
  /\ damages \in Nat

\* What the next cycle will start from.
Content == IF file \in Value THEN file ELSE Empty

\* A save replaces the cursor in whole or not at all, whatever fails and
\* wherever the process dies, and nothing but damage from outside makes the
\* next cycle start cold (pkg/cursor.go:106-108).
AsCursorFile == INSTANCE CursorFile WITH content <- Content
ImplementsCursorFile == AsCursorFile!Spec

\* A file that is not a cursor does not wedge the watcher: a cycle ends up
\* replacing it, whether or not it could be kept aside (pkg/cursor.go:86-92).
CorruptionHeals == file = Torn ~> file \in Value

=============================================================================

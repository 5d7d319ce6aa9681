------------------------- MODULE CursorStoreProofs -------------------------
(***************************************************************************)
(* CursorStore implements CursorFile for every set of cursors.  A step of  *)
(* the store changes what the next cycle will start from only when it      *)
(* renames a .tmp that holds exactly the cycle's cursor, or is damage.     *)
(***************************************************************************)
EXTENDS CursorStore, TLAPS

\* Which step knows what: a cycle has a cursor from the load on, the .tmp
\* about to be renamed holds it, and what is kept aside is not a cursor.
StepInv ==
  /\ memory = NoCycle <=> pc \in {"read", "preserve"}
  /\ pc = "rename" => tmp = memory
  /\ pc = "preserve" => file \notin Value

StoreInv == TypeOK /\ StepInv

\* Before the first cycle there are no files.
LEMMA StoreInit == Init => StoreInv
  BY StoreAssumption DEF Init, StoreInv, TypeOK, StepInv, File, Step

\* Faults are bounded.
LEMMA FaultBound ==
  ASSUME faults \in 0..MaxFaults, Fault
  PROVE  faults' \in 0..MaxFaults
  BY StoreAssumption DEF Fault

\* Loading a cursor starts a cycle with one.
LEMMA LoadStep ==
  ASSUME StoreInv,
         LoadMissing \/ LoadReads \/ LoadCorrupt \/ LoadFails \/ Preserve \/ PreserveFails
  PROVE  StoreInv'
<1> USE StoreAssumption DEF StoreInv, TypeOK, StepInv, File, Step
<1>1. CASE LoadMissing
  BY <1>1 DEF LoadMissing
<1>2. CASE LoadReads
  BY <1>2 DEF LoadReads
<1>3. CASE LoadCorrupt
  BY <1>3 DEF LoadCorrupt
<1>4. CASE LoadFails
  BY <1>4, FaultBound DEF LoadFails
<1>5. CASE Preserve
  BY <1>5 DEF Preserve
<1>6. CASE PreserveFails
  <2>1. faults' \in 0..MaxFaults
    BY <1>6, FaultBound DEF PreserveFails
  <2> QED BY <1>6, <2>1 DEF PreserveFails
<1> QED BY <1>1, <1>2, <1>3, <1>4, <1>5, <1>6

\* Saving a cursor ends the cycle, with the cursor in the .tmp on the way.
LEMMA SaveStep ==
  ASSUME StoreInv,
         \/ Work \/ WorkFails \/ OpenTmp \/ WriteTmp \/ WriteFails
         \/ RenameTmp \/ RenameFails \/ RemoveTmp
  PROVE  StoreInv'
<1> USE StoreAssumption DEF StoreInv, TypeOK, StepInv, File, Step, Ends
<1>1. CASE Work
  BY <1>1 DEF Work
<1>2. CASE OpenTmp
  BY <1>2 DEF OpenTmp
<1>3. CASE WriteTmp
  BY <1>3 DEF WriteTmp
<1>4. CASE WorkFails \/ WriteFails
  BY <1>4, FaultBound DEF WorkFails, WriteFails
<1>5. CASE RenameTmp
  BY <1>5 DEF RenameTmp
<1>6. CASE RenameFails
  BY <1>6, FaultBound DEF RenameFails
<1>7. CASE RemoveTmp
  <2>1. faults' \in 0..MaxFaults
    BY <1>7, FaultBound DEF RemoveTmp
  <2> QED BY <1>7, <2>1 DEF RemoveTmp
<1> QED BY <1>1, <1>2, <1>3, <1>4, <1>5, <1>6, <1>7

\* Every step keeps the invariant.
LEMMA StoreStep == StoreInv /\ [Next]_vars => StoreInv'
<1> SUFFICES ASSUME StoreInv, [Next]_vars PROVE StoreInv'
  OBVIOUS
<1>1. CASE Crash
  BY <1>1, StoreAssumption, FaultBound
     DEF Crash, Ends, StoreInv, TypeOK, StepInv, File, Step
<1>2. CASE Damage
  BY <1>2, StoreAssumption, FaultBound
     DEF Damage, StoreInv, TypeOK, StepInv, File, Step
<1>3. CASE UNCHANGED vars
  BY <1>3 DEF vars, StoreInv, TypeOK, StepInv
<1> QED BY <1>1, <1>2, <1>3, LoadStep, SaveStep DEF Next, Progress

\* The files are always in a state a cycle can start from or go on with.
THEOREM StoreTypeCorrect == Spec => []TypeOK
<1>1. StoreInv => TypeOK
  BY DEF StoreInv
<1> QED BY <1>1, StoreInit, StoreStep, PTL DEF Spec

-----------------------------------------------------------------------------

\* A step of the store is a step of the register, or none.
LEMMA StoreSimulates ==
  ASSUME StoreInv, [Next]_vars
  PROVE  [AsCursorFile!Next]_(AsCursorFile!vars)
<1> USE StoreAssumption DEF AsCursorFile!Next, AsCursorFile!vars, Content
<1>1. CASE LoadMissing \/ LoadReads
  BY <1>1 DEF LoadMissing, LoadReads, AsCursorFile!Load, StoreInv, StepInv
<1>2. CASE Preserve \/ PreserveFails
  BY <1>2 DEF Preserve, PreserveFails, AsCursorFile!Load, StoreInv, StepInv
<1>3. CASE Work
  BY <1>3 DEF Work, AsCursorFile!Work, StoreInv, StepInv
<1>4. CASE RenameTmp
  <2>1. memory \in Value /\ tmp = memory /\ memory # NoCycle
    BY <1>4 DEF RenameTmp, StoreInv, StepInv, TypeOK
  <2> QED BY <1>4, <2>1 DEF RenameTmp, Ends, AsCursorFile!Save
<1>5. CASE WorkFails \/ WriteFails \/ RemoveTmp \/ Crash
  BY <1>5 DEF WorkFails, WriteFails, RemoveTmp, Crash, Ends, AsCursorFile!Abandon, StoreInv, StepInv
<1>6. CASE Damage
  BY <1>6 DEF Damage, AsCursorFile!Damage
<1>7. CASE LoadCorrupt \/ LoadFails \/ OpenTmp \/ WriteTmp \/ RenameFails
  BY <1>7 DEF LoadCorrupt, LoadFails, OpenTmp, WriteTmp, RenameFails
<1>8. CASE UNCHANGED vars
  BY <1>8 DEF vars
<1> QED BY <1>1, <1>2, <1>3, <1>4, <1>5, <1>6, <1>7, <1>8 DEF Next, Progress

\* A save takes effect in whole or not at all.
THEOREM SaveIsAtomic == Spec => ImplementsCursorFile
<1>1. Init => AsCursorFile!Init
  BY StoreAssumption DEF Init, AsCursorFile!Init, Content
<1> QED BY <1>1, StoreInit, StoreStep, StoreSimulates, PTL
        DEF Spec, ImplementsCursorFile, AsCursorFile!Spec

=============================================================================

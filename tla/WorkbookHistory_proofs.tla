----------------------- MODULE WorkbookHistory_proofs -----------------------
(***************************************************************************)
(* Proofs about the synchronization, for every set of runs, keys, tables   *)
(* and snapshots and for all bounds: its types; and a recorded success     *)
(* holds exactly its snapshot and nothing rewrites it, by the inductive    *)
(* invariant IInv.                                                         *)
(***************************************************************************)
EXTENDS WorkbookSafety, FiniteSetTheorems, TLAPS

-----------------------------------------------------------------------------
(* Facts about the constants.                                              *)

\* A position of WriteOrder names a table, and there is a first one.
LEMMA WriteOrderFacts ==
  /\ Len(WriteOrder) \in Nat \ {0}
  /\ \A i \in 1 .. Len(WriteOrder) : WriteOrder[i] \in Tables
  /\ \A t \in Tables : \E i \in 1 .. Len(WriteOrder) : t = WriteOrder[i]
  /\ \A i, j \in 1 .. Len(WriteOrder) : WriteOrder[i] = WriteOrder[j] => i = j
<1>1. Len(WriteOrder) \in Nat
  BY WriteOrderAssumption
<1>2. "observations" \in Tables
  BY WriteOrderAssumption
<1>3. Len(WriteOrder) # 0
  BY <1>1, <1>2 DEF Tables
<1> QED BY <1>1, <1>3, WriteOrderAssumption DEF Tables

\* What a snapshot stores in a table is a finite set of keys.
LEMMA StoredKeys ==
  ASSUME NEW s \in Snapshots \cup {NoSnapshot}, NEW t \in Tables
  PROVE  Stored(s, t) \in SUBSET Keys /\ IsFiniteSet(Stored(s, t))
<1>1. Input(t) \in Inputs
  BY DEF Inputs
<1>2. s.rows \in [Inputs -> SUBSET Keys]
  BY SnapshotsAssumption DEF Snapshot, NoSnapshot
<1>3. Stored(s, t) \in SUBSET Keys
  BY <1>1, <1>2 DEF Stored
<1> QED BY <1>3, KeysAssumption, FS_Subset

\* There are finitely many physical rows.
LEMMA RowFinite == IsFiniteSet(Row)
<1> DEFINE Left == Keys \X Runs
           Right == Runs \X BOOLEAN
           f == [p \in Left \X Right |->
                   [key |-> p[1][1], born |-> p[1][2], run |-> p[2][1], active |-> p[2][2]]]
<1>1. IsFiniteSet(BOOLEAN)
  <2>1. IsFiniteSet({TRUE} \cup {FALSE})
    BY FS_Singleton, FS_AddElement
  <2> QED BY <2>1, BOOLEAN = {TRUE} \cup {FALSE}
<1>2. IsFiniteSet(Left \X Right)
  <2>1. IsFiniteSet(Left) /\ IsFiniteSet(Right)
    BY <1>1, RunsAssumption, KeysAssumption, FS_Product
  <2> QED BY <2>1, FS_Product
<1>3. f \in Surjection(Left \X Right, Row)
  <2>1. f \in [Left \X Right -> Row]
    BY DEF Row
  <2>2. ASSUME NEW x \in Row PROVE \E p \in Left \X Right : f[p] = x
    <3>1. <<<<x.key, x.born>>, <<x.run, x.active>>>> \in Left \X Right
      BY DEF Row
    <3>2. f[<<<<x.key, x.born>>, <<x.run, x.active>>>>] = x
      BY <3>1 DEF Row
    <3> QED BY <3>1, <3>2
  <2> QED BY <2>1, <2>2 DEF Surjection
<1> QED BY <1>2, <1>3, FS_Surjection

\* New rows are rows.
LEMMA NewRowsType ==
  ASSUME NEW s \in Snapshots \cup {NoSnapshot}, NEW r \in Runs, NEW t \in Tables
  PROVE  NewRows(s, r, t) \in SUBSET Row
<1> SUFFICES ASSUME NEW k \in Stored(s, t)
             PROVE  [key |-> k, born |-> r, run |-> r, active |-> TRUE] \in Row
  BY DEF NewRows
<1>1. k \in Keys
  BY StoredKeys
<1> QED BY <1>1 DEF Row

LEMMA BatchesType ==
  ASSUME NEW s \in Snapshots \cup {NoSnapshot}, NEW r \in Runs, NEW e \in ReadResult
  PROVE  Batches(s, e, r) \in [Tables -> SUBSET Row]
<1> SUFFICES ASSUME NEW t \in Tables
             PROVE  NewRows(s, r, t) \cup Inactivated(s, e, t) \in SUBSET Row
  BY DEF Batches
<1>1. Inactivated(s, e, t) \in SUBSET Row
  <2> SUFFICES ASSUME NEW x \in e.sheets[t] PROVE [x EXCEPT !.active = FALSE] \in Row
    BY DEF Inactivated, Active
  <2>1. x \in Row
    BY DEF ReadResult
  <2> QED BY <2>1 DEF Row
<1> QED BY <1>1, NewRowsType

LEMMA UpsertedType ==
  ASSUME NEW rows \in SUBSET Row, NEW items \in SUBSET Row,
         NEW found \in SUBSET [key : Keys, born : Runs], NEW r \in Runs, NEW calls
  PROVE  Upserted(rows, items, found, r, calls) \in SUBSET Row
BY DEF Upserted, Row

\* The terminal records a run writes are terminals.
LEMMA TerminalTypes ==
  ASSUME TypeOK, NEW r \in Runs
  PROVE  SuccessRow(r) \in Terminal /\ FailedRow(r) \in Terminal
<1>1. CountsOf(r) \in Counts
  <2> SUFFICES ASSUME NEW t \in Tables PROVE Cardinality(Active(batch[r][t])) \in Nat
    BY DEF CountsOf, Counts
  <2>1. Active(batch[r][t]) \in SUBSET Row
    BY DEF TypeOK, Active
  <2> QED BY <2>1, RowFinite, FS_Subset, FS_CardinalityType
<1>2. Blank \in Nat \cup {Blank} /\ generation[r] \in Nat /\ stamp[r] \in Nat
  BY BoundsAssumption DEF TypeOK
<1> QED BY <1>1, <1>2 DEF SuccessRow, FailedRow, Terminal, Counts, Prepared

-----------------------------------------------------------------------------
(* Type correctness.                                                       *)

\* Clearing a run's working data keeps the types.
LEMMA ForgetType ==
  ASSUME TypeOK, NEW r \in Runs, Forget(r)
  PROVE  /\ read' \in [Runs -> ReadResult]
         /\ matched' \in [Runs -> SUBSET [key : Keys, born : Runs]]
         /\ at' \in [Runs -> 1 .. Len(WriteOrder)]
         /\ tries' \in [Runs -> 0 .. MaxTries - 1]
<1>1. NothingRead \in ReadResult
  BY BoundsAssumption DEF NothingRead, NoRows, ReadResult
<1> QED BY <1>1, WriteOrderFacts, BoundsAssumption DEF Forget, TypeOK

\* Every step keeps the types.
LEMMA TypeStep == ASSUME TypeOK, [Next]_vars PROVE TypeOK'
<1>a. MaxTries \in Nat /\ tries \in [Runs -> 0 .. MaxTries - 1]
  BY BoundsAssumption DEF TypeOK
<1>b. at \in [Runs -> 1 .. Len(WriteOrder)] /\ pc \in [Runs -> Labels]
  BY DEF TypeOK
<1>c. clock \in Nat /\ stamp \in [Runs -> Nat]
  BY DEF TypeOK
<1>d. read \in [Runs -> ReadResult] /\ sheets \in [Tables -> SUBSET Row]
  BY DEF TypeOK
<1>e. /\ batch \in [Runs -> [Tables -> SUBSET Row]]
      /\ matched \in [Runs -> SUBSET [key : Keys, born : Runs]]
  BY DEF TypeOK
<1>1. ASSUME NEW r \in Runs, Initialize(r) PROVE TypeOK'
  <2>1. pc' \in [Runs -> Labels]
    BY <1>1 DEF TypeOK, Initialize, Goto, Labels, Reading
  <2>2. environment \in 0 .. MaxGeneration
    BY BoundsAssumption DEF TypeOK
  <2>3. generation' \in [Runs -> 0 .. MaxGeneration]
    BY <1>1, <2>2 DEF TypeOK, Initialize
  <2> QED BY <1>1, <2>1, <2>3 DEF TypeOK, Initialize, workbook
<1>2. ASSUME NEW r \in Runs, Fetch(r) PROVE TypeOK'
  <2>1. pc' \in [Runs -> Labels]
    BY <1>2 DEF TypeOK, Fetch, Goto, Labels, Reading
  <2>2. snap' \in [Runs -> Snapshots \cup {NoSnapshot}]
    BY <1>2 DEF TypeOK, Fetch
  <2> QED BY <1>2, <2>1, <2>2 DEF TypeOK, Fetch, workbook
<1>3. ASSUME NEW r \in Runs, ReadControl(r) PROVE TypeOK'
  <2>1. control \in [state : {"ACTIVE", "PAUSED"}, generation : 0 .. MaxGeneration]
    BY DEF TypeOK
  <2>2. read' \in [Runs -> ReadResult]
    BY <1>3, <2>1 DEF TypeOK, ReadControl, ReadResult
  <2>3. pc' \in [Runs -> Labels]
    BY <1>3 DEF TypeOK, ReadControl, Goto, Labels, Reading, Closing, Failing
  <2> QED BY <1>3, <2>2, <2>3 DEF TypeOK, ReadControl, workbook
<1>4. ASSUME NEW r \in Runs, ReadTerminals(r) PROVE TypeOK'
  <2>1. read' \in [Runs -> ReadResult]
    BY <1>4 DEF TypeOK, ReadTerminals, ReadResult
  <2>2. pc' \in [Runs -> Labels]
    BY <1>4 DEF TypeOK, ReadTerminals, Goto, Labels, Reading, Closing, Failing
  <2> QED BY <1>4, <2>1, <2>2 DEF TypeOK, ReadTerminals, workbook
<1>5. ASSUME NEW r \in Runs, ReadTable(r) PROVE TypeOK'
  <2>1. WriteOrder[at[r]] \in Tables
    BY WriteOrderFacts DEF TypeOK
  <2>2. read' \in [Runs -> ReadResult]
    <3>1. [read[r].sheets EXCEPT ![WriteOrder[at[r]]] = sheets[WriteOrder[at[r]]]]
            \in [Tables -> SUBSET Row]
      BY <1>d, <2>1 DEF ReadResult
    <3>2. read' = [read EXCEPT ![r] = [read[r] EXCEPT !.sheets =
              [read[r].sheets EXCEPT ![WriteOrder[at[r]]] = sheets[WriteOrder[at[r]]]]]]
      BY <1>5, <1>d DEF ReadTable
    <3> QED BY <1>d, <3>1, <3>2 DEF ReadResult
  <2>3. pc' \in [Runs -> Labels]
    BY <1>5 DEF TypeOK, ReadTable, Goto, Labels, Reading
  <2>4. at' \in [Runs -> 1 .. Len(WriteOrder)]
    <3>1. Len(WriteOrder) \in Nat \ {0} /\ at[r] \in 1 .. Len(WriteOrder)
      BY <1>b, WriteOrderFacts
    <3>2. CASE at[r] < Len(WriteOrder)
      <4>1. at' = [at EXCEPT ![r] = at[r] + 1]
        BY <1>5, <3>2 DEF ReadTable
      <4>2. at[r] + 1 \in 1 .. Len(WriteOrder)
        BY <3>1, <3>2
      <4> QED BY <1>b, <4>1, <4>2
    <3>3. CASE ~(at[r] < Len(WriteOrder))
      <4>1. at' = [at EXCEPT ![r] = 1]
        BY <1>5, <3>3 DEF ReadTable
      <4>2. 1 \in 1 .. Len(WriteOrder)
        BY <3>1
      <4> QED BY <1>b, <4>1, <4>2
    <3> QED BY <3>2, <3>3
  <2> QED BY <1>5, <2>2, <2>3, <2>4 DEF TypeOK, ReadTable, workbook
<1>6. ASSUME NEW r \in Runs, NodeFails(r) PROVE TypeOK'
  BY <1>6, ForgetType DEF TypeOK, NodeFails, ToFailureBranch, Goto, workbook, Labels, Failing
<1>7. ASSUME NEW r \in Runs, Prepare(r) PROVE TypeOK'
  <2>1. batch' \in [Runs -> [Tables -> SUBSET Row]]
    <3>1. Batches(snap[r], read[r], r) \in [Tables -> SUBSET Row]
      BY BatchesType DEF TypeOK
    <3> QED BY <1>7, <3>1 DEF TypeOK, Prepare
  <2>2. Forget(r)
    BY <1>7 DEF Prepare, ToFailureBranch
  <2>3. pc' \in [Runs -> Labels]
    BY <1>7 DEF TypeOK, Prepare, ToFailureBranch, Goto, Labels, Writing, Failing
  <2> QED BY <1>7, <2>1, <2>2, <2>3, ForgetType DEF TypeOK, Prepare, workbook
<1>8. ASSUME NEW r \in Runs, NextTable(r)
      PROVE  /\ pc' \in [Runs -> Labels]
             /\ at' \in [Runs -> 1 .. Len(WriteOrder)]
             /\ tries' \in [Runs -> 0 .. MaxTries - 1]
             /\ matched' \in [Runs -> SUBSET [key : Keys, born : Runs]]
  <2>1. pc' \in [Runs -> Labels]
    BY <1>8 DEF TypeOK, NextTable, Goto, Labels, Writing, Closing
  <2>2. at' \in [Runs -> 1 .. Len(WriteOrder)]
    BY <1>8, WriteOrderFacts DEF TypeOK, NextTable
  <2>3. tries' \in [Runs -> 0 .. MaxTries - 1]
    BY <1>8, BoundsAssumption DEF TypeOK, NextTable
  <2>4. matched' \in [Runs -> SUBSET [key : Keys, born : Runs]]
    BY <1>8 DEF TypeOK, NextTable
  <2> QED BY <2>1, <2>2, <2>3, <2>4
<1>9. ASSUME NEW r \in Runs, SkipTable(r) PROVE TypeOK'
  BY <1>8, <1>9 DEF TypeOK, SkipTable, workbook
<1>10. ASSUME NEW r \in Runs, LookUp(r) PROVE TypeOK'
  <2>1. WriteOrder[at[r]] \in Tables
    BY WriteOrderFacts DEF TypeOK
  <2>2. matched' \in [Runs -> SUBSET [key : Keys, born : Runs]]
    <3>1. sheets[WriteOrder[at[r]]] \subseteq Row
      BY <2>1 DEF TypeOK
    <3>2. PICK m \in SUBSET sheets[WriteOrder[at[r]]] :
            matched' = [matched EXCEPT ![r] = { [key |-> x.key, born |-> x.born] : x \in m }]
      BY <1>10 DEF LookUp
    <3>3. { [key |-> x.key, born |-> x.born] : x \in m } \in SUBSET [key : Keys, born : Runs]
      BY <3>1 DEF Row
    <3> QED BY <3>2, <3>3 DEF TypeOK
  <2> QED BY <1>10, <2>2 DEF TypeOK, LookUp, Goto, workbook, Labels, Writing
<1>11. ASSUME NEW r \in Runs, NEW calls, Apply(r, calls)
       PROVE  sheets' \in [Tables -> SUBSET Row]
  <2>1. WriteOrder[at[r]] \in Tables
    BY WriteOrderFacts DEF TypeOK
  <2>2. Upserted(sheets[WriteOrder[at[r]]], batch[r][WriteOrder[at[r]]], matched[r], r, calls)
          \in SUBSET Row
    BY <1>d, <1>e, <2>1, UpsertedType
  <2> QED BY <1>11, <2>1, <2>2 DEF TypeOK, Apply
<1>12. ASSUME NEW r \in Runs, Write(r) PROVE TypeOK'
  BY <1>8, <1>11, <1>12 DEF TypeOK, Write
<1>13. ASSUME NEW r \in Runs, WriteFails(r) PROVE TypeOK'
  <2>1. sheets' \in [Tables -> SUBSET Row]
    BY <1>11, <1>13 DEF WriteFails
  <2>2. CASE tries[r] + 1 < MaxTries
    <3>1. tries' \in [Runs -> 0 .. MaxTries - 1]
      BY <1>13, <1>a, <2>2 DEF WriteFails, CountAttempt
    <3>2. pc' \in [Runs -> Labels]
      BY <1>13, <1>b, <2>2 DEF WriteFails, Goto, Labels, Writing
    <3>3. matched' \in [Runs -> SUBSET [key : Keys, born : Runs]]
      BY <1>13, <2>2 DEF TypeOK, WriteFails
    <3> QED BY <1>13, <2>1, <2>2, <3>1, <3>2, <3>3 DEF TypeOK, WriteFails
  <2>3. CASE ~(tries[r] + 1 < MaxTries)
    BY <1>13, <2>1, <2>3, ForgetType
    DEF TypeOK, WriteFails, ToFailureBranch, Goto, Labels, Failing
  <2> QED BY <2>2, <2>3
<1>14. ASSUME NEW r \in Runs, FinalizeSuccess(r) PROVE TypeOK'
  <2>1. Forget(r)
    BY <1>14 DEF FinalizeSuccess, ToFailureBranch
  <2>2. pc' \in [Runs -> Labels]
    BY <1>14 DEF TypeOK, FinalizeSuccess, ToFailureBranch, Goto, Labels, Closing, Failing
  <2>3. clock' \in Nat /\ stamp' \in [Runs -> Nat]
    BY <1>14 DEF TypeOK, FinalizeSuccess
  <2> QED BY <1>14, <2>1, <2>2, <2>3, ForgetType DEF TypeOK, FinalizeSuccess, workbook
<1>15. ASSUME NEW r \in Runs, NEW how \in Ended, End(r, how)
       PROVE  /\ pc' \in [Runs -> Labels]
              /\ batch' \in [Runs -> [Tables -> SUBSET Row]]
              /\ stamp' \in [Runs -> Nat]
              /\ Forget(r)
              /\ UNCHANGED <<generation, snap>>
  BY <1>15 DEF TypeOK, End, Goto, Labels, NoRows
<1>16. ASSUME NEW r \in Runs PROVE Recorded(SuccessRow(r)) \subseteq Terminal
                                 /\ Recorded(FailedRow(r)) \subseteq Terminal
  BY TerminalTypes DEF Recorded, TypeOK
<1>17. ASSUME NEW r \in Runs, RecordSuccess(r) PROVE TypeOK'
  BY <1>15, <1>16, <1>17, ForgetType DEF TypeOK, RecordSuccess, Ended
<1>18. ASSUME NEW r \in Runs, RecordSuccessFails(r) PROVE TypeOK'
  <2>1. terminals' \subseteq Terminal
    BY <1>16, <1>18 DEF RecordSuccessFails, TypeOK
  <2>2. CASE tries[r] + 1 < MaxTries
    <3>1. tries' \in [Runs -> 0 .. MaxTries - 1]
      BY <1>18, <1>a, <2>2 DEF RecordSuccessFails, CountAttempt
    <3> QED BY <1>18, <2>1, <2>2, <3>1 DEF TypeOK, RecordSuccessFails
  <2>3. CASE ~(tries[r] + 1 < MaxTries)
    BY <1>18, <2>1, <2>3, ForgetType
    DEF TypeOK, RecordSuccessFails, ToFailureBranch, Goto, Labels, Failing
  <2> QED BY <2>2, <2>3
<1>19. ASSUME NEW r \in Runs, FailureNodeFails(r) \/ HardStop(r) PROVE TypeOK'
  BY <1>15, <1>19, ForgetType DEF TypeOK, FailureNodeFails, HardStop, workbook, Ended
<1>20. ASSUME NEW r \in Runs, FinalizeFailure(r) PROVE TypeOK'
  <2>1. CASE End(r, "stopped") /\ UNCHANGED clock
    BY <1>15, <1>20, <2>1, ForgetType DEF TypeOK, FinalizeFailure, workbook, Ended
  <2>2. CASE End(r, "done") /\ UNCHANGED clock
    BY <1>15, <1>20, <2>2, ForgetType DEF TypeOK, FinalizeFailure, workbook, Ended
  <2>3. CASE /\ clock' = clock + 1
             /\ stamp' = [stamp EXCEPT ![r] = clock + 1]
             /\ Goto(r, "record failure")
             /\ Forget(r)
             /\ UNCHANGED <<generation, snap, batch>>
    <3>1. clock + 1 \in Nat
      BY <1>c
    <3>2. clock' \in Nat /\ stamp' \in [Runs -> Nat]
      <4>1. clock' = clock + 1 /\ stamp' = [stamp EXCEPT ![r] = clock + 1]
        BY <2>3
      <4> QED BY <1>c, <3>1, <4>1
    <3>3. pc' \in [Runs -> Labels]
      BY <2>3 DEF TypeOK, Goto, Labels, Failing
    <3> QED BY <1>20, <2>3, <3>1, <3>2, <3>3, ForgetType DEF TypeOK, FinalizeFailure, workbook
  <2> QED BY <1>20, <2>1, <2>2, <2>3 DEF FinalizeFailure
<1>21. ASSUME NEW r \in Runs, RecordFailure(r) PROVE TypeOK'
  BY <1>15, <1>16, <1>21, ForgetType DEF TypeOK, RecordFailure, Ended
<1>22. ASSUME NEW r \in Runs, RecordFailureFails(r) PROVE TypeOK'
  <2>1. terminals' \subseteq Terminal
    BY <1>16, <1>22 DEF RecordFailureFails, TypeOK
  <2>2. CASE tries[r] + 1 < MaxTries
    <3>1. tries' \in [Runs -> 0 .. MaxTries - 1]
      <4>1. tries' = [tries EXCEPT ![r] = tries[r] + 1]
        BY <1>22, <2>2 DEF RecordFailureFails, CountAttempt
      <4>2. tries[r] + 1 \in 0 .. MaxTries - 1
        BY <1>a, <2>2
      <4> QED BY <1>a, <4>1, <4>2
    <3> QED BY <1>22, <2>1, <2>2, <3>1 DEF TypeOK, RecordFailureFails
  <2>3. CASE ~(tries[r] + 1 < MaxTries)
    BY <1>15, <1>22, <2>1, <2>3, ForgetType DEF TypeOK, RecordFailureFails, Ended
  <2> QED BY <2>2, <2>3
<1>23. ASSUME Operator PROVE TypeOK'
  <2>1. CASE SwitchState
    BY <2>1 DEF TypeOK, SwitchState, local
  <2>2. CASE ReplaceWriter
    <3>1. control' \in [state : {"ACTIVE", "PAUSED"}, generation : 1 .. MaxGeneration]
      <4>1. control \in [state : {"ACTIVE", "PAUSED"}, generation : 1 .. MaxGeneration]
        BY DEF TypeOK
      <4>2. control.generation + 1 \in 1 .. MaxGeneration
        BY <2>2, <4>1, BoundsAssumption DEF ReplaceWriter
      <4> QED BY <2>2, <4>1, <4>2 DEF ReplaceWriter
    <3> QED BY <2>2, <3>1 DEF TypeOK, ReplaceWriter, local, InProgress
  <2>3. CASE Configure
    BY <2>3 DEF TypeOK, Configure, local, workbook
  <2> QED BY <1>23, <2>1, <2>2, <2>3 DEF Operator
<1>24. ASSUME UNCHANGED vars PROVE TypeOK'
  BY <1>24 DEF TypeOK, vars, workbook, local
<1> QED
  BY <1>1, <1>2, <1>3, <1>4, <1>5, <1>6, <1>7, <1>9, <1>10, <1>12, <1>13, <1>14, <1>17,
     <1>18, <1>19, <1>20, <1>21, <1>22, <1>23, <1>24
  DEF Next, Step

LEMMA TypeInit == Init => TypeOK
<1> SUFFICES ASSUME Init PROVE TypeOK
  OBVIOUS
<1>1. NothingRead \in ReadResult
  BY BoundsAssumption DEF NothingRead, NoRows, ReadResult
<1> QED
  BY <1>1, BoundsAssumption, WriteOrderFacts DEF Init, TypeOK, NoRows, Labels

\* The workbook, the executions and what they carry are always of their types.
THEOREM TypeCorrect == Spec => []TypeOK
BY TypeInit, TypeStep, PTL DEF Spec

-----------------------------------------------------------------------------
(* What a step leaves alone.                                               *)

\* Everything an execution knows is its own.
LEMMA OthersUnchanged ==
  ASSUME TypeOK, NEW r \in Runs, Step(r) \/ HardStop(r), NEW o \in Runs, o # r
  PROVE  /\ pc'[o] = pc[o]
         /\ generation'[o] = generation[o]
         /\ snap'[o] = snap[o]
         /\ read'[o] = read[o]
         /\ batch'[o] = batch[o]
         /\ at'[o] = at[o]
         /\ matched'[o] = matched[o]
         /\ stamp'[o] = stamp[o]
<1> DEFINE Frame == /\ pc'[o] = pc[o] /\ generation'[o] = generation[o]
                    /\ snap'[o] = snap[o] /\ read'[o] = read[o] /\ batch'[o] = batch[o]
                    /\ at'[o] = at[o] /\ matched'[o] = matched[o] /\ stamp'[o] = stamp[o]
<1>a. /\ pc \in [Runs -> Labels] /\ generation \in [Runs -> 0 .. MaxGeneration]
      /\ snap \in [Runs -> Snapshots \cup {NoSnapshot}] /\ read \in [Runs -> ReadResult]
      /\ batch \in [Runs -> [Tables -> SUBSET Row]]
      /\ at \in [Runs -> 1 .. Len(WriteOrder)]
      /\ matched \in [Runs -> SUBSET [key : Keys, born : Runs]]
      /\ stamp \in [Runs -> Nat]
  BY DEF TypeOK
<1>1. ASSUME Initialize(r) \/ Fetch(r) \/ ReadControl(r) \/ ReadTerminals(r) \/ ReadTable(r)
      PROVE  Frame
  BY <1>1, <1>a DEF Initialize, Fetch, ReadControl, ReadTerminals, ReadTable, Goto
<1>2. ASSUME Forget(r)
      PROVE  read'[o] = read[o] /\ at'[o] = at[o] /\ matched'[o] = matched[o]
  BY <1>2, <1>a DEF Forget
<1>3. ASSUME ToFailureBranch(r)
      PROVE  pc'[o] = pc[o] /\ read'[o] = read[o] /\ at'[o] = at[o] /\ matched'[o] = matched[o]
  BY <1>3, <1>2, <1>a DEF ToFailureBranch, Goto
<1>4. ASSUME NEW how, End(r, how)
      PROVE  Frame
  BY <1>4, <1>2, <1>a DEF End, Goto
<1>5. ASSUME NextTable(r)
      PROVE  pc'[o] = pc[o] /\ at'[o] = at[o] /\ matched'[o] = matched[o]
  BY <1>5, <1>a DEF NextTable, Goto
<1>6. ASSUME NodeFails(r) PROVE Frame
  BY <1>6, <1>3 DEF NodeFails
<1>7. ASSUME Prepare(r) PROVE Frame
  BY <1>7, <1>2, <1>3, <1>a DEF Prepare, Goto
<1>8. ASSUME SkipTable(r) \/ Write(r) PROVE Frame
  BY <1>8, <1>5 DEF SkipTable, Write
<1>9. ASSUME LookUp(r) PROVE Frame
  BY <1>9, <1>a DEF LookUp, Goto
<1>10. ASSUME WriteFails(r) PROVE Frame
  BY <1>10, <1>3, <1>a DEF WriteFails, Goto
<1>11. ASSUME FinalizeSuccess(r) PROVE Frame
  BY <1>11, <1>2, <1>3, <1>a DEF FinalizeSuccess, Goto
<1>12. ASSUME RecordSuccess(r) \/ FailureNodeFails(r) \/ RecordFailure(r) \/ HardStop(r)
       PROVE  Frame
  BY <1>12, <1>4 DEF RecordSuccess, FailureNodeFails, RecordFailure, HardStop
<1>13. ASSUME RecordSuccessFails(r) PROVE Frame
  BY <1>13, <1>3 DEF RecordSuccessFails
<1>14. ASSUME FinalizeFailure(r) PROVE Frame
  BY <1>14, <1>2, <1>4, <1>a DEF FinalizeFailure, Goto
<1>15. ASSUME RecordFailureFails(r) PROVE Frame
  BY <1>15, <1>4 DEF RecordFailureFails
<1> QED
  BY <1>1, <1>6, <1>7, <1>8, <1>9, <1>10, <1>11, <1>12, <1>13, <1>14, <1>15 DEF Step

\* The operator touches no execution and no row.
LEMMA OperatorFrame ==
  ASSUME Operator \/ UNCHANGED vars
  PROVE  UNCHANGED <<terminals, sheets, pc, local>>
BY DEF Operator, SwitchState, ReplaceWriter, Configure, vars, workbook, local

\* A step is the operator's, or one of an execution.
LEMMA StepCases ==
  ASSUME [Next]_vars
  PROVE  \/ UNCHANGED <<terminals, sheets, pc, local>>
         \/ \E r \in Runs : Step(r) \/ HardStop(r)
BY OperatorFrame DEF Next

\* Rows change by the upsert of one execution.
LEMMA SheetsStep ==
  ASSUME NEW r \in Runs, Step(r) \/ HardStop(r)
  PROVE  \/ sheets' = sheets
         \/ Write(r)
         \/ WriteFails(r)
BY DEF Step, HardStop, Initialize, Fetch, ReadControl, ReadTerminals, ReadTable, NodeFails, Prepare,
       SkipTable, LookUp, FinalizeSuccess, RecordSuccess, RecordSuccessFails, FailureNodeFails,
       FinalizeFailure, RecordFailure, RecordFailureFails, workbook

\* Once an execution has fetched its snapshot it keeps it.
LEMMA SnapshotKept ==
  ASSUME TypeOK, [Next]_vars, NEW o \in Runs, pc[o] \notin {"idle", "fetch"}
  PROVE  pc'[o] \notin {"idle", "fetch"} /\ snap'[o] = snap[o]
<1>a. /\ pc \in [Runs -> Labels]
      /\ snap \in [Runs -> Snapshots \cup {NoSnapshot}]
  BY DEF TypeOK
<1>1. CASE UNCHANGED <<terminals, sheets, pc, local>>
  BY <1>1 DEF local
<1>2. ASSUME NEW r \in Runs, Step(r) \/ HardStop(r), r # o
      PROVE  pc'[o] = pc[o] /\ snap'[o] = snap[o]
  BY <1>2, OthersUnchanged
<1>3. ASSUME Step(o) \/ HardStop(o)
      PROVE  pc'[o] \notin {"idle", "fetch"} /\ snap'[o] = snap[o]
  <2>1. CASE ReadControl(o) \/ ReadTerminals(o) \/ ReadTable(o) \/ LookUp(o)
    BY <2>1, <1>a DEF ReadControl, ReadTerminals, ReadTable, LookUp, Goto
  <2>2. CASE NodeFails(o) \/ Prepare(o) \/ FinalizeSuccess(o)
    BY <2>2, <1>a DEF NodeFails, Prepare, FinalizeSuccess, ToFailureBranch, Goto
  <2>3. CASE SkipTable(o) \/ Write(o)
    BY <2>3, <1>a DEF SkipTable, Write, NextTable, Goto
  <2>4. CASE WriteFails(o) \/ RecordSuccessFails(o)
    BY <2>4, <1>a DEF WriteFails, RecordSuccessFails, ToFailureBranch, Goto
  <2>5. ASSUME NEW how \in Ended, End(o, how)
        PROVE  pc'[o] \notin {"idle", "fetch"} /\ snap'[o] = snap[o]
    BY <2>5, <1>a DEF End, Goto, Ended
  <2>6. CASE RecordSuccess(o) \/ FailureNodeFails(o) \/ RecordFailure(o) \/ HardStop(o)
    BY <2>6, <2>5 DEF RecordSuccess, FailureNodeFails, RecordFailure, HardStop, Ended
  <2>7. CASE FinalizeFailure(o)
    BY <2>7, <2>5, <1>a DEF FinalizeFailure, Goto, Ended
  <2>8. CASE RecordFailureFails(o)
    BY <2>8, <2>5, <1>a DEF RecordFailureFails, Ended
  <2>9. ~Initialize(o) /\ ~Fetch(o)
    BY DEF Initialize, Fetch
  <2> QED BY <1>3, <2>1, <2>2, <2>3, <2>4, <2>6, <2>7, <2>8, <2>9 DEF Step
<1> QED BY <1>1, <1>2, <1>3, StepCases

-----------------------------------------------------------------------------
(* The data of a run.                                                      *)

LEMMA Disjoint == DatedTables \cap CurrentTables = {}
BY DEF DatedTables, CurrentTables

\* New rows are as many as the keys they are made of.
LEMMA NewRowsFacts ==
  ASSUME NEW s \in Snapshots \cup {NoSnapshot}, NEW r \in Runs, NEW t \in Tables
  PROVE  /\ KeysOf(NewRows(s, r, t)) = Stored(s, t)
         /\ IsFiniteSet(NewRows(s, r, t))
         /\ Cardinality(NewRows(s, r, t)) = Cardinality(Stored(s, t))
<1> DEFINE S == Stored(s, t)
           N == NewRows(s, r, t)
           f == [k \in S |-> [key |-> k, born |-> r, run |-> r, active |-> TRUE]]
<1>1. KeysOf(N) = S
  <2>1. \A k \in S : f[k] \in N /\ f[k].key = k
    BY DEF NewRows
  <2>2. \A x \in N : x.key \in S
    BY DEF NewRows
  <2> QED BY <2>1, <2>2 DEF KeysOf
<1>2. f \in Bijection(S, N)
  <2>1. f \in [S -> N]
    BY DEF NewRows
  <2>2. \A a, b \in S : f[a] = f[b] => a = b
    <3>1. \A k \in S : f[k].key = k
      OBVIOUS
    <3> QED BY <3>1
  <2>3. \A x \in N : \E k \in S : f[k] = x
    BY DEF NewRows
  <2>4. f \in Injection(S, N)
    BY <2>1, <2>2 DEF Injection, IsInjective
  <2>5. f \in Surjection(S, N)
    BY <2>1, <2>3 DEF Surjection
  <2> QED BY <2>4, <2>5 DEF Bijection
<1>3. IsFiniteSet(S)
  BY StoredKeys
<1>4. ExistsBijection(S, N)
  BY <1>2 DEF ExistsBijection
<1>5. IsFiniteSet(N) /\ Cardinality(N) = Cardinality(S)
  BY <1>3, <1>4, FS_Bijection
<1> QED BY <1>1, <1>5

\* In a dated table an upsert leaves the rows of other executions where they are.
LEMMA UpsertedKeeps ==
  ASSUME NEW rows \in SUBSET Row, NEW items, NEW found, NEW r, NEW calls,
         \A p \in found : p.born = r,
         NEW x \in rows, x.born # r
  PROVE  x \in Upserted(rows, items, found, r, calls)
BY DEF Upserted

\* An upsert all of whose calls took effect stores every item of its own.
LEMMA UpsertedStores ==
  ASSUME NEW rows, NEW items \in SUBSET Row, NEW found, NEW r,
         \A p \in found : p.born = r,
         NEW b \in items, b.born = r
  PROVE  b \in Upserted(rows, items, found, r, {"update", "append"})
<1>1. CASE \A p \in found : p.key # b.key
  <2>1. [b EXCEPT !.born = r] = b
    BY DEF Row
  <2> QED BY <1>1, <2>1 DEF Upserted
<1>2. ASSUME NEW p \in found, p.key = b.key
      PROVE  b \in Upserted(rows, items, found, r, {"update", "append"})
  <2>1. <<b, p>> \in { q \in items \X found : q[1].key = q[2].key }
    BY <1>2
  <2>2. [b EXCEPT !.born = p.born] = b
    BY <1>2 DEF Row
  <2> QED BY <2>1, <2>2 DEF Upserted
<1> QED BY <1>1, <1>2

\* Every row of an upserted table was there before, or carries an item.
LEMMA UpsertedFrom ==
  ASSUME NEW rows \in SUBSET Row, NEW items \in SUBSET Row,
         NEW found \in SUBSET [key : Keys, born : Runs], NEW r \in Runs, NEW calls,
         NEW x \in Upserted(rows, items, found, r, calls), x \notin rows
  PROVE  \E b \in items :
           /\ x.key = b.key /\ x.run = b.run /\ x.active = b.active
           /\ x.born = r \/ \E p \in found : x.born = p.born
BY DEF Upserted, Row

-----------------------------------------------------------------------------
(* The invariant is inductive.                                             *)

\* What the attempt of a write does, whether it succeeds or fails.
LEMMA WriteStep ==
  ASSUME TypeOK, NEW r \in Runs, Write(r) \/ WriteFails(r)
  PROVE  /\ pc[r] = "apply"
         /\ \E calls \in SUBSET {"update", "append"} :
              /\ sheets' = [sheets EXCEPT ![WriteOrder[at[r]]] =
                              Upserted(sheets[WriteOrder[at[r]]], batch[r][WriteOrder[at[r]]],
                                       matched[r], r, calls)]
              /\ Write(r) => calls = {"update", "append"}
<1>1. CASE Write(r)
  BY <1>1 DEF Write, Apply
<1>2. CASE WriteFails(r) /\ ~Write(r)
  BY <1>2 DEF WriteFails, Apply
<1> QED BY <1>1, <1>2

LEMMA GenuineRowsStep == ASSUME IInv, [Next]_vars PROVE GenuineRows'
<1>a. TypeOK /\ GenuineRows /\ GenuineBatches /\ OwnMatches
  BY DEF IInv
<1>b. sheets \in [Tables -> SUBSET Row] /\ sheets' \in [Tables -> SUBSET Row]
  BY <1>a, TypeStep DEF TypeOK
<1> SUFFICES ASSUME NEW t \in Tables, NEW row \in sheets'[t]
             PROVE  Genuine(t, row)'
  BY DEF GenuineRows
<1>1. CASE row \in sheets[t]
  <2>1. row.run \in Runs /\ Genuine(t, row)
    BY <1>a, <1>b, <1>1 DEF GenuineRows, Row
  <2> QED BY <1>a, <2>1, SnapshotKept DEF Genuine
<1>2. CASE row \notin sheets[t]
  <2>1. PICK r \in Runs : Write(r) \/ WriteFails(r)
    BY <1>2, StepCases, SheetsStep
  <2>2. pc[r] = "apply"
    BY <1>a, <2>1, WriteStep
  <2>3. PICK calls : sheets' = [sheets EXCEPT ![WriteOrder[at[r]]] =
                       Upserted(sheets[WriteOrder[at[r]]], batch[r][WriteOrder[at[r]]],
                                matched[r], r, calls)]
    BY <1>a, <2>1, WriteStep
  <2>4. t = WriteOrder[at[r]] /\ row \in Upserted(sheets[t], batch[r][t], matched[r], r, calls)
    BY <1>b, <1>2, <2>3
  <2>5. batch[r][t] \in SUBSET Row /\ matched[r] \in SUBSET [key : Keys, born : Runs]
    BY <1>a DEF TypeOK
  <2>6. PICK b \in batch[r][t] :
          /\ row.key = b.key /\ row.run = b.run /\ row.active = b.active
          /\ row.born = r \/ \E p \in matched[r] : row.born = p.born
    BY <1>b, <1>2, <2>4, <2>5, UpsertedFrom
  <2>7. b.active => b.run = r /\ b.key \in Stored(snap[r], t)
    BY <1>a DEF GenuineBatches, NewRows
  <2>8. t \in DatedTables => b.active /\ row.born = r
    BY <1>a, <2>2, <2>4, <2>6 DEF GenuineBatches, OwnMatches
  <2>9. pc'[r] \notin {"idle", "fetch"} /\ snap'[r] = snap[r]
    BY <1>a, <2>2, SnapshotKept
  <2> QED BY <2>6, <2>7, <2>8, <2>9 DEF Genuine
<1> QED BY <1>1, <1>2

\* How the batches of an execution come and go.
LEMMA BatchStep ==
  ASSUME TypeOK, [Next]_vars, NEW o \in Runs
  PROVE  \/ /\ batch'[o] = batch[o]
            /\ pc'[o] \in Writing \cup Closing => pc[o] \in Writing \cup Closing
         \/ batch'[o] = NoRows /\ pc'[o] \in Ended
         \/ pc[o] = "prepare" /\ batch'[o] = Batches(snap[o], read[o], o)
<1> DEFINE Same == /\ batch'[o] = batch[o]
                   /\ pc'[o] \in Writing \cup Closing => pc[o] \in Writing \cup Closing
           Over == batch'[o] = NoRows /\ pc'[o] \in Ended
           Fresh == pc[o] = "prepare" /\ batch'[o] = Batches(snap[o], read[o], o)
<1>a. pc \in [Runs -> Labels] /\ batch \in [Runs -> [Tables -> SUBSET Row]]
  BY DEF TypeOK
<1>1. CASE UNCHANGED <<terminals, sheets, pc, local>>
  BY <1>1 DEF local
<1>2. ASSUME NEW r \in Runs, Step(r) \/ HardStop(r), r # o
      PROVE  Same
  BY <1>2, OthersUnchanged
<1>3. ASSUME Step(o) \/ HardStop(o)
      PROVE  Same \/ Over \/ Fresh
  <2>1. CASE \/ Initialize(o) \/ Fetch(o) \/ ReadControl(o) \/ ReadTerminals(o) \/ ReadTable(o)
             \/ LookUp(o)
    BY <2>1, <1>a
    DEF Initialize, Fetch, ReadControl, ReadTerminals, ReadTable, LookUp, Goto, Writing, Closing, local
  <2>2. CASE NodeFails(o) \/ FinalizeSuccess(o)
    BY <2>2, <1>a DEF NodeFails, FinalizeSuccess, ToFailureBranch, Goto, Writing, Closing
  <2>3. CASE Prepare(o)
    BY <2>3, <1>a DEF Prepare, ToFailureBranch, Goto, Writing, Closing
  <2>4. CASE SkipTable(o) \/ Write(o)
    BY <2>4, <1>a DEF SkipTable, Write, NextTable, Goto, Writing, Closing
  <2>5. CASE WriteFails(o) \/ RecordSuccessFails(o)
    BY <2>5, <1>a DEF WriteFails, RecordSuccessFails, ToFailureBranch, Goto, Writing, Closing
  <2>6. ASSUME NEW how \in Ended, End(o, how) PROVE Over
    BY <2>6, <1>a DEF End, Goto
  <2>7. CASE RecordSuccess(o) \/ FailureNodeFails(o) \/ RecordFailure(o) \/ HardStop(o)
    BY <2>7, <2>6 DEF RecordSuccess, FailureNodeFails, RecordFailure, HardStop, Ended
  <2>8. CASE FinalizeFailure(o)
    BY <2>8, <2>6, <1>a DEF FinalizeFailure, Goto, Ended, Writing, Closing
  <2>9. CASE RecordFailureFails(o)
    BY <2>9, <2>6, <1>a DEF RecordFailureFails, Ended
  <2> QED BY <1>3, <2>1, <2>2, <2>3, <2>4, <2>5, <2>7, <2>8, <2>9 DEF Step
<1> QED BY <1>1, <1>2, <1>3, StepCases

LEMMA GenuineBatchesStep == ASSUME IInv, [Next]_vars PROVE GenuineBatches'
<1>a. TypeOK /\ GenuineBatches
  BY DEF IInv
<1> SUFFICES ASSUME NEW o \in Runs, NEW t \in Tables
             PROVE  /\ \A b \in batch'[o][t] :
                         /\ b.active => b \in NewRows(snap'[o], o, t)
                         /\ t \in DatedTables => b.active
                         /\ pc'[o] \notin {"idle", "fetch"}
                    /\ pc'[o] \in Writing \cup Closing => NewRows(snap'[o], o, t) \subseteq batch'[o][t]
  BY DEF GenuineBatches, NewRows
<1>1. CASE /\ batch'[o] = batch[o]
           /\ pc'[o] \in Writing \cup Closing => pc[o] \in Writing \cup Closing
  <2>1. CASE pc[o] \in {"idle", "fetch"}
    BY <1>a, <1>1, <2>1 DEF GenuineBatches, Writing, Closing
  <2>2. CASE pc[o] \notin {"idle", "fetch"}
    <3>1. pc'[o] \notin {"idle", "fetch"} /\ snap'[o] = snap[o]
      BY <1>a, <2>2, SnapshotKept
    <3> QED BY <1>a, <1>1, <3>1 DEF GenuineBatches
  <2> QED BY <2>1, <2>2
<1>2. CASE batch'[o] = NoRows /\ pc'[o] \in Ended
  BY <1>2 DEF NoRows, Ended, Writing, Closing
<1>3. CASE pc[o] = "prepare" /\ batch'[o] = Batches(snap[o], read[o], o)
  <2>1. pc'[o] \notin {"idle", "fetch"} /\ snap'[o] = snap[o]
    BY <1>a, <1>3, SnapshotKept
  <2>2. batch'[o][t] = NewRows(snap[o], o, t) \cup Inactivated(snap[o], read[o], t)
    BY <1>3 DEF Batches
  <2>3. \A b \in NewRows(snap[o], o, t) : b.active
    BY DEF NewRows
  <2>4. \A b \in Inactivated(snap[o], read[o], t) : ~b.active
    <3> SUFFICES ASSUME NEW x \in read[o].sheets[t] PROVE ~[x EXCEPT !.active = FALSE].active
      BY DEF Inactivated, Active
    <3>1. x \in Row
      BY <1>a DEF TypeOK, ReadResult
    <3> QED BY <3>1 DEF Row
  <2>5. t \in DatedTables => Inactivated(snap[o], read[o], t) = {}
    BY Disjoint DEF Inactivated
  <2> QED BY <2>1, <2>2, <2>3, <2>4, <2>5
<1> QED BY <1>a, <1>1, <1>2, <1>3, BatchStep

\* The matches of an upsert are made in the step that starts applying it.
LEMMA MatchStep ==
  ASSUME TypeOK, [Next]_vars, NEW o \in Runs, pc'[o] = "apply"
  PROVE  at'[o] = at[o] /\ (LookUp(o) \/ (pc[o] = "apply" /\ matched'[o] = matched[o]))
<1>a. /\ pc \in [Runs -> Labels] /\ at \in [Runs -> 1 .. Len(WriteOrder)]
      /\ matched \in [Runs -> SUBSET [key : Keys, born : Runs]]
  BY DEF TypeOK
<1>1. CASE UNCHANGED <<terminals, sheets, pc, local>>
  BY <1>1 DEF local
<1>2. ASSUME NEW r \in Runs, Step(r) \/ HardStop(r), r # o
      PROVE  at'[o] = at[o] /\ pc[o] = "apply" /\ matched'[o] = matched[o]
  BY <1>2, OthersUnchanged
<1>3. ASSUME Step(o) \/ HardStop(o)
      PROVE  at'[o] = at[o] /\ LookUp(o)
  <2>1. ~(Initialize(o) \/ Fetch(o) \/ ReadControl(o) \/ ReadTerminals(o) \/ ReadTable(o))
    BY <1>a DEF Initialize, Fetch, ReadControl, ReadTerminals, ReadTable, Goto
  <2>2. ~(NodeFails(o) \/ Prepare(o) \/ FinalizeSuccess(o))
    BY <1>a DEF NodeFails, FinalizeSuccess, Prepare, ToFailureBranch, Goto
  <2>3. ~(SkipTable(o) \/ Write(o))
    BY <1>a DEF SkipTable, Write, NextTable, Goto
  <2>4. ~(WriteFails(o) \/ RecordSuccessFails(o))
    BY <1>a DEF WriteFails, RecordSuccessFails, ToFailureBranch, Goto
  <2>5. ASSUME NEW how \in Ended, End(o, how) PROVE FALSE
    BY <2>5, <1>a DEF End, Goto, Ended
  <2>6. ~(RecordSuccess(o) \/ FailureNodeFails(o) \/ RecordFailure(o) \/ HardStop(o))
    BY <2>5 DEF RecordSuccess, FailureNodeFails, RecordFailure, HardStop, Ended
  <2>7. ~FinalizeFailure(o)
    BY <2>5, <1>a DEF FinalizeFailure, Goto, Ended
  <2>8. ~RecordFailureFails(o)
    BY <2>5, <1>a DEF RecordFailureFails, Ended
  <2>9. LookUp(o)
    BY <1>3, <2>1, <2>2, <2>3, <2>4, <2>6, <2>7, <2>8 DEF Step
  <2> QED BY <2>9 DEF LookUp
<1> QED BY <1>1, <1>2, <1>3, StepCases

LEMMA OwnMatchesStep == ASSUME IInv, [Next]_vars PROVE OwnMatches'
<1>a. TypeOK /\ GenuineRows /\ GenuineBatches /\ OwnMatches
  BY DEF IInv
<1> SUFFICES ASSUME NEW o \in Runs, pc'[o] = "apply", WriteOrder[at'[o]] \in DatedTables,
                    NEW p \in matched'[o]
             PROVE  p.born = o
  BY DEF OwnMatches
<1> DEFINE t == WriteOrder[at[o]]
<1>1. at'[o] = at[o] /\ t \in DatedTables /\ t \in Tables
  BY <1>a, MatchStep, WriteOrderFacts DEF TypeOK
<1>2. CASE pc[o] = "apply" /\ matched'[o] = matched[o]
  BY <1>a, <1>1, <1>2 DEF OwnMatches
<1>3. CASE LookUp(o)
  <2>1. PICK m \in SUBSET { x \in sheets[t] :
                             \E b \in batch[o][t] : UniqueKey(t, b) = UniqueKey(t, x) } :
          matched' = [matched EXCEPT ![o] = { [key |-> x.key, born |-> x.born] : x \in m }]
    BY <1>3 DEF LookUp
  <2>2. p \in { [key |-> x.key, born |-> x.born] : x \in m }
    BY <1>a, <2>1 DEF TypeOK
  <2>3. PICK x \in m : p.born = x.born
    BY <2>2
  <2>4. PICK b \in batch[o][t] : UniqueKey(t, b) = UniqueKey(t, x)
    BY <2>1
  <2>5. b.run = x.run
    BY <1>1, <2>4, Disjoint DEF UniqueKey
  <2>6. b.run = o
    BY <1>a, <1>1 DEF GenuineBatches, NewRows
  <2>7. x.born = x.run
    BY <1>a, <1>1, <2>1 DEF GenuineRows, Genuine
  <2> QED BY <2>3, <2>5, <2>6, <2>7
<1> QED BY <1>a, <1>2, <1>3, MatchStep

-----------------------------------------------------------------------------
(* Terminals.                                                              *)

\* Terminals change in the two nodes that record one.
LEMMA TerminalsStep ==
  ASSUME TypeOK, NEW r \in Runs, Step(r) \/ HardStop(r)
  PROVE  \/ terminals' = terminals
         \/ /\ pc[r] = "record" /\ terminals' = Recorded(SuccessRow(r))
            /\ RecordSuccess(r) \/ RecordSuccessFails(r)
         \/ pc[r] = "record failure" /\ terminals' = Recorded(FailedRow(r))
<1>1. CASE RecordSuccess(r)
  BY <1>1 DEF RecordSuccess
<1>2. CASE RecordSuccessFails(r)
  BY <1>2 DEF RecordSuccessFails
<1>3. CASE RecordFailure(r) \/ RecordFailureFails(r)
  BY <1>3 DEF RecordFailure, RecordFailureFails
<1>4. CASE \/ Initialize(r) \/ Fetch(r) \/ ReadControl(r) \/ ReadTerminals(r) \/ ReadTable(r)
           \/ NodeFails(r) \/ Prepare(r) \/ SkipTable(r) \/ LookUp(r) \/ Write(r) \/ WriteFails(r)
           \/ FinalizeSuccess(r) \/ FailureNodeFails(r) \/ FinalizeFailure(r) \/ HardStop(r)
  BY <1>4
  DEF Initialize, Fetch, ReadControl, ReadTerminals, ReadTable, NodeFails, Prepare, SkipTable, LookUp,
      Write, WriteFails, FinalizeSuccess, FailureNodeFails, FinalizeFailure, HardStop, workbook
<1> QED BY <1>1, <1>2, <1>3, <1>4 DEF Step

\* What is left of an execution whose success is stored.
LEMMA RecordingStep ==
  ASSUME IInv, NEW o \in Runs, Step(o) \/ HardStop(o), Recording(o)
  PROVE  /\ pc'[o] \in Stamped
         /\ pc'[o] = "record" => pc[o] = "record" /\ UNCHANGED <<generation, snap, batch, stamp>>
         /\ pc'[o] = "fail finalize" => read'[o].terminals = terminals
         /\ pc[o] \in Stamped
<1>a. pc \in [Runs -> Labels] /\ read \in [Runs -> ReadResult]
  BY DEF IInv, TypeOK
<1>b. pc[o] \in Stamped /\ pc[o] # "finalize" /\ (pc[o] = "fail finalize" => OwnTerminal(o))
  BY DEF IInv, SuccessInPlace, Recording, Stamped, OwnTerminal, Ended, Successful
<1> DEFINE G == /\ pc'[o] \in Stamped
                /\ pc'[o] = "record" => pc[o] = "record" /\ UNCHANGED <<generation, snap, batch, stamp>>
                /\ pc'[o] = "fail finalize" => read'[o].terminals = terminals
<1>1. CASE RecordSuccessFails(o)
  BY <1>1, <1>a DEF RecordSuccessFails, ToFailureBranch, Goto, Stamped
<1>2. ASSUME NEW how \in Ended, End(o, how) PROVE G
  BY <1>2, <1>a DEF End, Goto, Stamped, Ended
<1>3. CASE RecordSuccess(o) \/ FailureNodeFails(o) \/ RecordFailure(o) \/ HardStop(o)
  BY <1>3, <1>b, <1>2 DEF RecordSuccess, FailureNodeFails, RecordFailure, HardStop, Ended
<1>4. CASE FinalizeFailure(o)
  BY <1>4, <1>b, <1>2 DEF FinalizeFailure, Ended
<1>5. CASE ReadControl(o)
  BY <1>5, <1>a, <1>b DEF ReadControl, Goto, Stamped, Ended
<1>6. CASE ReadTerminals(o)
  BY <1>6, <1>a, <1>b DEF ReadTerminals, Goto, Stamped, Ended, ReadResult
<1>7. ~( \/ Initialize(o) \/ Fetch(o) \/ ReadTable(o) \/ NodeFails(o) \/ Prepare(o) \/ SkipTable(o)
         \/ LookUp(o) \/ Write(o) \/ WriteFails(o) \/ FinalizeSuccess(o) \/ RecordFailure(o)
         \/ RecordFailureFails(o) )
  BY <1>b
  DEF Initialize, Fetch, ReadTable, NodeFails, Prepare, SkipTable, LookUp, Write, WriteFails,
      FinalizeSuccess, RecordFailure, RecordFailureFails, Stamped, Ended, Reading
<1> QED BY <1>b, <1>1, <1>3, <1>4, <1>5, <1>6, <1>7 DEF Step

\* Counts of the success of a run that has written everything.
LEMMA SuccessCounts ==
  ASSUME TypeOK, GenuineBatches, NEW r \in Runs, pc[r] = "record"
  PROVE  CountsOf(r) = [t \in Tables |-> IF Permitted(snap[r].coverage, t)
                                         THEN Cardinality(Stored(snap[r], t)) ELSE Blank]
<1> SUFFICES ASSUME NEW t \in Tables
             PROVE  Cardinality(Active(batch[r][t])) = Cardinality(Stored(snap[r], t))
  BY DEF CountsOf
<1>1. Active(batch[r][t]) = NewRows(snap[r], r, t)
  <2>1. \A b \in NewRows(snap[r], r, t) : b.active
    BY DEF NewRows
  <2> QED BY <2>1 DEF GenuineBatches, Active, Closing
<1> QED BY <1>1, NewRowsFacts DEF TypeOK

LEMMA SuccessInPlaceStep == ASSUME IInv, [Next]_vars PROVE SuccessInPlace'
<1>a. TypeOK /\ GenuineBatches /\ SuccessInPlace
  BY DEF IInv
<1>b. terminals \subseteq Terminal
  BY <1>a DEF TypeOK
<1> SUFFICES ASSUME NEW x \in Successful(terminals')
             PROVE  /\ pc'[x.run] \in Stamped
                    /\ pc'[x.run] = "record" => x = SuccessRow(x.run)'
                    /\ pc'[x.run] = "fail finalize" => x \in read'[x.run].terminals
                    /\ x.counts = [t \in Tables |-> IF Permitted(snap'[x.run].coverage, t)
                                      THEN Cardinality(Stored(snap'[x.run], t)) ELSE Blank]
  BY DEF SuccessInPlace
<1> DEFINE o == x.run
<1>1. ASSUME x \in terminals
      PROVE  /\ o \in Runs /\ Recording(o) /\ x \in Successful(terminals)
             /\ pc[o] \notin {"idle", "fetch"} /\ snap'[o] = snap[o]
  <2>1. o \in Runs /\ x \in Successful(terminals)
    BY <1>b, <1>1 DEF Terminal, Successful
  <2>2. pc[o] \notin {"idle", "fetch"}
    BY <1>a, <2>1 DEF SuccessInPlace, Stamped, Ended
  <2>3. snap'[o] = snap[o]
    BY <1>a, <2>1, <2>2, SnapshotKept
  <2> QED BY <2>1, <2>2, <2>3 DEF Recording
<1>2. CASE UNCHANGED <<terminals, sheets, pc, local>>
  BY <1>a, <1>1, <1>2 DEF SuccessInPlace, SuccessRow, CountsOf, local
<1>3. ASSUME NEW r \in Runs, Step(r) \/ HardStop(r), x \in terminals, r # o
      PROVE  /\ pc'[o] \in Stamped
             /\ pc'[o] = "record" => x = SuccessRow(o)'
             /\ pc'[o] = "fail finalize" => x \in read'[o].terminals
  <2>1. /\ pc'[o] = pc[o] /\ read'[o] = read[o] /\ generation'[o] = generation[o]
        /\ batch'[o] = batch[o] /\ stamp'[o] = stamp[o] /\ snap'[o] = snap[o]
    BY <1>a, <1>1, <1>3, OthersUnchanged
  <2> QED BY <1>a, <1>1, <1>3, <2>1 DEF SuccessInPlace, SuccessRow, CountsOf
<1>4. ASSUME Step(o) \/ HardStop(o), x \in terminals
      PROVE  /\ pc'[o] \in Stamped
             /\ pc'[o] = "record" => x = SuccessRow(o)'
             /\ pc'[o] = "fail finalize" => x \in read'[o].terminals
  <2>1. /\ pc'[o] \in Stamped
        /\ pc'[o] = "record" => pc[o] = "record" /\ UNCHANGED <<generation, snap, batch, stamp>>
        /\ pc'[o] = "fail finalize" => read'[o].terminals = terminals
    BY <1>1, <1>4, RecordingStep
  <2> QED BY <1>a, <1>1, <1>4, <2>1 DEF SuccessInPlace, SuccessRow, CountsOf
<1>5. ASSUME NEW r \in Runs, Step(r) \/ HardStop(r), x \notin terminals
      PROVE  /\ pc[r] = "record" /\ x = SuccessRow(r) /\ r = o
             /\ RecordSuccess(r) \/ RecordSuccessFails(r)
  <2>1. ~(terminals' = Recorded(FailedRow(r)))
    BY <1>5 DEF Recorded, FailedRow, Successful
  <2>2. CASE /\ pc[r] = "record" /\ terminals' = Recorded(SuccessRow(r))
             /\ RecordSuccess(r) \/ RecordSuccessFails(r)
    <3>1. x = SuccessRow(r)
      BY <1>5, <2>2 DEF Recorded, Successful
    <3> QED BY <2>2, <3>1 DEF SuccessRow
  <2> QED BY <1>a, <1>5, <2>1, <2>2, TerminalsStep DEF Successful
<1>6. ASSUME NEW r \in Runs, Step(r) \/ HardStop(r), x \notin terminals
      PROVE  /\ pc'[o] \in Stamped
             /\ pc'[o] = "record" => x = SuccessRow(o)'
             /\ pc'[o] # "fail finalize"
             /\ x.counts = [t \in Tables |-> IF Permitted(snap'[o].coverage, t)
                               THEN Cardinality(Stored(snap'[o], t)) ELSE Blank]
  <2>1. pc[r] = "record" /\ x = SuccessRow(r) /\ r = o
    BY <1>6, <1>5
  <2>2. snap'[r] = snap[r]
    BY <1>a, <2>1, SnapshotKept
  <2>3. x.counts = [t \in Tables |-> IF Permitted(snap'[r].coverage, t)
                               THEN Cardinality(Stored(snap'[r], t)) ELSE Blank]
    BY <1>a, <2>1, <2>2, SuccessCounts DEF SuccessRow
  <2>4. CASE RecordSuccess(r)
    <3>1. pc'[r] = "done"
      BY <1>a, <2>4 DEF RecordSuccess, End, Goto, TypeOK
    <3> QED BY <2>1, <2>3, <3>1 DEF Stamped, Ended
  <2>5. CASE RecordSuccessFails(r)
    <3>1. pc'[r] = "fail control" \/ pc' = pc
      BY <1>a, <2>5 DEF RecordSuccessFails, ToFailureBranch, Goto, TypeOK
    <3>2. SuccessRow(r)' = SuccessRow(r)
      BY <2>5 DEF RecordSuccessFails, SuccessRow, CountsOf
    <3> QED BY <2>1, <2>3, <3>1, <3>2 DEF Stamped, Ended
  <2> QED BY <1>6, <1>5, <2>4, <2>5
<1> QED BY <1>a, <1>1, <1>2, <1>3, <1>4, <1>6, StepCases DEF SuccessInPlace

-----------------------------------------------------------------------------
(* What has been written stays written.                                    *)

\* An execution gets past a table by writing it, or by having nothing for it.
LEMMA PastStep ==
  ASSUME IInv, [Next]_vars, NEW o \in Runs, NEW i \in 1 .. Len(WriteOrder), Past(o, i)'
  PROVE  \/ Past(o, i)
         \/ i = at[o] /\ (Write(o) \/ SkipTable(o))
<1>a. TypeOK
  BY DEF IInv
<1>b. /\ pc \in [Runs -> Labels] /\ at \in [Runs -> 1 .. Len(WriteOrder)]
      /\ Len(WriteOrder) \in Nat
  BY <1>a, WriteOrderFacts DEF TypeOK
<1>1. CASE UNCHANGED <<terminals, sheets, pc, local>>
  BY <1>1 DEF local, Past, Recording
<1>2. ASSUME NEW r \in Runs, Step(r) \/ HardStop(r), Recording(o)', ~Recording(o)
      PROVE  pc[o] \in Closing
  <2>1. PICK x \in Successful(terminals') : x.run = o /\ x \notin terminals
    BY <1>2 DEF Recording, Successful
  <2>2. CASE pc[r] = "record" /\ terminals' = Recorded(SuccessRow(r))
    <3>1. x = SuccessRow(r)
      BY <2>1, <2>2 DEF Recorded, Successful
    <3> QED BY <2>1, <2>2, <3>1 DEF SuccessRow, Closing
  <2>3. CASE terminals' = Recorded(FailedRow(r))
    BY <2>1, <2>3 DEF Recorded, FailedRow, Successful
  <2> QED BY <1>a, <1>2, <2>1, <2>2, <2>3, TerminalsStep DEF Successful
<1>3. ASSUME NEW r \in Runs, Step(r) \/ HardStop(r), r # o
      PROVE  Past(o, i)
  <2>1. pc'[o] = pc[o] /\ at'[o] = at[o]
    BY <1>a, <1>3, OthersUnchanged
  <2> QED BY <1>2, <1>3, <2>1 DEF Past
<1>4. ASSUME Step(o) \/ HardStop(o), ~Recording(o)'
      PROVE  Past(o, i) \/ (i = at[o] /\ (Write(o) \/ SkipTable(o)))
  <2>0. pc'[o] \in Closing \/ (pc'[o] \in Writing /\ i < at'[o])
    BY <1>4 DEF Past
  <2>1. CASE Write(o) \/ SkipTable(o)
    <3>1. CASE at[o] < Len(WriteOrder)
      <4>1. at'[o] = at[o] + 1 /\ pc'[o] = "write" /\ pc[o] \in Writing
        BY <2>1, <3>1, <1>b DEF Write, SkipTable, NextTable, Goto, Writing
      <4>2. i < at[o] + 1
        BY <2>0, <4>1 DEF Closing
      <4>3. i < at[o] \/ i = at[o]
        BY <1>b, <4>2
      <4> QED BY <2>1, <4>1, <4>3 DEF Past
    <3>2. CASE ~(at[o] < Len(WriteOrder))
      <4>1. pc[o] \in Writing
        BY <2>1 DEF Write, SkipTable, Writing
      <4>2. i < at[o] \/ i = at[o]
        BY <1>b, <3>2
      <4> QED BY <2>1, <4>1, <4>2 DEF Past
    <3> QED BY <3>1, <3>2
  <2>2. CASE LookUp(o)
    BY <2>0, <2>2, <1>b DEF LookUp, Goto, Past, Writing, Closing
  <2>3. CASE WriteFails(o)
    BY <2>0, <2>3, <1>b DEF WriteFails, ToFailureBranch, Goto, Past, Writing, Closing
  <2>4. CASE FinalizeSuccess(o) \/ RecordSuccessFails(o) \/ RecordSuccess(o)
    BY <2>4 DEF FinalizeSuccess, RecordSuccessFails, RecordSuccess, Past, Closing
  <2>5. CASE ReadControl(o) \/ ReadTerminals(o)
    BY <2>0, <2>5, <1>b DEF ReadControl, ReadTerminals, Goto, Past, Writing, Closing
  <2>6. CASE Prepare(o)
    <3>1. pc'[o] \notin Closing /\ (pc'[o] \in Writing => at'[o] = 1)
      BY <2>6, <1>b DEF Prepare, ToFailureBranch, Goto, Forget, Writing, Closing
    <3> QED BY <2>0, <3>1, <1>b
  <2>7. ASSUME NEW how \in Ended, End(o, how) PROVE FALSE
    BY <2>0, <2>7, <1>b DEF End, Goto, Ended, Writing, Closing
  <2>8. ~(FailureNodeFails(o) \/ RecordFailure(o) \/ HardStop(o))
    BY <2>7 DEF FailureNodeFails, RecordFailure, HardStop, Ended
  <2>9. ~FinalizeFailure(o)
    BY <2>0, <2>7, <1>b DEF FinalizeFailure, Goto, Ended, Writing, Closing
  <2>10. ~RecordFailureFails(o)
    BY <2>0, <2>7, <1>b DEF RecordFailureFails, Ended, Writing, Closing
  <2>11. ~(Initialize(o) \/ Fetch(o) \/ ReadTable(o) \/ NodeFails(o))
    BY <2>0, <1>b DEF Initialize, Fetch, ReadTable, NodeFails, ToFailureBranch, Goto, Writing, Closing
  <2> QED BY <1>4, <2>1, <2>2, <2>3, <2>4, <2>5, <2>6, <2>8, <2>9, <2>10, <2>11 DEF Step
<1>5. ASSUME Step(o) \/ HardStop(o), Recording(o)'
      PROVE  Past(o, i)
  BY <1>5, <1>2 DEF Past
<1> QED BY <1>1, <1>3, <1>4, <1>5, StepCases

LEMMA WrittenTablesStep == ASSUME IInv, [Next]_vars PROVE WrittenTables'
<1>a. TypeOK /\ GenuineBatches /\ OwnMatches /\ WrittenTables /\ SuccessInPlace
  BY DEF IInv
<1> SUFFICES ASSUME NEW o \in Runs, NEW i \in 1 .. Len(WriteOrder),
                    WriteOrder[i] \in DatedTables, Past(o, i)'
             PROVE  NewRows(snap'[o], o, WriteOrder[i]) \subseteq sheets'[WriteOrder[i]]
  BY DEF WrittenTables, NewRows
<1> DEFINE t == WriteOrder[i]
           N == NewRows(snap[o], o, t)
<1>b. /\ sheets \in [Tables -> SUBSET Row] /\ t \in Tables
      /\ snap[o] \in Snapshots \cup {NoSnapshot}
  BY <1>a, WriteOrderFacts DEF TypeOK
<1>1. Past(o, i) \/ (i = at[o] /\ (Write(o) \/ SkipTable(o)))
  BY PastStep
<1>2. pc[o] \notin {"idle", "fetch"}
  <2>1. CASE Recording(o)
    BY <1>a, <2>1 DEF Recording, SuccessInPlace, Stamped, Ended
  <2>2. CASE ~Recording(o)
    BY <1>1, <2>2 DEF Past, Write, SkipTable, Closing, Writing
  <2> QED BY <2>1, <2>2
<1>3. snap'[o] = snap[o]
  BY <1>a, <1>2, SnapshotKept
<1>4. \A b \in N : b.born = o /\ b \in Row
  BY <1>b, NewRowsType DEF NewRows
<1>5. CASE sheets' = sheets
  <2>1. CASE Past(o, i)
    BY <1>a, <1>3, <1>5, <2>1 DEF WrittenTables
  <2>2. CASE i = at[o] /\ SkipTable(o)
    <3>1. N \subseteq batch[o][t] /\ batch[o][t] = {}
      BY <1>a, <1>b, <2>2 DEF GenuineBatches, SkipTable, Writing
    <3> QED BY <1>3, <3>1
  <2>3. CASE i = at[o] /\ Write(o)
    <3>1. pc[o] = "apply"
      BY <1>a, <2>3, WriteStep
    <3>2. N \subseteq batch[o][t] /\ \A p \in matched[o] : p.born = o
      BY <1>a, <1>b, <2>3, <3>1 DEF GenuineBatches, OwnMatches, Writing
    <3>3. sheets' = [sheets EXCEPT ![t] =
                       Upserted(sheets[t], batch[o][t], matched[o], o, {"update", "append"})]
      BY <2>3 DEF Write, Apply
    <3>4. batch[o][t] \in SUBSET Row
      BY <1>a, <1>b DEF TypeOK
    <3>5. N \subseteq Upserted(sheets[t], batch[o][t], matched[o], o, {"update", "append"})
      BY <1>4, <3>2, <3>4, UpsertedStores
    <3> QED BY <1>b, <1>3, <3>3, <3>5
  <2> QED BY <1>1, <2>1, <2>2, <2>3
<1>6. ASSUME NEW r \in Runs, Write(r) \/ WriteFails(r)
      PROVE  NewRows(snap'[o], o, t) \subseteq sheets'[t]
  <2>1. pc[r] = "apply"
    BY <1>a, <1>6, WriteStep
  <2>2. PICK calls :
          /\ sheets' = [sheets EXCEPT ![WriteOrder[at[r]]] =
                          Upserted(sheets[WriteOrder[at[r]]], batch[r][WriteOrder[at[r]]],
                                   matched[r], r, calls)]
          /\ Write(r) => calls = {"update", "append"}
    BY <1>a, <1>6, WriteStep
  <2>3. CASE WriteOrder[at[r]] # t
    <3>1. sheets'[t] = sheets[t]
      BY <1>b, <2>2, <2>3
    <3>2. ~(i = at[o] /\ (Write(o) \/ SkipTable(o)))
      <4>1. r # o => pc'[o] = pc[o] /\ at'[o] = at[o]
        BY <1>a, <1>6, OthersUnchanged DEF Step
      <4>2. SUFFICES ASSUME i = at[o], Write(o) \/ SkipTable(o), r # o PROVE FALSE
        BY <2>3
      <4>3. (pc'[o] = "write" /\ at'[o] # at[o]) \/ pc'[o] = "recheck"
        BY <1>a, <4>2 DEF Write, SkipTable, NextTable, Goto, TypeOK
      <4>4. pc[o] \in Writing
        BY <4>2 DEF Write, SkipTable, Writing
      <4> QED BY <4>1, <4>2, <4>3, <4>4 DEF Writing
    <3> QED BY <1>a, <1>1, <1>3, <3>1, <3>2 DEF WrittenTables
  <2>4. CASE WriteOrder[at[r]] = t
    <3>1. /\ sheets'[t] = Upserted(sheets[t], batch[r][t], matched[r], r, calls)
          /\ \A p \in matched[r] : p.born = r
          /\ batch[r][t] \in SUBSET Row
      BY <1>a, <1>b, <2>1, <2>2, <2>4 DEF OwnMatches, TypeOK
    <3>2. CASE r = o
      <4>1. i = at[o]
        BY <1>a, <2>4, <3>2, WriteOrderFacts DEF TypeOK
      <4>2. ~Past(o, i)
        <5>1. ~Recording(o)
          BY <1>a, <2>1, <3>2 DEF Recording, SuccessInPlace, Stamped, Ended
        <5>2. ~(i < at[o])
          BY <4>1
        <5> QED BY <2>1, <3>2, <5>1, <5>2 DEF Past, Closing
      <4>3. Write(o)
        BY <1>1, <2>1, <3>2, <4>2 DEF SkipTable
      <4>4. calls = {"update", "append"}
        BY <2>2, <3>2, <4>3
      <4>5. N \subseteq batch[o][t]
        BY <1>a, <1>b, <2>1, <3>2 DEF GenuineBatches, Writing
      <4>6. N \subseteq Upserted(sheets[t], batch[o][t], matched[o], o, {"update", "append"})
        BY <1>4, <3>1, <3>2, <4>5, UpsertedStores
      <4> QED BY <1>3, <3>1, <3>2, <4>4, <4>6
    <3>3. CASE r # o
      <4>1. Past(o, i)
        <5>1. pc'[o] = pc[o] /\ at'[o] = at[o]
          BY <1>a, <1>6, <3>3, OthersUnchanged DEF Step
        <5>2. ~(Write(o) \/ SkipTable(o))
          <6>1. ASSUME Write(o) \/ SkipTable(o)
                PROVE  pc[o] \in Writing /\ ((pc'[o] = "write" /\ at'[o] # at[o]) \/ pc'[o] = "recheck")
            BY <1>a, <6>1 DEF Write, SkipTable, NextTable, Goto, TypeOK, Writing
          <6> QED BY <5>1, <6>1 DEF Writing
        <5> QED BY <1>1, <5>2
      <4>2. N \subseteq sheets[t]
        BY <1>a, <4>1 DEF WrittenTables
      <4>3. N \subseteq Upserted(sheets[t], batch[r][t], matched[r], r, calls)
        BY <1>b, <1>4, <3>1, <3>3, <4>2, UpsertedKeeps
      <4> QED BY <1>3, <3>1, <4>3
    <3> QED BY <3>2, <3>3
  <2> QED BY <2>3, <2>4
<1> QED BY <1>5, <1>6, StepCases, SheetsStep

-----------------------------------------------------------------------------
(* The theorems.                                                           *)

LEMMA IInvInit == Init => IInv
BY TypeInit DEF Init, IInv, GenuineRows, GenuineBatches, OwnMatches, WrittenTables, SuccessInPlace,
                Past, Recording, Successful, NoRows, Writing, Closing

LEMMA IInvStep == ASSUME IInv, [Next]_vars PROVE IInv'
<1>1. TypeOK
  BY DEF IInv
<1> QED BY <1>1, TypeStep, GenuineRowsStep, GenuineBatchesStep, OwnMatchesStep, WrittenTablesStep,
           SuccessInPlaceStep DEF IInv

\* The rows stored for every run are its snapshot's and, once it has passed a
\* dated table, all of them: the invariant the other theorems follow from.
THEOREM Inductive == Spec => []IInv
BY IInvInit, IInvStep, PTL DEF Spec

\* The dated rows of a recorded success are those its run prepared.
LEMMA SuccessRows ==
  ASSUME IInv, NEW x \in Successful(terminals), NEW t \in Tables \cap DatedTables
  PROVE  RowsOf(sheets[t], x.run) = NewRows(snap[x.run], x.run, t) /\ x.run \in Runs
<1>1. x.run \in Runs /\ Recording(x.run)
  BY DEF IInv, TypeOK, Terminal, Successful, Recording
<1>2. NewRows(snap[x.run], x.run, t) \subseteq RowsOf(sheets[t], x.run)
  <2>1. PICK i \in 1 .. Len(WriteOrder) : t = WriteOrder[i]
    BY WriteOrderFacts
  <2>2. NewRows(snap[x.run], x.run, t) \subseteq sheets[t]
    BY <1>1, <2>1 DEF IInv, WrittenTables, Past
  <2> QED BY <2>2 DEF RowsOf, NewRows
<1>3. ASSUME NEW row \in RowsOf(sheets[t], x.run)
      PROVE  row \in NewRows(snap[x.run], x.run, t)
  <2>1. row \in Row /\ row \in sheets[t] /\ row.run = x.run
    BY DEF IInv, TypeOK, RowsOf
  <2>2. row.active /\ row.born = row.run /\ row.key \in Stored(snap[row.run], t)
    BY <2>1 DEF IInv, GenuineRows, Genuine
  <2>3. row = [key |-> row.key, born |-> x.run, run |-> x.run, active |-> TRUE]
    BY <2>1, <2>2 DEF Row
  <2> QED BY <2>1, <2>2, <2>3 DEF NewRows
<1> QED BY <1>1, <1>2, <1>3

LEMMA SuccessRowsNext ==
  IInv' => \A x \in Successful(terminals') : \A t \in Tables \cap DatedTables :
             RowsOf(sheets'[t], x.run) = NewRows(snap'[x.run], x.run, t)
<1>1. IInv => \A x \in Successful(terminals) : \A t \in Tables \cap DatedTables :
                RowsOf(sheets[t], x.run) = NewRows(snap[x.run], x.run, t)
  BY SuccessRows
<1>2. (IInv => \A x \in Successful(terminals) : \A t \in Tables \cap DatedTables :
                 RowsOf(sheets[t], x.run) = NewRows(snap[x.run], x.run, t))'
  BY <1>1, PTL
<1> QED BY <1>2 DEF Successful, RowsOf, NewRows

\* A recorded success holds, in every dated table, exactly the rows of the
\* snapshot its run fetched.
THEOREM SuccessIsExact == Spec => []AcceptedExact
<1>1. IInv => AcceptedExact
  <2> SUFFICES ASSUME IInv, NEW x \in Successful(terminals), NEW t \in Tables \cap DatedTables
               PROVE  /\ KeysOf(RowsOf(sheets[t], x.run)) = Stored(snap[x.run], t)
                      /\ Cardinality(RowsOf(sheets[t], x.run)) = Cardinality(Stored(snap[x.run], t))
    BY DEF AcceptedExact
  <2>1. RowsOf(sheets[t], x.run) = NewRows(snap[x.run], x.run, t) /\ x.run \in Runs
    BY SuccessRows
  <2>2. snap[x.run] \in Snapshots \cup {NoSnapshot}
    BY <2>1 DEF IInv, TypeOK
  <2> QED BY <2>1, <2>2, NewRowsFacts
<1> QED BY <1>1, Inductive, PTL

\* No step rewrites a recorded success or its dated rows.
THEOREM HistoryIsImmutable == Spec => HistoryImmutable
<1>1. ASSUME IInv, IInv', [Next]_vars,
             NEW x \in Successful(terminals)
      PROVE  /\ x \in terminals'
             /\ \A t \in Tables \cap DatedTables :
                  RowsOf(sheets'[t], x.run) = RowsOf(sheets[t], x.run)
  <2>1. x.run \in Runs /\ pc[x.run] \in Stamped /\ TypeOK
    BY <1>1 DEF IInv, TypeOK, Terminal, Successful, SuccessInPlace
  <2>2. x \in terminals'
    <3>1. ASSUME NEW r \in Runs, Step(r) \/ HardStop(r), terminals' # terminals
          PROVE  x \in terminals'
      <4>1. CASE pc[r] = "record" /\ terminals' = Recorded(SuccessRow(r))
        BY <1>1, <4>1 DEF IInv, SuccessInPlace, Recorded, SuccessRow, Successful
      <4>2. CASE pc[r] = "record failure" /\ terminals' = Recorded(FailedRow(r))
        BY <2>1, <4>2 DEF Recorded, FailedRow, Stamped, Ended, Successful
      <4> QED BY <2>1, <3>1, <4>1, <4>2, TerminalsStep
    <3> QED BY <1>1, <3>1, StepCases DEF Successful
  <2>3. snap'[x.run] = snap[x.run]
    BY <1>1, <2>1, SnapshotKept DEF Stamped, Ended
  <2>4. ASSUME NEW t \in Tables \cap DatedTables
        PROVE  RowsOf(sheets'[t], x.run) = RowsOf(sheets[t], x.run)
    <3>1. RowsOf(sheets[t], x.run) = NewRows(snap[x.run], x.run, t)
      BY <1>1, SuccessRows
    <3>2. x \in Successful(terminals')
      BY <1>1, <2>2 DEF Successful
    <3>3. RowsOf(sheets'[t], x.run) = NewRows(snap'[x.run], x.run, t)
      BY <1>1, <3>2, SuccessRowsNext
    <3> QED BY <2>3, <3>1, <3>3
  <2> QED BY <2>2, <2>4
<1>2. IInv /\ IInv' /\ [Next]_vars =>
        [ \A x \in Successful(terminals) :
            /\ x \in terminals'
            /\ \A t \in Tables \cap DatedTables : RowsOf(sheets'[t], x.run) = RowsOf(sheets[t], x.run)
        ]_vars
  BY <1>1
<1> QED BY <1>2, Inductive, PTL DEF Spec, HistoryImmutable
=============================================================================

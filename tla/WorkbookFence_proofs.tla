------------------------ MODULE WorkbookFence_proofs ------------------------
(***************************************************************************)
(* What a run may write: nothing as a success once its writer has been     *)
(* replaced before its recheck, nothing outside of control while the       *)
(* operator waits for executions, and no inactivation without evidence.    *)
(***************************************************************************)
EXTENDS WorkbookHistory_proofs

\* An execution keeps its writer generation once it has started.
LEMMA GenerationKept ==
  ASSUME TypeOK, NEW r \in Runs, Step(r) \/ HardStop(r), pc[r] # "idle"
  PROVE  generation' = generation /\ control' = control /\ fenced' = fenced
BY DEF Step, HardStop, Initialize, Fetch, ReadControl, ReadTerminals, ReadTable, NodeFails, Prepare,
       SkipTable, LookUp, Write, WriteFails, FinalizeSuccess, RecordSuccess, RecordSuccessFails,
       FailureNodeFails, FinalizeFailure, RecordFailure, RecordFailureFails, End, workbook

\* Only the recheck leads to the finalization of a success, which needs what
\* it read.
LEMMA TowardsSuccess ==
  ASSUME TypeOK, NEW r \in Runs, Step(r) \/ HardStop(r), pc[r] # "idle"
  PROVE  /\ pc'[r] # "idle"
         /\ pc'[r] = "record" => \/ pc[r] = "record"
                                 \/ pc[r] = "finalize" /\ ControlAllows(read[r].control, r)
         /\ pc'[r] \in {"recheck terminals", "finalize"} =>
              \/ pc[r] = "recheck" /\ read'[r].control = control
              \/ pc[r] = "recheck terminals" /\ read'[r].control = read[r].control
<1> DEFINE Goal ==
      /\ pc'[r] # "idle"
      /\ pc'[r] = "record" => \/ pc[r] = "record"
                              \/ pc[r] = "finalize" /\ ControlAllows(read[r].control, r)
      /\ pc'[r] \in {"recheck terminals", "finalize"} =>
           \/ pc[r] = "recheck" /\ read'[r].control = control
           \/ pc[r] = "recheck terminals" /\ read'[r].control = read[r].control
<1>a. pc \in [Runs -> Labels] /\ read \in [Runs -> ReadResult]
  BY DEF TypeOK
<1>1. CASE Initialize(r) \/ Fetch(r) \/ LookUp(r) \/ ReadTable(r)
  BY <1>1, <1>a DEF Initialize, Fetch, LookUp, ReadTable, Goto
<1>2. CASE ReadControl(r) \/ ReadTerminals(r)
  BY <1>2, <1>a DEF ReadControl, ReadTerminals, Goto, ReadResult
<1>3. ASSUME ToFailureBranch(r) PROVE pc'[r] = "fail control"
  BY <1>3, <1>a DEF ToFailureBranch, Goto
<1>4. ASSUME NEW how \in Ended, End(r, how) PROVE pc'[r] \in Ended
  BY <1>4, <1>a DEF End, Goto
<1>5. ASSUME NextTable(r) PROVE pc'[r] \in {"write", "recheck"}
  BY <1>5, <1>a DEF NextTable, Goto
<1>6. CASE NodeFails(r) \/ Prepare(r)
  BY <1>6, <1>3, <1>a DEF NodeFails, Prepare, Goto
<1>7. CASE SkipTable(r) \/ Write(r) \/ WriteFails(r)
  BY <1>7, <1>3, <1>5, <1>a DEF SkipTable, Write, WriteFails, Goto
<1>8. CASE FinalizeSuccess(r)
  BY <1>8, <1>3, <1>a DEF FinalizeSuccess, Goto
<1>9. CASE RecordSuccessFails(r)
  BY <1>9, <1>3, <1>a DEF RecordSuccessFails
<1>10. CASE RecordSuccess(r) \/ FailureNodeFails(r) \/ RecordFailure(r) \/ HardStop(r)
  BY <1>10, <1>4 DEF RecordSuccess, FailureNodeFails, RecordFailure, HardStop, Ended
<1>11. CASE FinalizeFailure(r)
  BY <1>11, <1>4, <1>a DEF FinalizeFailure, Goto, Ended
<1>12. CASE RecordFailureFails(r)
  BY <1>12, <1>4, <1>a DEF RecordFailureFails, Ended
<1> QED
  BY <1>1, <1>2, <1>6, <1>7, <1>8, <1>9, <1>10, <1>11, <1>12 DEF Step

\* Only an execution about to record a success stores one of its own.
LEMMA NewSuccess ==
  ASSUME TypeOK, NEW r \in Runs, Step(r) \/ HardStop(r), NEW o \in Runs, pc[o] # "record"
  PROVE  Recording(o)' => Recording(o)
<1> SUFFICES ASSUME NEW x \in terminals', x.status = "SUCCESS", x.run = o
             PROVE  x \in terminals
  BY DEF Recording, Successful
<1>1. CASE pc[r] = "record" /\ terminals' = Recorded(SuccessRow(r))
  BY <1>1 DEF Recorded, SuccessRow
<1>2. CASE pc[r] = "record failure" /\ terminals' = Recorded(FailedRow(r))
  <2>1. FailedRow(r).status = "FAILED"
    BY DEF FailedRow
  <2> QED BY <1>2, <2>1 DEF Recorded
<1> QED BY <1>1, <1>2, TerminalsStep

\* Nobody is replaced before anybody has started.
LEMMA FenceInit == Init => Fence
BY DEF Init, Fence

\* Every step keeps a replaced run away from success.
LEMMA FenceStep == ASSUME IInv, Fence, [Next]_vars PROVE Fence'
<1>a. TypeOK BY DEF IInv
<1>1. CASE UNCHANGED vars
  BY <1>1 DEF Fence, Recording, Successful, vars, workbook, local
<1>2. CASE SwitchState \/ Configure
  <2>1. UNCHANGED <<terminals, pc, local, fenced>> /\ control'.generation = control.generation
    BY <1>2, <1>a DEF SwitchState, Configure, workbook, TypeOK
  <2> QED BY <2>1 DEF Fence, Recording, Successful, local
<1>3. CASE ReplaceWriter
  <2>1. /\ UNCHANGED <<terminals, pc, generation, read>>
        /\ control'.generation = control.generation + 1
        /\ control.generation \in Nat /\ generation \in [Runs -> Nat] /\ fenced \subseteq Runs
    BY <1>3, <1>a, BoundsAssumption DEF ReplaceWriter, TypeOK, local
  <2>2. ASSUME NEW r \in fenced
        PROVE  /\ generation[r] < control.generation + 1
               /\ pc[r] \notin {"idle", "record"}
               /\ pc[r] \in {"recheck terminals", "finalize"} => generation[r] < read[r].control.generation
               /\ ~Recording(r)
    <3>1. generation[r] \in Nat /\ generation[r] < control.generation
      BY <2>1 DEF Fence
    <3>2. generation[r] < control.generation + 1
      BY <2>1, <3>1
    <3> QED BY <3>2, Zenon DEF Fence
  <2>3. ASSUME NEW r \in InProgress, generation[r] <= control.generation,
               pc[r] \in Reading \cup {"prepare"} \cup Writing \cup {"recheck"}
        PROVE  /\ generation[r] < control.generation + 1
               /\ pc[r] \notin {"idle", "record"}
               /\ pc[r] \in {"recheck terminals", "finalize"} => generation[r] < read[r].control.generation
               /\ ~Recording(r)
    <3>1. r \in Runs /\ generation[r] \in Nat
      BY <2>1, <2>3 DEF InProgress
    <3>2. pc[r] \notin Stamped \cup {"idle", "record", "recheck terminals", "finalize"}
      BY <2>3 DEF Stamped, Ended, Reading, Writing
    <3>3. ~Recording(r)
      BY <3>2 DEF Recording, IInv, SuccessInPlace
    <3>4. generation[r] < control.generation + 1
      BY <2>1, <2>3, <3>1
    <3> QED BY <3>2, <3>3, <3>4, Zenon
  <2>4. fenced' \subseteq fenced \cup { r \in InProgress : /\ generation[r] <= control.generation
                 /\ pc[r] \in Reading \cup {"prepare"} \cup Writing \cup {"recheck"} }
    BY <1>3 DEF ReplaceWriter
  <2> QED BY <2>1, <2>2, <2>3, <2>4 DEF Fence, Recording, Successful
<1>4. ASSUME NEW r \in Runs, Step(r) \/ HardStop(r)
      PROVE  Fence'
  <2>1. CASE pc[r] = "idle"
    <3>1. r \notin fenced /\ Initialize(r)
      BY <1>4, <2>1, <1>a DEF Fence, Step, HardStop, InProgress, Ended, Fetch, ReadControl,
         ReadTerminals, ReadTable, NodeFails, Reading, Prepare, SkipTable, LookUp, Write, WriteFails,
         FinalizeSuccess, RecordSuccess, RecordSuccessFails, FailureNodeFails, FinalizeFailure,
         RecordFailure, RecordFailureFails
    <3>2. fenced' = fenced /\ control' = control /\ terminals' = terminals /\ read' = read
      BY <3>1 DEF Initialize, workbook
    <3>3. \A o \in fenced : o # r /\ pc'[o] = pc[o] /\ generation'[o] = generation[o]
      BY <1>4, <3>1, <1>a, OthersUnchanged DEF TypeOK
    <3> QED BY <3>2, <3>3 DEF Fence, Recording, Successful
  <2>2. CASE pc[r] # "idle"
    <3>1. generation' = generation /\ control' = control /\ fenced' = fenced
      BY <1>4, <2>2, <1>a, GenerationKept
    <3>2. ASSUME NEW o \in fenced, o # r
          PROVE  o \in Runs /\ pc'[o] = pc[o] /\ read'[o] = read[o] /\ ~Recording(o)'
      <4>1. o \in Runs BY <1>a DEF TypeOK
      <4>2. pc[o] # "record" /\ ~Recording(o) BY DEF Fence
      <4> QED BY <1>4, <3>2, <4>1, <4>2, <1>a, OthersUnchanged, NewSuccess
    <3>3. ASSUME r \in fenced
          PROVE  /\ pc'[r] \notin {"idle", "record"}
                 /\ pc'[r] \in {"recheck terminals", "finalize"} => generation[r] < read'[r].control.generation
                 /\ ~Recording(r)'
      <4>1. /\ generation[r] < control.generation /\ pc[r] # "record" /\ ~Recording(r)
            /\ pc[r] \in {"recheck terminals", "finalize"} => generation[r] < read[r].control.generation
        BY <3>3 DEF Fence
      <4>2. ~Recording(r)'
        BY <1>4, <4>1, <1>a, NewSuccess
      <4>3. pc[r] = "finalize" => ~ControlAllows(read[r].control, r)
        <5>1. generation[r] \in Int
          BY <1>a, BoundsAssumption DEF TypeOK
        <5> QED BY <4>1, <5>1 DEF ControlAllows
      <4> QED BY <1>4, <2>2, <1>a, <4>1, <4>2, <4>3, TowardsSuccess
    <3> QED BY <3>1, <3>2, <3>3 DEF Fence
  <2> QED BY <2>1, <2>2
<1> QED BY <1>1, <1>2, <1>3, <1>4 DEF Next, Operator

\* A replaced writer that had not yet rechecked control when it was replaced
\* never records a success, whatever it had read before.
THEOREM ReplacedWriterIsFenced == Spec => []FencedNeverSucceeds
<1>1. Fence => FencedNeverSucceeds
  BY DEF Fence, FencedNeverSucceeds, Recording
<1>2. IInv /\ Fence /\ [Next]_vars => Fence'
  BY FenceStep
<1> QED BY <1>1, <1>2, FenceInit, Inductive, PTL DEF Spec

-----------------------------------------------------------------------------
(* Control, when the operator waits for the executions to end.             *)

\* Nodes reached from a control read, before anything else is read of it.
Knowing == {"read terminals", "read tables", "prepare", "recheck terminals", "finalize",
            "fail terminals", "fail finalize"}

\* Nodes behind a check of control.
Allowed == Writing \cup Closing \cup {"record failure"}

\* What a run knows of control is what control is, and it allows whoever is
\* past a check.
Controlled ==
  \A r \in Runs : /\ pc[r] \in Knowing => read[r].control = control
                  /\ pc[r] \in Allowed => ControlAllows(control, r)

\* A run learns control by reading it, and gets past a check by what it knows.
LEMMA ControlStep ==
  ASSUME TypeOK, NEW r \in Runs, Step(r) \/ HardStop(r)
  PROVE  /\ control' = control
         /\ pc'[r] \in Knowing => \/ read'[r].control = control
                                  \/ pc[r] \in Knowing /\ read'[r].control = read[r].control
         /\ pc'[r] \in Allowed =>
              /\ generation'[r] = generation[r]
              /\ \/ pc[r] \in Allowed
                 \/ pc[r] \in Knowing /\ ControlAllows(read[r].control, r)
<1> DEFINE Learns == pc'[r] \in Knowing => \/ read'[r].control = control
                                           \/ pc[r] \in Knowing /\ read'[r].control = read[r].control
           Checks == pc'[r] \in Allowed =>
                       /\ generation'[r] = generation[r]
                       /\ \/ pc[r] \in Allowed
                          \/ pc[r] \in Knowing /\ ControlAllows(read[r].control, r)
<1>a. pc \in [Runs -> Labels] /\ read \in [Runs -> ReadResult]
  BY DEF TypeOK
<1>0. control' = control
  BY DEF Step, HardStop, Initialize, Fetch, ReadControl, ReadTerminals, ReadTable, NodeFails, Prepare,
         SkipTable, LookUp, Write, WriteFails, FinalizeSuccess, RecordSuccess, RecordSuccessFails,
         FailureNodeFails, FinalizeFailure, RecordFailure, RecordFailureFails, workbook
<1>1. ASSUME Initialize(r) \/ Fetch(r) \/ LookUp(r)
      PROVE  Learns /\ Checks
  BY <1>1, <1>a DEF Initialize, Fetch, LookUp, Goto, Knowing, Allowed, Writing, Closing
<1>2. ASSUME ReadControl(r)
      PROVE  Learns /\ Checks
  BY <1>2, <1>a DEF ReadControl, Goto, ReadResult, Knowing, Allowed, Writing, Closing
<1>3. ASSUME ReadTerminals(r) \/ ReadTable(r)
      PROVE  Learns /\ Checks
  <2>1. read'[r].control = read[r].control
    BY <1>3, <1>a DEF ReadTerminals, ReadTable, ReadResult
  <2>2. pc[r] \in Knowing /\ generation' = generation
    BY <1>3 DEF ReadTerminals, ReadTable, Knowing
  <2>3. pc'[r] \in Allowed => pc[r] \in Allowed
    BY <1>3, <1>a DEF ReadTerminals, ReadTable, Goto, Allowed, Writing, Closing
  <2> QED BY <2>1, <2>2, <2>3
<1>4. ASSUME ToFailureBranch(r) PROVE Learns /\ Checks
  <2>1. pc'[r] = "fail control"
    BY <1>4, <1>a DEF ToFailureBranch, Goto
  <2> QED BY <2>1 DEF Knowing, Allowed, Writing, Closing
<1>5. ASSUME NEW how \in Ended, End(r, how) PROVE Learns /\ Checks
  <2>1. pc'[r] \in Ended
    BY <1>5, <1>a DEF End, Goto
  <2> QED BY <2>1 DEF Knowing, Allowed, Writing, Closing, Ended
<1>6. ASSUME NodeFails(r)
      PROVE  Learns /\ Checks
  BY <1>6, <1>4 DEF NodeFails
<1>7. ASSUME Prepare(r)
      PROVE  Learns /\ Checks
  BY <1>7, <1>4, <1>a DEF Prepare, Goto, Knowing, Allowed, Writing, Closing
<1>8. ASSUME SkipTable(r) \/ Write(r)
      PROVE  Learns /\ Checks
  <2>1. pc[r] \in Writing /\ pc'[r] \in {"write", "recheck"} /\ generation' = generation
    BY <1>8, <1>a DEF SkipTable, Write, NextTable, Goto, Writing
  <2> QED BY <2>1 DEF Knowing, Allowed, Writing, Closing
<1>9. ASSUME WriteFails(r)
      PROVE  Learns /\ Checks
  BY <1>9, <1>4, <1>a DEF WriteFails, Goto, Knowing, Allowed, Writing, Closing
<1>10. ASSUME FinalizeSuccess(r)
      PROVE  Learns /\ Checks
  BY <1>10, <1>4, <1>a DEF FinalizeSuccess, Goto, Knowing, Allowed, Writing, Closing
<1>11. ASSUME RecordSuccessFails(r)
      PROVE  Learns /\ Checks
  BY <1>11, <1>4, <1>a DEF RecordSuccessFails, Knowing, Allowed, Writing, Closing
<1>12. ASSUME RecordSuccess(r) \/ FailureNodeFails(r) \/ RecordFailure(r) \/ HardStop(r)
      PROVE  Learns /\ Checks
  BY <1>12, <1>5 DEF RecordSuccess, FailureNodeFails, RecordFailure, HardStop, Ended
<1>13. ASSUME FinalizeFailure(r)
      PROVE  Learns /\ Checks
  BY <1>13, <1>5, <1>a DEF FinalizeFailure, Goto, Ended, Knowing, Allowed, Writing, Closing
<1>14. ASSUME RecordFailureFails(r)
      PROVE  Learns /\ Checks
  BY <1>14, <1>5, <1>a DEF RecordFailureFails, Ended, Knowing, Allowed, Writing, Closing
<1> QED
  BY <1>0, <1>1, <1>2, <1>3, <1>6, <1>7, <1>8, <1>9, <1>10, <1>11, <1>12, <1>13, <1>14 DEF Step

\* The operator only acts when no run knows anything.
LEMMA ControlledStep == ASSUME Drain, TypeOK, Controlled, [Next]_vars PROVE Controlled'
<1>1. CASE UNCHANGED vars
  BY <1>1 DEF Controlled, ControlAllows, vars, local, workbook
<1>2. CASE Operator
  <2>1. InProgress = {} /\ pc' = pc
    BY <1>2 DEF Operator, SwitchState, ReplaceWriter, Configure, OperatorMayAct
  <2>2. \A r \in Runs : pc[r] \in {"idle"} \cup Ended
    BY <2>1 DEF InProgress
  <2>3. \A r \in Runs : pc'[r] \notin Knowing \cup Allowed
    BY <2>1, <2>2 DEF Ended, Knowing, Allowed, Writing, Closing
  <2> QED BY <2>3 DEF Controlled
<1>3. ASSUME NEW r \in Runs, Step(r) \/ HardStop(r)
      PROVE  Controlled'
  <2>1. control' = control
    BY <1>3, ControlStep
  <2>2. ASSUME NEW o \in Runs, o # r
        PROVE  /\ pc'[o] \in Knowing => read'[o].control = control
               /\ pc'[o] \in Allowed => ControlAllows(control, o)'
    BY <1>3, <2>1, <2>2, OthersUnchanged DEF Controlled, ControlAllows
  <2>3. pc'[r] \in Knowing => read'[r].control = control
    BY <1>3, ControlStep DEF Controlled
  <2>4. pc'[r] \in Allowed => ControlAllows(control, r)'
    BY <1>3, <2>1, ControlStep DEF Controlled, ControlAllows
  <2> QED BY <2>1, <2>2, <2>3, <2>4 DEF Controlled
<1> QED BY <1>1, <1>2, <1>3 DEF Next

\* As long as the operator waits for the executions to end, every row and
\* every terminal is written under the control that holds at that moment.
THEOREM WritesAreControlled == Drain => (Spec => WritesUnderControl)
<1> SUFFICES ASSUME Drain PROVE Spec => WritesUnderControl
  OBVIOUS
<1>1. Init => Controlled
  BY DEF Init, Controlled, Knowing, Allowed, Writing, Closing
<1>2. ASSUME TypeOK, Controlled, [Next]_vars, <<terminals, sheets>>' # <<terminals, sheets>>
      PROVE  \E r \in InProgress : control.state = "ACTIVE" /\ control.generation = generation[r]
  <2>1. PICK r \in Runs : Step(r) \/ HardStop(r)
    BY <1>2, StepCases
  <2>2. pc[r] \in {"record", "record failure", "apply"}
    <3>1. CASE terminals' # terminals
      BY <1>2, <2>1, <3>1, TerminalsStep
    <3>2. CASE sheets' # sheets
      BY <1>2, <2>1, <3>2, SheetsStep, WriteStep
    <3> QED BY <1>2, <3>1, <3>2
  <2>3. r \in InProgress /\ pc[r] \in Allowed
    BY <2>2 DEF InProgress, Ended, Allowed, Writing, Closing
  <2> QED BY <1>2, <2>3 DEF Controlled, ControlAllows
<1>3. TypeOK /\ Controlled /\ [Next]_vars =>
        (<<terminals, sheets>>' # <<terminals, sheets>> =>
           \E r \in InProgress : control.state = "ACTIVE" /\ control.generation = generation[r])
  BY <1>2
<1>4. TypeOK /\ Controlled /\ [Next]_vars => Controlled'
  BY ControlledStep
<1> QED BY <1>1, <1>3, <1>4, TypeCorrect, PTL DEF Spec, WritesUnderControl

-----------------------------------------------------------------------------
(* Evidence of absence.                                                    *)

\* An inactive row of a batch has a key that the complete collection lacks.
Absent ==
  \A r \in Runs : \A t \in Tables : \A b \in batch[r][t] :
    ~b.active => Permitted(snap[r].coverage, t) /\ b.key \notin Stored(snap[r], t)

\* An upsert has an item for each row it matched.
Matched ==
  \A r \in Runs : pc[r] = "apply" =>
    \A p \in matched[r] : \E b \in batch[r][WriteOrder[at[r]]] : b.key = p.key

\* Absence is found when the batches are prepared and stays what it was.
LEMMA AbsentStep == ASSUME IInv, Absent, [Next]_vars PROVE Absent'
<1>a. TypeOK /\ GenuineBatches
  BY DEF IInv
<1> SUFFICES ASSUME NEW o \in Runs, NEW t \in Tables, NEW b \in batch'[o][t], ~b.active
             PROVE  Permitted(snap'[o].coverage, t) /\ b.key \notin Stored(snap'[o], t)
  BY DEF Absent, Stored
<1>1. CASE batch'[o] = batch[o]
  <2>1. pc[o] \notin {"idle", "fetch"}
    BY <1>a, <1>1 DEF GenuineBatches
  <2>2. snap'[o] = snap[o]
    BY <1>a, <2>1, SnapshotKept
  <2> QED BY <1>1, <2>2 DEF Absent
<1>2. CASE batch'[o] = NoRows
  BY <1>2 DEF NoRows
<1>3. CASE pc[o] = "prepare" /\ batch'[o] = Batches(snap[o], read[o], o)
  <2>1. snap'[o] = snap[o]
    BY <1>a, <1>3, SnapshotKept
  <2>2. b \in Inactivated(snap[o], read[o], t)
    BY <1>3 DEF Batches, NewRows
  <2>3. Permitted(snap[o].coverage, t)
    BY <2>2 DEF Inactivated
  <2>4. PICK x \in read[o].sheets[t] : b = [x EXCEPT !.active = FALSE] /\ x.key \notin Stored(snap[o], t)
    BY <2>2 DEF Inactivated, Active
  <2>5. x \in Row
    BY <1>a DEF TypeOK, ReadResult
  <2>6. b.key = x.key
    BY <2>4, <2>5 DEF Row
  <2> QED BY <2>1, <2>3, <2>4, <2>6
<1> QED BY <1>a, <1>1, <1>2, <1>3, BatchStep

\* Rows are matched for the batch that is then applied.
LEMMA MatchedStep == ASSUME IInv, Matched, [Next]_vars PROVE Matched'
<1>a. TypeOK
  BY DEF IInv
<1> SUFFICES ASSUME NEW o \in Runs, pc'[o] = "apply", NEW p \in matched'[o]
             PROVE  \E b \in batch'[o][WriteOrder[at'[o]]] : b.key = p.key
  BY DEF Matched
<1> DEFINE t == WriteOrder[at[o]]
<1>1. at'[o] = at[o] /\ (LookUp(o) \/ (pc[o] = "apply" /\ matched'[o] = matched[o]))
  BY <1>a, MatchStep
<1>2. batch'[o] = batch[o]
  <2>1. pc[o] # "prepare"
    BY <1>1 DEF LookUp
  <2> QED BY <1>a, <2>1, BatchStep DEF Ended
<1>3. CASE pc[o] = "apply" /\ matched'[o] = matched[o]
  BY <1>1, <1>2, <1>3 DEF Matched
<1>4. CASE LookUp(o)
  <2>1. PICK m \in SUBSET { x \in sheets[t] :
                             \E b \in batch[o][t] : UniqueKey(t, b) = UniqueKey(t, x) } :
          matched' = [matched EXCEPT ![o] = { [key |-> x.key, born |-> x.born] : x \in m }]
    BY <1>4 DEF LookUp
  <2>2. p \in { [key |-> x.key, born |-> x.born] : x \in m }
    BY <1>a, <2>1 DEF TypeOK
  <2>3. PICK x \in m : p.key = x.key
    BY <2>2
  <2>4. PICK b \in batch[o][t] : UniqueKey(t, b) = UniqueKey(t, x)
    BY <2>1
  <2>5. b.key = x.key
    BY <2>4 DEF UniqueKey
  <2> QED BY <1>1, <1>2, <2>3, <2>5
<1> QED BY <1>1, <1>3, <1>4

\* A key only ever stops being active by a write of a run whose complete
\* collection lacks it, however executions overlap and writes are retried.
THEOREM AbsenceIsEvident == Spec => InactivationNeedsEvidence
<1>1. Init => Absent /\ Matched
  BY DEF Init, Absent, Matched, NoRows
<1>2. IInv /\ Absent /\ Matched /\ [Next]_vars => (Absent /\ Matched)'
  BY AbsentStep, MatchedStep
<1>3. ASSUME IInv, Absent, Matched, [Next]_vars, NEW t \in CurrentTables,
             NEW k \in KeysOf(Active(sheets[t])) \ KeysOf(Active(sheets'[t]))
      PROVE  \E r \in InProgress : Permitted(snap[r].coverage, t) /\ k \notin Stored(snap[r], t)
  <2>a. /\ TypeOK /\ t \in Tables
        /\ sheets \in [Tables -> SUBSET Row] /\ batch \in [Runs -> [Tables -> SUBSET Row]]
    BY <1>3, WriteOrderAssumption DEF IInv, TypeOK
  <2>1. sheets' # sheets
    BY <1>3
  <2>2. PICK r \in Runs : Write(r) \/ WriteFails(r)
    BY <1>3, <2>1, StepCases, SheetsStep
  <2> DEFINE u == WriteOrder[at[r]]
  <2>3. pc[r] = "apply"
    BY <2>a, <2>2, WriteStep
  <2>4. PICK calls \in SUBSET {"update", "append"} :
          sheets' = [sheets EXCEPT ![u] = Upserted(sheets[u], batch[r][u], matched[r], r, calls)]
    BY <2>a, <2>2, WriteStep
  <2>5. u = t /\ sheets'[t] = Upserted(sheets[t], batch[r][t], matched[r], r, calls)
    BY <1>3, <2>a, <2>4
  <2>6. PICK row \in sheets[t] : row.active /\ row.key = k
    BY <1>3 DEF KeysOf, Active
  <2>7. row \notin sheets'[t]
    BY <1>3, <2>6 DEF KeysOf, Active
  <2>8. "update" \in calls /\ [key |-> row.key, born |-> row.born] \in matched[r]
    BY <2>5, <2>7 DEF Upserted
  <2>9. PICK b \in batch[r][t] : b.key = k
    BY <1>3, <2>3, <2>5, <2>6, <2>8 DEF Matched
  <2>10. b \in Row
    BY <2>a
  <2>11. ~b.active
    <3> DEFINE n == [b EXCEPT !.born = row.born]
    <3>1. n.key = k /\ n.active = b.active
      BY <2>9, <2>10 DEF Row
    <3>2. n \in sheets'[t]
      <4> DEFINE q == <<b, [key |-> row.key, born |-> row.born]>>
      <4>1. q \in { p \in batch[r][t] \X matched[r] : p[1].key = p[2].key }
        BY <2>6, <2>8, <2>9
      <4>2. n = [q[1] EXCEPT !.born = q[2].born]
        OBVIOUS
      <4> HIDE DEF n, q
      <4> QED BY <2>5, <2>8, <4>1, <4>2 DEF Upserted
    <3> QED BY <1>3, <3>1, <3>2 DEF KeysOf, Active
  <2>12. r \in InProgress
    BY <2>3 DEF InProgress, Ended
  <2> QED BY <1>3, <2>a, <2>9, <2>11, <2>12 DEF Absent
<1>4. IInv /\ Absent /\ Matched /\ [Next]_vars =>
        \A t \in CurrentTables :
          \A k \in KeysOf(Active(sheets[t])) \ KeysOf(Active(sheets'[t])) :
            \E r \in InProgress : Permitted(snap[r].coverage, t) /\ k \notin Stored(snap[r], t)
  BY <1>3
<1> QED BY <1>1, <1>2, <1>4, Inductive, PTL DEF Spec, InactivationNeedsEvidence
=============================================================================

----------------------- MODULE WorkbookReader_proofs ------------------------
(***************************************************************************)
(* What the reader makes of the workbook: the newest success is the one it *)
(* shows, the current tables it shows are that snapshot's, and rows        *)
(* nobody answers for come from runs that were cut off; and, where         *)
(* executions do not overlap, that a workbook without such rows is valid   *)
(* and a complete success is shown at once.                                *)
(***************************************************************************)
EXTENDS WorkbookHistory_proofs

-----------------------------------------------------------------------------
(* What holds besides IInv.                                                *)

\* Rows of a table: stored, read by a run, or in a batch of one.
Everywhere(t) == sheets[t] \cup UNION { read[r].sheets[t] \cup batch[r][t] : r \in Runs }

\* Every row, active or not, has a key of the snapshot of its observation.
OwnedRows ==
  \A t \in Tables : \A x \in Everywhere(t) :
    pc[x.run] \notin {"idle", "fetch"} /\ x.key \in Stored(snap[x.run], t)

\* A run with rows keeps its batches to the end, and ends with a terminal
\* that names its observation, unless it is cut off.
Explained ==
  \A t \in Tables : \A x \in Everywhere(t) :
    IF x.run \in InProgress THEN Prepared(x.run)
    ELSE pc[x.run] = "stopped" \/ \E y \in terminals : y.observed /\ y.run = x.run

\* A success names its observation; a failure is the last record of its run.
Records ==
  \A x \in terminals :
    IF x.status = "SUCCESS" THEN x.observed ELSE pc[x.run] \in {"record failure"} \cup Ended

\* The only terminal of its own that a run ever reads is its success.
OwnReads ==
  \A r \in Runs : \A x \in read[r].terminals :
    x.run = r => pc[r] = "fail finalize" /\ x \in terminals /\ x.observed

\* Whoever has got past the fetch without an error, and whoever has recorded
\* a success, has a snapshot of the bridge.
Going == {"read control", "read terminals", "read tables", "prepare"} \cup Writing \cup Closing

Fetched == \A r \in Runs : pc[r] \in Going \/ Recording(r) => snap[r] \in Snapshots

\* Completion instants are handed out once.
Stamps ==
  /\ \A r \in Runs : stamp[r] \in 0..clock /\ (pc[r] \in {"record", "record failure"} => stamp[r] # 0)
  /\ \A r, s \in Runs : r # s /\ stamp[r] = stamp[s] => stamp[r] = 0
  /\ \A x \in terminals :
       /\ x.completed \in 1..clock
       /\ \A r \in Runs : stamp[r] = x.completed => r = x.run
  /\ \A x, y \in terminals : x.completed = y.completed => x = y

\* Among any terminals one was completed last.
Ranked ==
  \A S \in SUBSET terminals : S # {} => \E x \in S : \A y \in S : y.completed <= x.completed

\* What the reader's properties rest on, besides IInv.
RInv == OwnedRows /\ Explained /\ Records /\ OwnReads /\ Fetched /\ Stamps /\ Ranked

-----------------------------------------------------------------------------
(* Reads.                                                                  *)

\* Nothing read: no terminals and no rows.
LEMMA NothingIsRead == NothingRead.terminals = {} /\ \A t \in Tables : NothingRead.sheets[t] = {}
<1>1. \A t \in Tables : NoRows[t] = {}
  BY DEF NoRows
<1>2. NothingRead.terminals = {} /\ NothingRead.sheets = NoRows
  BY DEF NothingRead
<1> QED BY <1>1, <1>2

\* A run forgets what it has read, reads on, or reads the terminals.
LEMMA ReadStep ==
  ASSUME TypeOK, NEW r \in Runs, Step(r) \/ HardStop(r)
  PROVE  \/ read'[r] = NothingRead
         \/ /\ pc[r] # "fail finalize" /\ read'[r].terminals = read[r].terminals
            /\ \A t \in Tables : read'[r].sheets[t] \in {read[r].sheets[t], sheets[t]}
         \/ /\ ReadTerminals(r) /\ read'[r].terminals = terminals
            /\ read'[r].sheets = read[r].sheets
<1> DEFINE Gone == read'[r] = NothingRead
           Kept == /\ pc[r] # "fail finalize" /\ read'[r].terminals = read[r].terminals
                   /\ \A t \in Tables : read'[r].sheets[t] \in {read[r].sheets[t], sheets[t]}
<1>a. pc \in [Runs -> Labels] /\ read \in [Runs -> ReadResult] /\ read[r] \in ReadResult
      /\ read[r].sheets \in [Tables -> SUBSET Row]
  BY DEF TypeOK, ReadResult
<1>b. Forget(r) => Gone
  BY <1>a DEF Forget
<1>1. CASE Initialize(r) \/ Fetch(r) \/ LookUp(r) \/ SkipTable(r) \/ Write(r)
  BY <1>1 DEF Initialize, Fetch, LookUp, SkipTable, Write
<1>2. CASE ReadControl(r)
  BY <1>2, <1>a DEF ReadControl, ReadResult
<1>3. CASE ReadTerminals(r)
  BY <1>3, <1>a DEF ReadTerminals, ReadResult
<1>4. CASE ReadTable(r)
  BY <1>4, <1>a DEF ReadTable, ReadResult
<1>5. CASE NodeFails(r) \/ Prepare(r) \/ FinalizeSuccess(r)
  BY <1>5, <1>b DEF NodeFails, Prepare, FinalizeSuccess, ToFailureBranch
<1>6. CASE WriteFails(r) \/ RecordSuccessFails(r) \/ RecordFailureFails(r)
  BY <1>6, <1>b DEF WriteFails, RecordSuccessFails, RecordFailureFails, ToFailureBranch, End
<1>7. CASE RecordSuccess(r) \/ FailureNodeFails(r) \/ FinalizeFailure(r) \/ RecordFailure(r) \/ HardStop(r)
  BY <1>7, <1>b DEF RecordSuccess, FailureNodeFails, FinalizeFailure, RecordFailure, HardStop, End
<1> QED BY <1>1, <1>2, <1>3, <1>4, <1>5, <1>6, <1>7 DEF Step

\* A run reads no terminal of its own before its failure branch, and then
\* only its success.
LEMMA OwnReadsStep ==
  ASSUME TypeOK, SuccessInPlace, Records, OwnReads, [Next]_vars
  PROVE  OwnReads'
<1> SUFFICES ASSUME NEW o \in Runs, NEW x \in read'[o].terminals, x.run = o
             PROVE  pc'[o] = "fail finalize" /\ x \in terminals' /\ x.observed
  BY DEF OwnReads
<1>a. pc \in [Runs -> Labels]
  BY DEF TypeOK
<1>1. CASE UNCHANGED <<terminals, sheets, pc, local>>
  BY <1>1 DEF local, OwnReads
<1>2. ASSUME NEW r \in Runs, Step(r) \/ HardStop(r), r # o
      PROVE  pc'[o] = "fail finalize" /\ x \in terminals' /\ x.observed
  <2>1. pc'[o] = pc[o] /\ read'[o] = read[o]
    BY <1>2, OthersUnchanged
  <2>2. pc[o] = "fail finalize" /\ x \in terminals /\ x.observed
    BY <2>1 DEF OwnReads
  <2>3. x \in terminals'
    BY <1>2, <2>2, TerminalsStep DEF Recorded, SuccessRow, FailedRow
  <2> QED BY <2>1, <2>2, <2>3
<1>3. ASSUME Step(o) \/ HardStop(o)
      PROVE  pc'[o] = "fail finalize" /\ x \in terminals' /\ x.observed
  <2>1. CASE read'[o] = NothingRead
    BY <2>1, NothingIsRead
  <2>2. CASE pc[o] # "fail finalize" /\ read'[o].terminals = read[o].terminals
    BY <2>2 DEF OwnReads
  <2>3. CASE ReadTerminals(o) /\ read'[o].terminals = terminals
    <3>1. pc[o] = "fail terminals" /\ x.status = "SUCCESS"
      BY <2>3 DEF ReadTerminals, Records, SuccessInPlace, Successful, Stamped, Ended
    <3> QED BY <1>a, <2>3, <3>1 DEF ReadTerminals, Goto, Records, workbook
  <2> QED BY <1>3, <2>1, <2>2, <2>3, ReadStep
<1> QED BY <1>1, <1>2, <1>3, StepCases

-----------------------------------------------------------------------------
(* Where rows come from.                                                   *)

\* What a table, a read or a batch has are rows.
LEMMA EverywhereType ==
  ASSUME TypeOK, NEW t \in Tables
  PROVE  Everywhere(t) \subseteq Row
<1>1. sheets[t] \subseteq Row
  BY DEF TypeOK
<1>2. ASSUME NEW r \in Runs
      PROVE  read[r].sheets[t] \subseteq Row /\ batch[r][t] \subseteq Row
  BY DEF TypeOK, ReadResult
<1> QED BY <1>1, <1>2 DEF Everywhere

\* The key and the observation of a row are those of one that was there, or
\* the row is one that a run has just prepared.
LEMMA RowsStep ==
  ASSUME TypeOK, [Next]_vars, NEW t \in Tables, NEW x \in Everywhere(t)'
  PROVE  \/ \E y \in Everywhere(t) : x.key = y.key /\ x.run = y.run
         \/ \E o \in Runs : /\ pc[o] = "prepare" /\ batch'[o] = Batches(snap[o], read[o], o)
                            /\ x \in NewRows(snap[o], o, t)
<1> DEFINE Old == \E y \in Everywhere(t) : x.key = y.key /\ x.run = y.run
           New == \E o \in Runs : /\ pc[o] = "prepare" /\ batch'[o] = Batches(snap[o], read[o], o)
                                  /\ x \in NewRows(snap[o], o, t)
<1>a. /\ sheets \in [Tables -> SUBSET Row] /\ batch \in [Runs -> [Tables -> SUBSET Row]]
      /\ matched \in [Runs -> SUBSET [key : Keys, born : Runs]]
      /\ \A o \in Runs : read[o].sheets \in [Tables -> SUBSET Row]
  BY DEF TypeOK, ReadResult
<1>1. CASE x \in sheets'[t]
  <2>1. CASE UNCHANGED <<terminals, sheets, pc, local>>
    BY <1>1, <2>1 DEF Everywhere
  <2>2. ASSUME NEW r \in Runs, Write(r) \/ WriteFails(r)
        PROVE  Old
    <3>1. PICK calls : sheets' = [sheets EXCEPT ![WriteOrder[at[r]]] =
                          Upserted(sheets[WriteOrder[at[r]]], batch[r][WriteOrder[at[r]]],
                                   matched[r], r, calls)]
      BY <2>2, WriteStep
    <3>2. CASE x \in sheets[t]
      BY <3>2 DEF Everywhere
    <3>3. CASE x \notin sheets[t]
      <4>1. /\ WriteOrder[at[r]] = t
            /\ x \in Upserted(sheets[t], batch[r][t], matched[r], r, calls)
        BY <1>1, <1>a, <3>1, <3>3
      <4>2. PICK b \in batch[r][t] : x.key = b.key /\ x.run = b.run
        BY <1>a, <3>3, <4>1, UpsertedFrom
      <4> QED BY <4>2 DEF Everywhere
    <3> QED BY <3>2, <3>3
  <2>3. CASE sheets' = sheets
    BY <1>1, <2>3 DEF Everywhere
  <2> QED BY <2>1, <2>2, <2>3, StepCases, SheetsStep
<1>2. ASSUME NEW o \in Runs, x \in read'[o].sheets[t]
      PROVE  Old
  <2>1. CASE UNCHANGED <<terminals, sheets, pc, local>>
    BY <1>2, <2>1 DEF local, Everywhere
  <2>2. ASSUME NEW r \in Runs, Step(r) \/ HardStop(r), r # o
        PROVE  Old
    <3>1. read'[o] = read[o]
      BY <2>2, OthersUnchanged
    <3> QED BY <1>2, <3>1 DEF Everywhere
  <2>3. ASSUME Step(o) \/ HardStop(o)
        PROVE  Old
    <3>1. x \in read[o].sheets[t] \/ x \in sheets[t]
      BY <1>2, <2>3, ReadStep, NothingIsRead
    <3> QED BY <3>1 DEF Everywhere
  <2> QED BY <2>1, <2>2, <2>3, StepCases
<1>3. ASSUME NEW o \in Runs, x \in batch'[o][t]
      PROVE  Old \/ New
  <2>1. CASE batch'[o] = batch[o]
    BY <1>3, <2>1 DEF Everywhere
  <2>2. CASE batch'[o] = NoRows
    BY <1>3, <2>2 DEF NoRows
  <2>3. CASE pc[o] = "prepare" /\ batch'[o] = Batches(snap[o], read[o], o)
    <3>1. CASE x \in NewRows(snap[o], o, t)
      BY <2>3, <3>1
    <3>2. CASE x \notin NewRows(snap[o], o, t)
      <4>1. x \in Inactivated(snap[o], read[o], t)
        BY <1>3, <2>3, <3>2 DEF Batches
      <4>2. PICK y \in read[o].sheets[t] : x = [y EXCEPT !.active = FALSE]
        BY <4>1 DEF Inactivated, Active
      <4>3. y \in Row
        BY <1>a, <4>2
      <4>4. x.key = y.key /\ x.run = y.run
        BY <4>2, <4>3 DEF Row
      <4> QED BY <4>2, <4>4 DEF Everywhere
    <3> QED BY <3>1, <3>2
  <2> QED BY <2>1, <2>2, <2>3, BatchStep
<1> QED BY <1>1, <1>2, <1>3 DEF Everywhere

\* No step makes a row for a key its observation does not have.
LEMMA OwnedRowsStep ==
  ASSUME TypeOK, OwnedRows, [Next]_vars
  PROVE  OwnedRows'
<1> SUFFICES ASSUME NEW t \in Tables, NEW x \in Everywhere(t)'
             PROVE  pc'[x.run] \notin {"idle", "fetch"} /\ x.key \in Stored(snap'[x.run], t)
  BY DEF OwnedRows, Stored
<1>1. ASSUME NEW y \in Everywhere(t), x.key = y.key, x.run = y.run
      PROVE  pc'[x.run] \notin {"idle", "fetch"} /\ x.key \in Stored(snap'[x.run], t)
  <2>1. y.run \in Runs
    BY EverywhereType DEF Row
  <2> QED BY <1>1, <2>1, SnapshotKept DEF OwnedRows
<1>2. ASSUME NEW o \in Runs, pc[o] = "prepare", x \in NewRows(snap[o], o, t)
      PROVE  pc'[x.run] \notin {"idle", "fetch"} /\ x.key \in Stored(snap'[x.run], t)
  BY <1>2, SnapshotKept DEF NewRows
<1> QED BY <1>1, <1>2, RowsStep

-----------------------------------------------------------------------------
(* How runs end, and what they leave.                                      *)

\* An execution in progress ends with a terminal of its own, or is cut off.
LEMMA EndStep ==
  ASSUME TypeOK, NEW r \in Runs, Step(r) \/ HardStop(r), pc'[r] \in Ended
  PROVE  /\ r \in InProgress
         /\ \/ pc'[r] = "stopped"
            \/ RecordSuccess(r)
            \/ RecordFailure(r)
            \/ pc[r] = "fail finalize" /\ OwnTerminal(r) /\ terminals' = terminals
<1>a. pc \in [Runs -> Labels]
  BY DEF TypeOK
<1>1. CASE FinalizeFailure(r)
  BY <1>1, <1>a DEF FinalizeFailure, End, Goto, workbook, Ended, InProgress
<1>2. CASE RecordFailureFails(r)
  BY <1>2, <1>a DEF RecordFailureFails, End, Goto, Ended, InProgress
<1>3. CASE FailureNodeFails(r) \/ HardStop(r)
  BY <1>3, <1>a DEF FailureNodeFails, HardStop, End, Goto, Ended, InProgress
<1>4. CASE RecordSuccess(r) \/ RecordFailure(r)
  BY <1>4 DEF RecordSuccess, RecordFailure, Ended, InProgress
<1>5. ~( \/ Initialize(r) \/ Fetch(r) \/ ReadControl(r) \/ ReadTerminals(r) \/ ReadTable(r) \/ LookUp(r))
  BY <1>a DEF Initialize, Fetch, ReadControl, ReadTerminals, ReadTable, LookUp, Goto, Ended, Reading
<1>6. ~(NodeFails(r) \/ Prepare(r) \/ FinalizeSuccess(r))
  BY <1>a DEF NodeFails, Prepare, FinalizeSuccess, ToFailureBranch, Goto, Ended, Reading
<1>7. ~(SkipTable(r) \/ Write(r))
  BY <1>a DEF SkipTable, Write, NextTable, Goto, Ended
<1>8. ~(WriteFails(r) \/ RecordSuccessFails(r))
  BY <1>a DEF WriteFails, RecordSuccessFails, ToFailureBranch, Goto, Ended
<1> QED BY <1>1, <1>2, <1>3, <1>4, <1>5, <1>6, <1>7, <1>8 DEF Step

\* Nothing happens to an execution that is over.
LEMMA EndedStays ==
  ASSUME TypeOK, [Next]_vars, NEW r \in Runs, pc[r] \in Ended
  PROVE  pc'[r] = pc[r]
<1>1. ~(Step(r) \/ HardStop(r))
  BY DEF Step, HardStop, Initialize, Fetch, ReadControl, ReadTerminals, ReadTable, NodeFails, Prepare,
         SkipTable, LookUp, Write, WriteFails, FinalizeSuccess, RecordSuccess, RecordSuccessFails,
         FailureNodeFails, FinalizeFailure, RecordFailure, RecordFailureFails, InProgress, Ended,
         Reading
<1> QED BY <1>1, StepCases, OthersUnchanged DEF local

\* A batch that has been prepared has the row of the observation.
LEMMA PreparedBatch ==
  ASSUME NEW r \in Runs, NEW s \in Snapshots, NEW e
  PROVE  Batches(s, e, r)["observations"] # {}
<1>1. "observations" \in Tables /\ "observations" \in SingleRow
  BY WriteOrderAssumption DEF SingleRow
<1>2. Input("observations") = "observations" /\ Permitted(s.coverage, "observations")
  BY DEF Input, Permitted
<1>3. Cardinality(s.rows["observations"]) = 1
  BY <1>1, SnapshotsAssumption DEF Snapshot
<1>4. Stored(s, "observations") # {}
  BY <1>2, <1>3, FS_EmptySet DEF Stored
<1>5. NewRows(s, r, "observations") # {}
  BY <1>4 DEF NewRows
<1> QED BY <1>1, <1>5 DEF Batches

\* What a run with rows owes its readers: a batch, then a terminal.
Answers(r) ==
  IF r \in InProgress THEN Prepared(r)
  ELSE pc[r] = "stopped" \/ \E y \in terminals : y.observed /\ y.run = r

\* A run that answers for rows does so until it has ended or was cut off.
LEMMA AnswersStep ==
  ASSUME TypeOK, OwnReads, Fetched, [Next]_vars, NEW r \in Runs, pc[r] \notin {"idle", "fetch"},
         Answers(r)
  PROVE  Answers(r)'
<1>a. pc'[r] \notin {"idle", "fetch"} /\ "observations" \in Tables
  BY SnapshotKept, WriteOrderAssumption
<1>1. CASE UNCHANGED <<terminals, sheets, pc, local>>
  BY <1>1 DEF local, Answers, Prepared, InProgress
<1>2. ASSUME NEW o \in Runs, Step(o) \/ HardStop(o), r # o
      PROVE  Answers(r)'
  <2>1. pc'[r] = pc[r] /\ batch'[r] = batch[r]
    BY <1>2, OthersUnchanged
  <2>2. \A y \in terminals : y.run = r => y \in terminals'
    BY <1>2, TerminalsStep DEF Recorded, SuccessRow, FailedRow
  <2> QED BY <2>1, <2>2 DEF Answers, Prepared, InProgress
<1>3. ASSUME Step(r) \/ HardStop(r)
      PROVE  Answers(r)'
  <2>1. CASE pc'[r] \in Ended
    <3>1. Prepared(r) /\ r \notin InProgress'
      BY <1>3, <2>1, EndStep DEF Answers, InProgress
    <3>2. CASE pc'[r] = "stopped"
      BY <3>1, <3>2 DEF Answers
    <3>3. CASE RecordSuccess(r)
      <4>1. SuccessRow(r) \in terminals' /\ SuccessRow(r).observed /\ SuccessRow(r).run = r
        BY <3>3 DEF RecordSuccess, Recorded, SuccessRow
      <4> QED BY <3>1, <4>1 DEF Answers
    <3>4. CASE RecordFailure(r)
      <4>1. FailedRow(r) \in terminals' /\ FailedRow(r).observed /\ FailedRow(r).run = r
        BY <3>1, <3>4 DEF RecordFailure, Recorded, FailedRow
      <4> QED BY <3>1, <4>1 DEF Answers
    <3>5. CASE OwnTerminal(r) /\ terminals' = terminals
      BY <3>1, <3>5 DEF OwnTerminal, OwnReads, Answers
    <3> QED BY <1>3, <2>1, <3>2, <3>3, <3>4, <3>5, EndStep
  <2>2. CASE pc'[r] \notin Ended
    <3>1. r \in InProgress' /\ pc[r] \notin Ended
      BY <1>a, <2>2, EndedStays DEF InProgress
    <3>2. Prepared(r)
      BY <3>1 DEF Answers, InProgress
    <3>3. CASE batch'[r] = batch[r]
      BY <3>1, <3>2, <3>3 DEF Answers, Prepared
    <3>4. CASE pc[r] = "prepare" /\ batch'[r] = Batches(snap[r], read[r], r)
      BY <3>1, <3>4, PreparedBatch DEF Answers, Prepared, Fetched, Going
    <3> QED BY <2>2, <3>3, <3>4, BatchStep
  <2> QED BY <2>1, <2>2
<1> QED BY <1>1, <1>2, <1>3, StepCases

\* Rows are made or taken over only by runs that answer for them.
LEMMA ExplainedStep ==
  ASSUME TypeOK, OwnedRows, Explained, OwnReads, Fetched, [Next]_vars
  PROVE  Explained'
<1>1. ASSUME NEW t \in Tables, NEW x \in Everywhere(t)'
      PROVE  Answers(x.run)'
  <2>1. ASSUME NEW y \in Everywhere(t), x.key = y.key, x.run = y.run
        PROVE  Answers(x.run)'
    <3>1. y.run \in Runs /\ pc[y.run] \notin {"idle", "fetch"} /\ Answers(y.run)
      BY EverywhereType DEF Row, OwnedRows, Explained, Answers
    <3> QED BY <2>1, <3>1, AnswersStep
  <2>2. ASSUME NEW o \in Runs, pc[o] = "prepare", batch'[o] = Batches(snap[o], read[o], o),
               x \in NewRows(snap[o], o, t)
        PROVE  Answers(x.run)'
    <3>1. x.run = o
      BY <2>2 DEF NewRows
    <3>2. Prepared(o)'
      BY <2>2, PreparedBatch DEF Prepared, Fetched, Going
    <3>3. batch'[o] # NoRows
      BY <3>2, WriteOrderAssumption DEF Prepared, NoRows
    <3>4. CASE pc'[o] \notin Ended
      BY <2>2, <3>1, <3>2, <3>4, SnapshotKept DEF Answers, InProgress
    <3>5. CASE pc'[o] \in Ended
      <4>1. Step(o) \/ HardStop(o)
        BY <2>2, <3>5, StepCases, OthersUnchanged DEF Ended
      <4>2. pc'[o] = "stopped"
        BY <2>2, <3>5, <4>1, EndStep DEF RecordSuccess, RecordFailure
      <4> QED BY <3>1, <3>5, <4>2 DEF Answers, InProgress
    <3> QED BY <3>4, <3>5
  <2> QED BY <2>1, <2>2, RowsStep
<1> QED BY <1>1 DEF Explained, Answers

\* A success is recorded with its observation, and a failure last.
LEMMA RecordsStep ==
  ASSUME TypeOK, Records, [Next]_vars
  PROVE  Records'
<1> SUFFICES ASSUME NEW x \in terminals'
             PROVE  IF x.status = "SUCCESS" THEN x.observed
                    ELSE pc'[x.run] \in {"record failure"} \cup Ended
  BY DEF Records
<1>a. pc \in [Runs -> Labels]
  BY DEF TypeOK
<1>1. CASE UNCHANGED <<terminals, sheets, pc, local>>
  BY <1>1 DEF Records
<1>2. ASSUME NEW r \in Runs, pc[r] = "record failure"
      PROVE  pc'[r] \in {"record failure"} \cup Ended
  <2>1. CASE Step(r) \/ HardStop(r)
    <3>1. RecordFailure(r) \/ RecordFailureFails(r) \/ HardStop(r)
      BY <1>2, <2>1 DEF Step, Initialize, Fetch, ReadControl, ReadTerminals, ReadTable, NodeFails,
             Prepare, SkipTable, LookUp, Write, WriteFails, FinalizeSuccess, RecordSuccess,
             RecordSuccessFails, FailureNodeFails, FinalizeFailure, Reading
    <3> QED BY <1>a, <1>2, <3>1 DEF RecordFailure, RecordFailureFails, HardStop, End, Goto, Ended
  <2>2. ASSUME NEW o \in Runs, Step(o) \/ HardStop(o), r # o
        PROVE  pc'[r] = pc[r]
    BY <2>2, OthersUnchanged
  <2> QED BY <1>2, <2>1, <2>2, StepCases
<1>3. ASSUME x \in terminals
      PROVE  IF x.status = "SUCCESS" THEN x.observed
             ELSE pc'[x.run] \in {"record failure"} \cup Ended
  <2>1. x.run \in Runs
    BY <1>3 DEF TypeOK, Terminal
  <2>2. pc[x.run] \in Ended => pc'[x.run] = pc[x.run]
    BY <2>1, EndedStays
  <2> QED BY <1>2, <1>3, <2>1, <2>2 DEF Records
<1>4. ASSUME NEW r \in Runs, Step(r) \/ HardStop(r), x \notin terminals
      PROVE  IF x.status = "SUCCESS" THEN x.observed
             ELSE pc'[x.run] \in {"record failure"} \cup Ended
  <2>1. CASE x = SuccessRow(r)
    BY <2>1 DEF SuccessRow
  <2>2. CASE pc[r] = "record failure" /\ x = FailedRow(r)
    BY <1>2, <2>2 DEF FailedRow
  <2> QED BY <1>4, <2>1, <2>2, TerminalsStep DEF Recorded
<1> QED BY <1>1, <1>3, <1>4, StepCases

\* A run that goes on without an error has fetched.
LEMMA GoingStep ==
  ASSUME TypeOK, NEW r \in Runs, Step(r) \/ HardStop(r), pc'[r] \in Going
  PROVE  pc[r] \in Going \/ Fetch(r)
<1>a. pc \in [Runs -> Labels]
  BY DEF TypeOK
<1> USE DEF Going, Writing, Closing
<1>1. CASE Initialize(r)
  BY <1>1, <1>a DEF Initialize, Goto
<1>2. CASE ReadControl(r) \/ ReadTerminals(r)
  BY <1>2, <1>a DEF ReadControl, ReadTerminals, Goto
<1>3. CASE ReadTable(r) \/ Prepare(r) \/ SkipTable(r) \/ LookUp(r) \/ Write(r) \/ WriteFails(r)
           \/ FinalizeSuccess(r) \/ RecordSuccess(r) \/ RecordSuccessFails(r)
  BY <1>3 DEF ReadTable, Prepare, SkipTable, LookUp, Write, WriteFails, FinalizeSuccess, RecordSuccess,
              RecordSuccessFails
<1>4. ~NodeFails(r)
  BY <1>a DEF NodeFails, ToFailureBranch, Goto
<1>5. ~(FailureNodeFails(r) \/ RecordFailure(r) \/ HardStop(r))
  BY <1>a DEF FailureNodeFails, RecordFailure, HardStop, End, Goto
<1>6. ~FinalizeFailure(r)
  BY <1>a DEF FinalizeFailure, End, Goto
<1>7. ~RecordFailureFails(r)
  BY <1>a DEF RecordFailureFails, End, Goto
<1> QED BY <1>1, <1>2, <1>3, <1>4, <1>5, <1>6, <1>7 DEF Step

\* Only an answer of the bridge takes a run past its fetch.
LEMMA FetchedStep ==
  ASSUME IInv, Fetched, [Next]_vars
  PROVE  Fetched'
<1>a. TypeOK /\ SuccessInPlace
  BY DEF IInv
<1> SUFFICES ASSUME NEW o \in Runs, pc'[o] \in Going \/ Recording(o)'
             PROVE  snap'[o] \in Snapshots
  BY DEF Fetched
<1>b. snap \in [Runs -> Snapshots \cup {NoSnapshot}]
  BY <1>a DEF TypeOK
<1>1. ASSUME pc[o] \in Going \/ Recording(o)
      PROVE  snap'[o] \in Snapshots
  <2>1. pc[o] \notin {"idle", "fetch"}
    BY <1>a, <1>1 DEF Going, Writing, Closing, Recording, SuccessInPlace, Stamped, Ended
  <2> QED BY <1>a, <1>1, <2>1, SnapshotKept DEF Fetched
<1>2. CASE Fetch(o)
  BY <1>b, <1>2 DEF Fetch
<1>3. ASSUME Recording(o)', ~Recording(o)
      PROVE  pc[o] \in Going
  <2>1. PICK x \in Successful(terminals') : x.run = o /\ x \notin terminals
    BY <1>3 DEF Recording, Successful
  <2>2. ASSUME NEW r \in Runs, Step(r) \/ HardStop(r)
        PROVE  pc[o] \in Going
    <3>1. CASE pc[r] = "record" /\ terminals' = Recorded(SuccessRow(r))
      <4>1. x = SuccessRow(r)
        BY <2>1, <3>1 DEF Recorded, Successful
      <4>2. o = r
        BY <2>1, <4>1 DEF SuccessRow
      <4> QED BY <3>1, <4>2 DEF Going, Closing
    <3>2. CASE terminals' = Recorded(FailedRow(r))
      BY <2>1, <3>2 DEF Recorded, FailedRow, Successful
    <3> QED BY <1>a, <2>1, <2>2, <3>1, <3>2, TerminalsStep DEF Successful
  <2> QED BY <2>1, <2>2, StepCases DEF Successful
<1>4. ASSUME pc'[o] \in Going, ~Fetch(o)
      PROVE  pc[o] \in Going
  <2>1. ASSUME NEW r \in Runs, Step(r) \/ HardStop(r), r # o
        PROVE  pc'[o] = pc[o]
    BY <1>a, <2>1, OthersUnchanged
  <2> QED BY <1>a, <1>4, <2>1, GoingStep, StepCases
<1> QED BY <1>1, <1>2, <1>3, <1>4

-----------------------------------------------------------------------------
(* Completion instants.                                                    *)

\* An instant is the next one of the clock; a run keeps its own until it ends.
LEMMA ClockStep ==
  ASSUME TypeOK, NEW r \in Runs, Step(r) \/ HardStop(r)
  PROVE  /\ \/ clock' = clock /\ stamp'[r] \in {stamp[r], 0}
            \/ clock' = clock + 1 /\ stamp'[r] = clock + 1 /\ terminals' = terminals
         /\ pc'[r] \in {"record", "record failure"} =>
              \/ clock' = clock + 1 /\ stamp'[r] = clock + 1
              \/ pc[r] \in {"record", "record failure"} /\ stamp'[r] = stamp[r]
<1>a. pc \in [Runs -> Labels] /\ stamp \in [Runs -> Nat]
  BY DEF TypeOK
<1>1. CASE Initialize(r) \/ Fetch(r) \/ ReadControl(r) \/ ReadTerminals(r) \/ ReadTable(r) \/ LookUp(r)
  BY <1>1, <1>a DEF Initialize, Fetch, ReadControl, ReadTerminals, ReadTable, LookUp, Goto
<1>2. CASE NodeFails(r) \/ Prepare(r)
  BY <1>2, <1>a DEF NodeFails, Prepare, ToFailureBranch, Goto
<1>3. CASE SkipTable(r) \/ Write(r) \/ WriteFails(r)
  BY <1>3, <1>a DEF SkipTable, Write, WriteFails, NextTable, ToFailureBranch, Goto
<1>4. CASE FinalizeSuccess(r)
  BY <1>4, <1>a DEF FinalizeSuccess, ToFailureBranch, Goto, workbook
<1>5. CASE RecordSuccess(r) \/ FailureNodeFails(r) \/ RecordFailure(r) \/ HardStop(r)
  BY <1>5, <1>a DEF RecordSuccess, FailureNodeFails, RecordFailure, HardStop, End, Goto
<1>6. CASE RecordSuccessFails(r)
  BY <1>6, <1>a DEF RecordSuccessFails, ToFailureBranch, Goto
<1>7. CASE FinalizeFailure(r)
  BY <1>7, <1>a DEF FinalizeFailure, End, Goto, workbook
<1>8. CASE RecordFailureFails(r)
  BY <1>8, <1>a DEF RecordFailureFails, End, Goto
<1> QED BY <1>1, <1>2, <1>3, <1>4, <1>5, <1>6, <1>7, <1>8 DEF Step

\* A new terminal has the instant of its run.
LEMMA NewTerminal ==
  ASSUME TypeOK, NEW r \in Runs, Step(r) \/ HardStop(r), terminals' # terminals
  PROVE  /\ pc[r] \in {"record", "record failure"} /\ clock' = clock
         /\ \E row : /\ terminals' = Recorded(row) /\ row.run = r /\ row.completed = stamp[r]
<1>a. clock \in Nat
  BY DEF TypeOK
<1>1. clock' = clock
  BY ClockStep
<1>2. CASE pc[r] = "record" /\ terminals' = Recorded(SuccessRow(r))
  BY <1>1, <1>2 DEF SuccessRow
<1>3. CASE pc[r] = "record failure" /\ terminals' = Recorded(FailedRow(r))
  <2>1. FailedRow(r).run = r /\ FailedRow(r).completed = stamp[r]
    BY DEF FailedRow
  <2> QED BY <1>1, <1>3, <2>1
<1> QED BY <1>2, <1>3, TerminalsStep

\* An instant is stamped by one run, and recorded by that run.
LEMMA StampsStep ==
  ASSUME TypeOK, Stamps, [Next]_vars
  PROVE  Stamps'
<1>a. /\ stamp \in [Runs -> Nat] /\ clock \in Nat
      /\ \A x \in terminals : x.run \in Runs /\ x.completed \in Nat
  BY DEF TypeOK, Terminal
<1>b. /\ \A o \in Runs : stamp[o] \in 0..clock
      /\ \A o, s \in Runs : o # s /\ stamp[o] = stamp[s] => stamp[o] = 0
  BY DEF Stamps
<1>c. /\ \A x \in terminals : x.completed \in 1..clock
      /\ \A x \in terminals : \A o \in Runs : stamp[o] = x.completed => o = x.run
      /\ \A x, y \in terminals : x.completed = y.completed => x = y
  BY DEF Stamps
<1>1. CASE UNCHANGED <<terminals, sheets, pc, local>> /\ clock' = clock
  BY <1>1 DEF local, Stamps
<1>2. ASSUME NEW r \in Runs, Step(r) \/ HardStop(r)
      PROVE  Stamps'
  <2>1. \A o \in Runs \ {r} : stamp'[o] = stamp[o] /\ pc'[o] = pc[o]
    BY <1>2, OthersUnchanged
  <2>2. CASE terminals' = terminals /\ clock' = clock /\ stamp'[r] \in {stamp[r], 0}
    <3>1. pc'[r] \in {"record", "record failure"} => stamp'[r] # 0
      <4>1. clock' # clock + 1
        <5>1. clock # clock + 1
          BY <1>a
        <5> QED BY <2>2, <5>1
      <4> QED BY <4>1, <1>2, ClockStep DEF Stamps
    <3>2. \A o \in Runs : stamp'[o] \in {stamp[o], 0}
      BY <2>1, <2>2
    <3>3. \A o \in Runs : stamp'[o] \in 0..clock
      BY <1>a, <1>b, <3>2
    <3>4. \A o \in Runs : pc'[o] \in {"record", "record failure"} => stamp'[o] # 0
      BY <2>1, <3>1 DEF Stamps
    <3>5. \A o, s \in Runs : o # s /\ stamp'[o] = stamp'[s] => stamp'[o] = 0
      BY <1>b, <3>2
    <3>6. \A x \in terminals : \A o \in Runs : stamp'[o] = x.completed => o = x.run
      <4>1. \A x \in terminals : x.completed # 0
        BY <1>a, <1>c
      <4> QED BY <1>c, <3>2, <4>1
    <3> QED BY <2>2, <1>c, <3>3, <3>4, <3>5, <3>6 DEF Stamps
  <2>3. CASE clock' = clock + 1 /\ stamp'[r] = clock + 1 /\ terminals' = terminals
    <3>1. \A o \in Runs \ {r} : stamp'[o] = stamp[o] /\ stamp'[o] # clock + 1
      BY <1>a, <1>b, <2>1
    <3>2. \A o \in Runs : stamp'[o] \in 0..(clock + 1)
      BY <1>a, <1>b, <2>1, <2>3
    <3>3. \A o \in Runs : pc'[o] \in {"record", "record failure"} => stamp'[o] # 0
      <4>1. stamp'[r] # 0
        BY <1>a, <2>3
      <4> QED BY <4>1, <2>1 DEF Stamps
    <3>4. \A o, s \in Runs : o # s /\ stamp'[o] = stamp'[s] => stamp'[o] = 0
      BY <1>b, <2>3, <3>1
    <3>5. \A x \in terminals : x.completed \in 1..(clock + 1) /\ x.completed # clock + 1
      BY <1>a, <1>c
    <3>6. \A x \in terminals : \A o \in Runs : stamp'[o] = x.completed => o = x.run
      BY <1>c, <2>3, <3>1, <3>5
    <3> QED BY <2>3, <1>c, <3>2, <3>3, <3>4, <3>5, <3>6 DEF Stamps
  <2>4. CASE terminals' # terminals
    <3>1. /\ pc[r] \in {"record", "record failure"} /\ clock' = clock /\ stamp[r] # 0
      BY <1>2, <2>4, NewTerminal DEF Stamps
    <3>2. PICK row : terminals' = Recorded(row) /\ row.run = r /\ row.completed = stamp[r]
      BY <1>2, <2>4, NewTerminal
    <3>3. stamp'[r] \in {stamp[r], 0}
      BY <1>2, <2>4, ClockStep
    <3>4. pc'[r] \in {"record", "record failure"} => stamp'[r] = stamp[r]
      <4>1. clock' # clock + 1
        <5>1. clock # clock + 1
          BY <1>a
        <5> QED BY <3>1, <5>1
      <4> QED BY <4>1, <1>2, ClockStep
    <3>5. \A o \in Runs : stamp'[o] \in {stamp[o], 0}
      BY <2>1, <3>3
    <3>6. \A o \in Runs : stamp'[o] \in 0..clock
      BY <1>a, <1>b, <3>5
    <3>7. \A o \in Runs : pc'[o] \in {"record", "record failure"} => stamp'[o] # 0
      BY <2>1, <3>1, <3>4 DEF Stamps
    <3>8. \A o, s \in Runs : o # s /\ stamp'[o] = stamp'[s] => stamp'[o] = 0
      BY <1>b, <3>5
    <3>9. \A x \in terminals' : x = row \/ (x \in terminals /\ x.run # r)
      BY <3>2 DEF Recorded
    <3>10. \A x \in terminals : x.run # r => x.completed # row.completed
      BY <1>c, <3>2
    <3>11. \A o \in Runs : stamp'[o] = row.completed => o = r
      BY <1>b, <3>1, <3>2, <3>5
    <3>12. \A x \in terminals : x.completed # 0
      BY <1>a, <1>c
    <3>13. row.completed \in 1..clock
      <4>1. stamp[r] \in 0..clock /\ stamp[r] # 0
        BY <1>b, <3>1
      <4>2. stamp[r] \in 1..clock
        BY <1>a, <4>1
      <4> QED BY <3>2, <4>2
    <3>14. \A x \in terminals' : x.completed \in 1..clock
      BY <1>c, <3>9, <3>13
    <3>15. \A x \in terminals' : \A o \in Runs : stamp'[o] = x.completed => o = x.run
      BY <1>c, <3>2, <3>5, <3>9, <3>11, <3>12
    <3>16. \A x, y \in terminals' : x.completed = y.completed => x = y
      BY <1>c, <3>9, <3>10
    <3> QED BY <3>1, <3>6, <3>7, <3>8, <3>14, <3>15, <3>16 DEF Stamps
  <2> QED BY <1>2, <2>2, <2>3, <2>4, ClockStep
<1>3. Operator \/ UNCHANGED vars => clock' = clock
  BY DEF Operator, SwitchState, ReplaceWriter, Configure, vars
<1> QED BY <1>1, <1>2, <1>3, OperatorFrame DEF Next

\* Whatever is recorded was completed last, or one of the others still was.
LEMMA RankedStep ==
  ASSUME TypeOK, Ranked, [Next]_vars
  PROVE  Ranked'
<1>a. clock \in Nat /\ stamp \in [Runs -> Nat] /\ \A x \in terminals : x.completed \in Nat
  BY DEF TypeOK, Terminal
<1>1. CASE terminals' = terminals
  BY <1>1 DEF Ranked
<1>2. ASSUME NEW r \in Runs, Step(r) \/ HardStop(r), terminals' # terminals
      PROVE  Ranked'
  <2>1. PICK row : terminals' = Recorded(row) /\ row.run = r /\ row.completed = stamp[r]
    BY <1>2, NewTerminal
  <2>2. ASSUME NEW S \in SUBSET terminals', S # {}
        PROVE  \E x \in S : \A y \in S : y.completed <= x.completed
    <3>1. S \ {row} \in SUBSET terminals
      BY <2>1 DEF Recorded
    <3>2. row.completed \in Nat
      BY <1>a, <2>1
    <3>3. CASE S \ {row} = {}
      BY <2>2, <3>2, <3>3
    <3>4. CASE S \ {row} # {}
      <4>1. PICK x \in S \ {row} : \A y \in S \ {row} : y.completed <= x.completed
        BY <3>1, <3>4 DEF Ranked
      <4>2. x.completed \in Nat /\ \A y \in S \ {row} : y.completed \in Nat
        BY <1>a, <3>1
      <4>3. CASE row \in S /\ x.completed <= row.completed
        BY <3>2, <4>1, <4>2, <4>3
      <4>4. CASE ~(row \in S /\ x.completed <= row.completed)
        BY <3>2, <4>1, <4>2, <4>4
      <4> QED BY <4>3, <4>4
    <3> QED BY <3>3, <3>4
  <2> QED BY <2>2 DEF Ranked
<1> QED BY <1>1, <1>2, StepCases

\* IInv and RInv together are inductive.
LEMMA RInvInit == Init => RInv
<1> SUFFICES ASSUME Init PROVE RInv
  OBVIOUS
<1>1. \A t \in Tables : Everywhere(t) = {}
  <2>1. \A t \in Tables : NoRows[t] = {}
    BY DEF NoRows
  <2> QED BY <2>1, NothingIsRead DEF Everywhere, Init
<1>2. terminals = {} /\ clock = 0 /\ \A r \in Runs : stamp[r] = 0 /\ pc[r] = "idle"
  BY DEF Init
<1>3. OwnReads
  BY NothingIsRead DEF Init, OwnReads
<1>4. Stamps
  <2>1. \A r \in Runs : stamp[r] \in 0..clock /\ (pc[r] \in {"record", "record failure"} => stamp[r] # 0)
    <3>1. 0 \in 0..0
      OBVIOUS
    <3> QED BY <1>2, <3>1
  <2> QED BY <1>2, <2>1 DEF Stamps
<1> QED BY <1>1, <1>2, <1>3, <1>4
        DEF RInv, OwnedRows, Explained, Records, Fetched, Ranked, Going, Writing, Closing, Recording,
            Successful

\* Every step keeps all of it.
LEMMA RInvStep == ASSUME IInv, RInv, [Next]_vars PROVE RInv'
<1>1. TypeOK /\ SuccessInPlace
  BY DEF IInv
<1> QED BY <1>1, OwnedRowsStep, ExplainedStep, RecordsStep, OwnReadsStep, FetchedStep, StampsStep,
           RankedStep DEF RInv

\* What the reader relies on besides the exactness of successes.
LEMMA ReaderInvariant == Spec => [](IInv /\ RInv)
<1>1. Init => IInv /\ RInv
  BY IInvInit, RInvInit
<1>2. (IInv /\ RInv) /\ [Next]_vars => (IInv /\ RInv)'
  BY IInvStep, RInvStep
<1> QED BY <1>1, <1>2, PTL DEF Spec

-----------------------------------------------------------------------------
(* The reader.                                                             *)

\* A success counts, table by table, the rows its snapshot stores; a blank
\* count stands for a collection that was not complete.
LEMMA CountsOfSuccess ==
  ASSUME IInv, NEW x \in Successful(terminals), NEW t \in Tables
  PROVE  /\ x.run \in Runs
         /\ IsFiniteSet(Stored(snap[x.run], t)) /\ Cardinality(Stored(snap[x.run], t)) # Blank
         /\ IF Permitted(snap[x.run].coverage, t)
            THEN x.counts[t] = Cardinality(Stored(snap[x.run], t))
            ELSE x.counts[t] = Blank /\ Stored(snap[x.run], t) = {}
<1>1. x.run \in Runs /\ snap \in [Runs -> Snapshots \cup {NoSnapshot}]
  BY DEF IInv, TypeOK, Terminal, Successful
<1>2. IsFiniteSet(Stored(snap[x.run], t))
  BY <1>1, StoredKeys
<1>3. Cardinality(Stored(snap[x.run], t)) \in Nat
  BY <1>2, FS_CardinalityType
<1>4. Cardinality(Stored(snap[x.run], t)) # Blank
  BY <1>3 DEF Blank
<1>5. x.counts = [u \in Tables |-> IF Permitted(snap[x.run].coverage, u)
                                  THEN Cardinality(Stored(snap[x.run], u)) ELSE Blank]
  BY DEF IInv, SuccessInPlace
<1> QED BY <1>1, <1>2, <1>4, <1>5 DEF Stored

\* The ownership and the number of the active rows, with their unique keys,
\* are enough to tell that they are the rows of the snapshot.
LEMMA CurrentIsSnapshot ==
  ASSUME IInv, NEW x \in Successful(terminals), NEW t \in CurrentTables,
         UniqueKeys(t, sheets[t]), HasCurrent(sheets, x, t)
  PROVE  KeysOf(Active(sheets[t])) = Stored(snap[x.run], t)
<1> DEFINE A == Active(sheets[t])
           S == Stored(snap[x.run], t)
           f == [row \in A |-> row.key]
<1>1. t \in Tables
  BY WriteOrderAssumption
<1>2. \A row \in A : row.run = x.run /\ row.key \in S
  BY <1>1 DEF HasCurrent, Active, IInv, GenuineRows, Genuine
<1>3. f \in [A -> S]
  BY <1>2
<1>4. \A a, b \in A : f[a] = f[b] => a = b
  BY DEF Active, UniqueKeys, UniqueKey
<1>5. f \in Injection(A, S)
  BY <1>3, <1>4 DEF Injection, IsInjective
<1>6. IsFiniteSet(S) /\ Cardinality(A) = Cardinality(S)
  BY <1>1, CountsOfSuccess DEF HasCurrent
<1>7. f \in Surjection(A, S)
  BY <1>5, <1>6, FS_Injection
<1>8. \A k \in S : \E row \in A : row.key = k
  BY <1>7 DEF Surjection
<1> QED BY <1>2, <1>8 DEF KeysOf

\* What the reader selects is the newest of the successes it accepts.
LEMMA SelectedIsNewest ==
  ASSUME Ranked,
         ValidInventory(terminals, sheets),
         \A x, y \in Successful(terminals) : x.completed = y.completed => x = y,
         { x \in Successful(terminals) : Accepts(sheets, Context, x) } # {}
  PROVE  \E x \in Successful(terminals) :
           /\ Accepts(sheets, Context, x)
           /\ \A y \in Successful(terminals) : Accepts(sheets, Context, y) => y.completed <= x.completed
           /\ View.kind = "selected" /\ View.run = x.run
           /\ View.current = CurrentComplete(sheets, x)
<1> DEFINE S == { x \in Successful(terminals) : Accepts(sheets, Context, x) }
           x == CHOOSE y \in S : \A z \in S : z.completed <= y.completed
           c == CHOOSE y \in Successful(terminals) :
                  \A z \in Successful(terminals) : z.completed <= y.completed
<1>1. S \in SUBSET terminals /\ S # {}
  BY DEF Successful
<1>2. \E y \in S : \A z \in S : z.completed <= y.completed
  BY <1>1 DEF Ranked
<1>3. x \in S /\ \A z \in S : z.completed <= x.completed
  BY <1>2
<1>4. View = [ kind |-> "selected", run |-> x.run, current |-> CurrentComplete(sheets, x),
               fallback |-> ~CurrentComplete(sheets, x) \/ x # c ]
  BY <1>1 DEF View, Select
<1> HIDE DEF x, c
<1>5. View.kind = "selected" /\ View.run = x.run /\ View.current = CurrentComplete(sheets, x)
  BY <1>4
<1> QED BY <1>3, <1>5

\* A view of the reader is not a refusal only under its own conditions.
LEMMA SelectedOnlyIf ==
  ASSUME View.kind = "selected"
  PROVE  /\ ValidInventory(terminals, sheets)
         /\ \A x, y \in Successful(terminals) : x.completed = y.completed => x = y
         /\ { x \in Successful(terminals) : Accepts(sheets, Context, x) } # {}
<1>1. View # Refused
  BY DEF Refused
<1> QED BY <1>1 DEF View, Select

\* The current tables the reader reports complete are the selected snapshot,
\* row for row: no partial write shows through the comparison of counts.
THEOREM CurrentIsExact == Spec => []CurrentExact
<1>1. IInv /\ RInv => CurrentExact
  <2> SUFFICES ASSUME IInv, RInv, View.kind = "selected", View.current, NEW t \in CurrentTables
               PROVE  /\ \A row \in Active(sheets[t]) : row.run = View.run
                      /\ KeysOf(Active(sheets[t])) = Stored(snap[View.run], t)
    BY DEF CurrentExact
  <2>1. PICK x \in Successful(terminals) :
          View.run = x.run /\ View.current = CurrentComplete(sheets, x)
    BY SelectedOnlyIf, SelectedIsNewest DEF RInv
  <2>2. HasCurrent(sheets, x, t)
    BY <2>1 DEF CurrentComplete
  <2>3. UniqueKeys(t, sheets[t])
    BY SelectedOnlyIf, WriteOrderAssumption DEF ValidInventory
  <2>4. KeysOf(Active(sheets[t])) = Stored(snap[x.run], t)
    BY <2>2, <2>3, CurrentIsSnapshot
  <2> QED BY <2>1, <2>2, <2>4 DEF HasCurrent
<1> QED BY <1>1, ReaderInvariant, PTL

\* In an inventory that is valid as a whole, the reader accepts every success
\* the writer recorded.
LEMMA EverySuccessAccepted ==
  ASSUME IInv, RInv, ValidInventory(terminals, sheets), NEW x \in Successful(terminals)
  PROVE  Accepts(sheets, Context, x)
<1> DEFINE c == snap[x.run].coverage
<1>1. x.run \in Runs /\ x.status = "SUCCESS" /\ Context[x.run] = c
  BY DEF IInv, TypeOK, Terminal, Successful, Context
<1>2. {"accounts_current", "positions_current", "positions_history"} \subseteq Tables
  BY WriteOrderAssumption DEF CurrentTables
<1>3. Stored(snap[x.run], "positions_current") = Stored(snap[x.run], "positions_history")
      /\ Permitted(c, "positions_current") = Permitted(c, "positions_history")
  BY DEF Stored, Permitted, Input
<1>4. x.counts["positions_current"] = x.counts["positions_history"]
  BY <1>2, <1>3, CountsOfSuccess
<1>5. ASSUME NEW t \in Tables, x.counts[t] = Blank
      PROVE  RowsOf(sheets[t], x.run) = {}
  <2>1. Stored(snap[x.run], t) = {}
    BY <1>5, CountsOfSuccess
  <2>2. \A row \in sheets[t] : row.key \in Stored(snap[row.run], t)
    BY DEF RInv, OwnedRows, Everywhere
  <2> QED BY <2>1, <2>2 DEF RowsOf
<1>6. ASSUME NEW t \in Tables \cap DatedTables, x.counts[t] # Blank
      PROVE  Cardinality(RowsOf(sheets[t], x.run)) = x.counts[t]
  <2>1. snap[x.run] \in Snapshots \cup {NoSnapshot}
    BY <1>1 DEF IInv, TypeOK
  <2>2. RowsOf(sheets[t], x.run) = NewRows(snap[x.run], x.run, t)
    BY SuccessRows
  <2>3. Cardinality(RowsOf(sheets[t], x.run)) = Cardinality(Stored(snap[x.run], t))
    BY <1>1, <2>1, <2>2, NewRowsFacts
  <2> QED BY <1>6, <2>3, CountsOfSuccess
<1>7. ASSUME NEW t \in Tables \cap SingleRow
      PROVE  x.counts[t] = 1
  <2>1. snap[x.run] \in Snapshot
    BY <1>1, SnapshotsAssumption DEF RInv, Fetched, Recording
  <2>2. Permitted(c, t) /\ Input(t) = t
    BY DEF Permitted, Input, SingleRow
  <2>3. Cardinality(Stored(snap[x.run], t)) = 1
    BY <2>1, <2>2 DEF Stored, Snapshot
  <2> QED BY <2>2, <2>3, CountsOfSuccess
<1>8. x.counts["accounts_current"] # Blank <=> AccountsComplete(c)
  <2>1. Permitted(c, "accounts_current") <=> AccountsComplete(c)
    BY DEF Permitted
  <2> QED BY <1>2, <2>1, CountsOfSuccess
<1>9. x.counts["positions_history"] # Blank <=> PositionsComplete(c)
  <2>1. Permitted(c, "positions_history") <=> PositionsComplete(c)
    BY DEF Permitted
  <2> QED BY <1>2, <2>1, CountsOfSuccess
<1>10. CurrentComplete(sheets, x) =>
         KeysOf(Active(sheets["positions_current"]))
           = KeysOf(RowsOf(sheets["positions_history"], x.run))
  <2> SUFFICES ASSUME CurrentComplete(sheets, x)
               PROVE  KeysOf(Active(sheets["positions_current"]))
                        = KeysOf(RowsOf(sheets["positions_history"], x.run))
    OBVIOUS
  <2>1. "positions_current" \in CurrentTables /\ "positions_history" \in Tables \cap DatedTables
    BY <1>2 DEF CurrentTables, DatedTables
  <2>2. KeysOf(Active(sheets["positions_current"])) = Stored(snap[x.run], "positions_current")
    BY <1>2, <2>1, CurrentIsSnapshot DEF CurrentComplete, ValidInventory
  <2>3. RowsOf(sheets["positions_history"], x.run) = NewRows(snap[x.run], x.run, "positions_history")
    BY <2>1, SuccessRows
  <2>4. snap[x.run] \in Snapshots \cup {NoSnapshot}
    BY <1>1 DEF IInv, TypeOK
  <2>5. KeysOf(RowsOf(sheets["positions_history"], x.run)) = Stored(snap[x.run], "positions_history")
    BY <1>1, <2>1, <2>3, <2>4, NewRowsFacts
  <2> QED BY <1>3, <2>2, <2>5
<1>11. \A t \in Tables : IF x.counts[t] = Blank THEN RowsOf(sheets[t], x.run) = {}
                         ELSE t \in DatedTables => Cardinality(RowsOf(sheets[t], x.run)) = x.counts[t]
  BY <1>5, <1>6
<1> QED BY <1>1, <1>4, <1>7, <1>8, <1>9, <1>10, <1>11 DEF Accepts

\* The reader never falls back past a success the writer recorded: unless the
\* whole inventory is refused, it serves the newest one.
THEOREM LatestIsServed == Spec => []LatestServed
<1>1. IInv /\ RInv => LatestServed
  <2> SUFFICES ASSUME IInv, RInv, ValidInventory(terminals, sheets), Successful(terminals) # {}
               PROVE  /\ View.kind = "selected"
                      /\ \E x \in Successful(terminals) :
                           /\ x.run = View.run
                           /\ \A y \in Successful(terminals) : y.completed <= x.completed
    BY DEF LatestServed
  <2>1. \A x, y \in Successful(terminals) : x.completed = y.completed => x = y
    BY DEF RInv, Stamps, Successful
  <2>2. \A x \in Successful(terminals) : Accepts(sheets, Context, x)
    BY EverySuccessAccepted
  <2>3. { x \in Successful(terminals) : Accepts(sheets, Context, x) } # {}
    BY <2>2
  <2> QED BY <2>1, <2>2, <2>3, SelectedIsNewest DEF RInv
<1> QED BY <1>1, ReaderInvariant, PTL

\* A run that reached its end without being cut off left the terminal of its
\* rows, so a row without one belongs to a run in progress or a stopped one.
THEOREM OrphansAreExplained == Spec => []OrphansExplained
<1>1. RInv => OrphansExplained
  <2> SUFFICES ASSUME RInv, NEW t \in Tables, NEW row \in Orphans(t)
               PROVE  row.run \in InProgress \/ pc[row.run] = "stopped"
    BY DEF OrphansExplained
  <2>1. row \in Everywhere(t) /\ \A x \in terminals : ~(x.observed /\ x.run = row.run)
    BY DEF Orphans, Everywhere
  <2> QED BY <2>1 DEF RInv, Explained
<1> QED BY <1>1, ReaderInvariant, PTL

-----------------------------------------------------------------------------
(* The ledger.                                                             *)

\* The refinement mapping: the accepted observations and what the reader shows.
Accepted == { [run |-> x.run, at |-> x.completed, snapshot |-> snap[x.run]]
              : x \in Successful(terminals) }

\* A refusal, the whole of a success, or what the current tables hold without one.
Shown ==
  IF View.kind = "refused" THEN [kind |-> "refused"]
  ELSE IF View.current
  THEN [kind |-> "complete", run |-> View.run, dated |-> ShownKeys(Tables \cap DatedTables),
        current |-> [t \in CurrentTables |-> KeysOf(Active(sheets[t]))]]
  ELSE [kind |-> "dated", run |-> View.run, dated |-> ShownKeys(Tables \cap DatedTables)]

\* The operators of the ledger are those of the workbook.
LEMMA SameOperators ==
  /\ Ledger!Tables = Tables /\ Ledger!DatedTables = DatedTables
  /\ Ledger!CurrentTables = CurrentTables
  /\ \A s, t : Ledger!Stored(s, t) = Stored(s, t)
  /\ \A c : Ledger!PositionsComplete(c) = PositionsComplete(c)
BY DEF Ledger!Tables, Tables, Ledger!DatedTables, DatedTables, Ledger!CurrentTables, CurrentTables,
       Ledger!Stored, Stored, Ledger!Permitted, Permitted, Ledger!Input, Input,
       Ledger!PositionsComplete, PositionsComplete, Ledger!AccountsComplete, AccountsComplete

\* A recorded success keeps its snapshot.
LEMMA SuccessSnapshotKept ==
  ASSUME IInv, [Next]_vars, NEW x \in Successful(terminals)
  PROVE  x.run \in Runs /\ snap'[x.run] = snap[x.run]
<1>1. x.run \in Runs /\ TypeOK /\ pc[x.run] \in Stamped
  BY DEF IInv, TypeOK, Terminal, Successful, SuccessInPlace
<1>2. pc[x.run] \notin {"idle", "fetch"}
  BY <1>1 DEF Stamped, Ended
<1> QED BY <1>1, <1>2, SnapshotKept

\* A step records no success, or one of a run that had none, at a new instant.
LEMMA SuccessesStep ==
  ASSUME IInv, RInv, [Next]_vars
  PROVE  \/ Successful(terminals') = Successful(terminals)
         \/ \E r \in Runs :
              /\ Successful(terminals') = Successful(terminals) \cup {SuccessRow(r)}
              /\ snap[r] \in Snapshots /\ snap'[r] = snap[r] /\ stamp[r] \in Nat
              /\ SuccessRow(r).run = r /\ SuccessRow(r).completed = stamp[r]
              /\ \A x \in Successful(terminals) : x.run # r /\ x.completed # stamp[r]
<1>a. TypeOK /\ stamp \in [Runs -> Nat]
  BY DEF IInv, TypeOK
<1>b. \A r \in Runs : /\ SuccessRow(r).run = r /\ SuccessRow(r).completed = stamp[r]
                      /\ SuccessRow(r).status = "SUCCESS"
                      /\ FailedRow(r).run = r /\ FailedRow(r).status = "FAILED"
  BY DEF SuccessRow, FailedRow
<1>1. CASE terminals' = terminals
  BY <1>1
<1>2. ASSUME NEW r \in Runs, pc[r] = "record", terminals' = Recorded(SuccessRow(r))
      PROVE  \/ Successful(terminals') = Successful(terminals)
             \/ /\ Successful(terminals') = Successful(terminals) \cup {SuccessRow(r)}
                /\ snap[r] \in Snapshots /\ snap'[r] = snap[r]
                /\ \A x \in Successful(terminals) : x.run # r /\ x.completed # stamp[r]
  <2>1. \A x \in Successful(terminals) : x.run = r => x = SuccessRow(r)
    BY <1>2 DEF IInv, SuccessInPlace
  <2>2. Successful(terminals') = Successful(terminals) \cup {SuccessRow(r)}
    BY <1>2, <1>b, <2>1 DEF Recorded, Successful
  <2>3. CASE Recording(r)
    BY <2>1, <2>2, <2>3 DEF Recording
  <2>4. CASE ~Recording(r)
    <3>1. snap[r] \in Snapshots
      BY <1>2 DEF RInv, Fetched, Going, Closing
    <3>2. snap'[r] = snap[r]
      BY <1>a, <1>2, SnapshotKept
    <3>3. \A x \in Successful(terminals) : x.run # r
      BY <2>4 DEF Recording
    <3>4. \A x \in Successful(terminals) : stamp[r] = x.completed => r = x.run
      BY DEF RInv, Stamps, Successful
    <3> QED BY <2>2, <3>1, <3>2, <3>3, <3>4
  <2> QED BY <2>3, <2>4
<1>3. ASSUME NEW r \in Runs, pc[r] = "record failure", terminals' = Recorded(FailedRow(r))
      PROVE  Successful(terminals') = Successful(terminals)
  <2>1. \A x \in Successful(terminals) : x.run # r
    BY <1>3 DEF IInv, SuccessInPlace, Stamped, Ended
  <2>2. FailedRow(r).run = r /\ FailedRow(r).status # "SUCCESS"
    BY <1>b
  <2>3. terminals' = { x \in terminals : x.run # r } \cup {FailedRow(r)}
    BY <1>3, <2>2 DEF Recorded
  <2> QED BY <2>1, <2>2, <2>3 DEF Successful
<1>4. CASE UNCHANGED <<terminals, sheets, pc, local>>
  BY <1>4
<1>5. CASE \E r \in Runs : Step(r) \/ HardStop(r)
  <2>1. PICK r \in Runs : Step(r) \/ HardStop(r)
    BY <1>5
  <2>2. \/ terminals' = terminals
        \/ pc[r] = "record" /\ terminals' = Recorded(SuccessRow(r))
        \/ pc[r] = "record failure" /\ terminals' = Recorded(FailedRow(r))
    BY <1>a, <2>1, TerminalsStep
  <2> QED BY <1>a, <1>b, <1>1, <1>2, <1>3, <2>2
<1> QED BY <1>4, <1>5, StepCases

\* The observations accepted so far stay, and at most one comes to them.
LEMMA AcceptedStep ==
  ASSUME IInv, RInv, [Next]_vars
  PROVE  \/ Accepted' = Accepted
         \/ \E o \in Accepted' \ Accepted :
              /\ o \in [run : Runs, at : Nat, snapshot : Snapshots]
              /\ \A p \in Accepted : p.run # o.run /\ p.at # o.at
              /\ Accepted' = Accepted \cup {o}
<1>1. \A x \in Successful(terminals) : snap'[x.run] = snap[x.run]
  BY SuccessSnapshotKept
<1>2. Accepted' = { [run |-> x.run, at |-> x.completed, snapshot |-> snap'[x.run]]
                    : x \in Successful(terminals') }
  BY DEF Accepted, Successful
<1>3. CASE Successful(terminals') = Successful(terminals)
  BY <1>1, <1>2, <1>3 DEF Accepted
<1>4. ASSUME NEW r \in Runs,
             Successful(terminals') = Successful(terminals) \cup {SuccessRow(r)},
             snap[r] \in Snapshots, snap'[r] = snap[r], stamp[r] \in Nat,
             SuccessRow(r).run = r, SuccessRow(r).completed = stamp[r],
             \A x \in Successful(terminals) : x.run # r /\ x.completed # stamp[r]
      PROVE  \E o \in Accepted' \ Accepted :
               /\ o \in [run : Runs, at : Nat, snapshot : Snapshots]
               /\ \A p \in Accepted : p.run # o.run /\ p.at # o.at
               /\ Accepted' = Accepted \cup {o}
  <2> DEFINE o == [run |-> r, at |-> stamp[r], snapshot |-> snap[r]]
  <2>1. Accepted' = Accepted \cup {o}
    <3>1. o = [run |-> SuccessRow(r).run, at |-> SuccessRow(r).completed,
               snapshot |-> snap'[SuccessRow(r).run]]
      BY <1>4
    <3> QED BY <1>1, <1>2, <1>4, <3>1 DEF Accepted
  <2>2. \A p \in Accepted : p.run # o.run /\ p.at # o.at
    BY <1>4 DEF Accepted
  <2>3. o \in [run : Runs, at : Nat, snapshot : Snapshots]
    BY <1>4
  <2>4. o \in Accepted' \ Accepted
    BY <2>1, <2>2
  <2> QED BY <2>1, <2>2, <2>3, <2>4
<1> QED BY <1>3, <1>4, SuccessesStep

\* What the reader shows is one of the views of the accepted observations.
LEMMA ShownIsView ==
  ASSUME IInv, RInv
  PROVE  Shown \in Ledger!Views(Accepted)
<1>1. CASE View.kind = "refused"
  BY <1>1 DEF Shown, Ledger!Views, Ledger!Refusal
<1>2. CASE View.kind # "refused"
  <2>1. View.kind = "selected"
    BY <1>2 DEF View, Select, Refused
  <2>2. PICK x \in Successful(terminals) :
          /\ \A y \in Successful(terminals) : Accepts(sheets, Context, y) => y.completed <= x.completed
          /\ View.run = x.run /\ View.current = CurrentComplete(sheets, x)
    BY <2>1, SelectedOnlyIf, SelectedIsNewest DEF RInv
  <2> DEFINE o == [run |-> x.run, at |-> x.completed, snapshot |-> snap[x.run]]
  <2>3. \A y \in Successful(terminals) : y.completed <= x.completed
    BY <2>1, <2>2, SelectedOnlyIf, EverySuccessAccepted
  <2>4. o \in Ledger!Newest(Accepted)
    <3>1. o \in Accepted
      BY DEF Accepted
    <3>2. \A other \in Accepted : \E y \in Successful(terminals) : other.at = y.completed
      BY DEF Accepted
    <3>3. \A other \in Accepted : other.at <= o.at
      BY <2>3, <3>2, Zenon
    <3> QED BY <3>1, <3>3, Zenon DEF Ledger!Newest
  <2>5. ShownKeys(Tables \cap DatedTables) = Ledger!Dated(snap[x.run])
    <3>1. \A t \in Tables \cap DatedTables : KeysOf(RowsOf(sheets[t], x.run)) = Stored(snap[x.run], t)
      <4>1. x.run \in Runs /\ snap[x.run] \in Snapshots \cup {NoSnapshot}
        BY DEF IInv, TypeOK, Terminal, Successful
      <4> QED BY <4>1, SuccessRows, NewRowsFacts
    <3> QED BY <2>2, <3>1, SameOperators DEF ShownKeys, Ledger!Dated
  <2>6. CASE ~View.current
    <3>1. Shown = [kind |-> "dated", run |-> o.run, dated |-> Ledger!Dated(o.snapshot)]
      BY <1>2, <2>2, <2>5, <2>6 DEF Shown
    <3> QED BY <2>4, <3>1 DEF Ledger!Views
  <2>7. CASE View.current
    <3>1. \A t \in CurrentTables : HasCurrent(sheets, x, t)
      BY <2>2, <2>7 DEF CurrentComplete
    <3>2. \A t \in CurrentTables : KeysOf(Active(sheets[t])) = Stored(snap[x.run], t)
      BY <2>1, <3>1, SelectedOnlyIf, CurrentIsSnapshot, WriteOrderAssumption DEF ValidInventory
    <3>3. [t \in CurrentTables |-> KeysOf(Active(sheets[t]))] = Ledger!Current(snap[x.run])
      BY <3>2, SameOperators DEF Ledger!Current
    <3>4. PositionsComplete(snap[x.run].coverage)
      <4>1. "positions_current" \in CurrentTables /\ "positions_current" \in Tables
        BY WriteOrderAssumption DEF CurrentTables
      <4>2. Permitted(snap[x.run].coverage, "positions_current")
        BY <3>1, <4>1, CountsOfSuccess DEF HasCurrent
      <4> QED BY <4>2 DEF Permitted
    <3>5. Ledger!PositionsComplete(o.snapshot.coverage)
      BY <3>4, SameOperators
    <3>6. Shown = [kind |-> "complete", run |-> o.run, dated |-> Ledger!Dated(o.snapshot),
                   current |-> Ledger!Current(o.snapshot)]
      BY <1>2, <2>2, <2>5, <2>7, <3>3 DEF Shown
    <3> QED BY <2>4, <3>5, <3>6 DEF Ledger!Views
  <2> QED BY <2>6, <2>7
<1> QED BY <1>1, <1>2

\* The workbook and its reader implement the ledger of accepted snapshots,
\* however executions overlap, fail, are cut off and are fenced.
THEOREM LedgerIsImplemented == Spec => ImplementsLedger
<1>1. Init => Ledger!LedgerInit
  <2> SUFFICES ASSUME Init PROVE Accepted = {} /\ Shown = [kind |-> "refused"]
    BY DEF Accepted, Shown, Ledger!LedgerInit, Ledger!Refusal
  <2>1. Successful(terminals) = {}
    BY DEF Init, Successful
  <2>2. View = Refused
    BY <2>1 DEF View, Select
  <2> QED BY <2>1, <2>2 DEF Accepted, Shown, Refused
<1>2. IInv /\ RInv => Shown \in Ledger!Views(Accepted)
  BY ShownIsView
<1>3. (IInv /\ RInv)' => (Shown \in Ledger!Views(Accepted))'
  BY <1>2, PTL
<1>4. ASSUME IInv, RInv, [Next]_vars, (Shown \in Ledger!Views(Accepted))'
      PROVE  Ledger!Accept \/ Ledger!Look
  BY <1>4, AcceptedStep
  DEF Accepted, Shown, Ledger!Accept, Ledger!Look, Ledger!Observation
<1>5. IInv /\ RInv /\ [Next]_vars /\ (Shown \in Ledger!Views(Accepted))' =>
        Ledger!Accept \/ Ledger!Look
  BY <1>4
<1> QED BY <1>1, <1>3, <1>5, ReaderInvariant, PTL DEF Spec, ImplementsLedger, Ledger!LedgerSpec

-----------------------------------------------------------------------------
(* Recovery, when executions do not overlap.                               *)

\* At most one execution is in progress.
Alone == \A r, o \in InProgress : r = o

\* A run has one terminal, which a failure replaces.
OneTerminal == \A x, y \in terminals : x.run = y.run => x = y

\* No unique key stands twice in a table...
UniqueSheets == \A t \in Tables : UniqueKeys(t, sheets[t])

\* ... nor in the rows a run has prepared.
UniqueBatches == \A r \in Runs : \A t \in Tables : UniqueKeys(t, batch[r][t])

\* An upsert has matched every row that has the unique key of an item.
Matching(r, t) ==
  /\ \A x \in sheets[t] : \A b \in batch[r][t] :
       UniqueKey(t, b) = UniqueKey(t, x) => [key |-> x.key, born |-> x.born] \in matched[r]
  /\ \A p, q \in matched[r] : p.key = q.key => p = q

\* ... which is so for every run about to write.
AllMatched == \A r \in Runs : pc[r] = "apply" => Matching(r, WriteOrder[at[r]])

\* What the workbook is like when executions do not overlap.
Serial == Alone /\ OneTerminal /\ UniqueSheets /\ UniqueBatches /\ AllMatched

\* While a run is in progress nobody else takes a step.
LEMMA OnlyOne ==
  ASSUME MaxActive = 1, TypeOK, Alone, NEW r \in Runs, Step(r) \/ HardStop(r),
         NEW o \in InProgress
  PROVE  r = o
<1>1. CASE r \in InProgress
  BY <1>1 DEF Alone
<1>2. CASE r \notin InProgress
  <2>1. pc[r] \in {"idle"} \cup Ended
    BY <1>2 DEF InProgress
  <2>2. Initialize(r)
    BY <1>2, <2>1 DEF Step, HardStop, Ended, Fetch, ReadControl, ReadTerminals, ReadTable, NodeFails,
       Reading, Prepare, SkipTable, LookUp, Write, WriteFails, FinalizeSuccess, RecordSuccess,
       RecordSuccessFails, FailureNodeFails, FinalizeFailure, RecordFailure, RecordFailureFails
  <2>3. Cardinality(InProgress) < 1
    BY <2>2 DEF Initialize
  <2>4. IsFiniteSet(InProgress)
    BY RunsAssumption, FS_Subset DEF InProgress
  <2>5. Cardinality(InProgress) = 0
    BY <2>3, <2>4, FS_CardinalityType
  <2> QED BY <2>4, <2>5, FS_EmptySet
<1> QED BY <1>1, <1>2

\* With one execution at a time nobody starts beside another.
LEMMA AloneStep == ASSUME MaxActive = 1, TypeOK, Alone, [Next]_vars PROVE Alone'
<1>1. CASE UNCHANGED <<terminals, sheets, pc, local>>
  BY <1>1 DEF Alone, InProgress
<1>2. ASSUME NEW r \in Runs, Step(r) \/ HardStop(r)
      PROVE  Alone'
  <2>1. InProgress \subseteq {r}
    BY <1>2, OnlyOne
  <2>2. \A o \in Runs : o # r => pc'[o] = pc[o]
    BY <1>2, OthersUnchanged
  <2>3. InProgress' \subseteq {r}
    BY <2>1, <2>2 DEF InProgress
  <2> QED BY <2>3 DEF Alone
<1> QED BY <1>1, <1>2, StepCases

\* Terminals are recorded by run.
LEMMA OneTerminalStep == ASSUME TypeOK, OneTerminal, [Next]_vars PROVE OneTerminal'
<1>1. \A r \in Runs : SuccessRow(r).run = r /\ FailedRow(r).run = r
  BY DEF SuccessRow, FailedRow
<1>2. ASSUME NEW row, terminals' = Recorded(row)
      PROVE  OneTerminal'
  BY <1>2 DEF OneTerminal, Recorded
<1>3. CASE terminals' = terminals
  BY <1>3 DEF OneTerminal
<1> QED BY <1>1, <1>2, <1>3, StepCases, TerminalsStep

\* A run prepares batches only from a workbook without duplicates.
LEMMA UniqueBatchesStep == ASSUME IInv, UniqueBatches, [Next]_vars PROVE UniqueBatches'
<1>a. TypeOK /\ pc \in [Runs -> Labels] /\ batch \in [Runs -> [Tables -> SUBSET Row]]
  BY DEF IInv, TypeOK
<1> SUFFICES ASSUME NEW o \in Runs, NEW t \in Tables,
                    NEW x \in batch'[o][t], NEW y \in batch'[o][t], UniqueKey(t, x) = UniqueKey(t, y)
             PROVE  x = y
  BY DEF UniqueBatches, UniqueKeys
<1>1. CASE batch'[o] = batch[o]
  BY <1>1 DEF UniqueBatches, UniqueKeys
<1>2. CASE batch'[o] = NoRows
  BY <1>2 DEF NoRows
<1>3. CASE /\ pc[o] = "prepare" /\ batch'[o] = Batches(snap[o], read[o], o)
           /\ batch'[o] # batch[o] /\ batch'[o] # NoRows
  <2>1. UniqueKeys(t, read[o].sheets[t])
    <3>1. CASE UNCHANGED <<terminals, sheets, pc, local>>
      BY <1>3, <3>1 DEF local
    <3>2. ASSUME NEW r \in Runs, Step(r) \/ HardStop(r), r # o
          PROVE  FALSE
      BY <1>a, <1>3, <3>2, OthersUnchanged
    <3>3. CASE HardStop(o)
      BY <1>a, <1>3, <3>3 DEF HardStop, End
    <3>4. CASE Step(o)
      <4>1. Prepare(o)
        BY <1>3, <3>4 DEF Step, Initialize, Fetch, ReadControl, ReadTerminals, ReadTable, NodeFails,
           Reading, SkipTable, LookUp, Write, WriteFails, FinalizeSuccess, RecordSuccess,
           RecordSuccessFails, FailureNodeFails, FinalizeFailure, RecordFailure, RecordFailureFails
      <4> QED BY <1>3, <4>1 DEF Prepare, NoCollision
    <3> QED BY <3>1, <3>2, <3>3, <3>4, StepCases
  <2> DEFINE N == NewRows(snap[o], o, t)
             I == Inactivated(snap[o], read[o], t)
  <2>2. x \in N \cup I /\ y \in N \cup I /\ x.key = y.key
    BY <1>3 DEF Batches, UniqueKey
  <2>3. \A z \in N : z.key \in Stored(snap[o], t)
                     /\ z = [key |-> z.key, born |-> o, run |-> o, active |-> TRUE]
    BY DEF NewRows
  <2>4. ASSUME NEW z \in I
        PROVE  /\ t \in CurrentTables /\ z.key \notin Stored(snap[o], t)
               /\ \E w \in read[o].sheets[t] : z = [w EXCEPT !.active = FALSE] /\ w.key = z.key
    <3>1. t \in CurrentTables
      BY DEF Inactivated
    <3>2. PICK w \in read[o].sheets[t] : z = [w EXCEPT !.active = FALSE] /\ w.key \notin Stored(snap[o], t)
      BY DEF Inactivated, Active
    <3>3. w \in Row
      BY <1>a DEF TypeOK, ReadResult
    <3>4. z.key = w.key
      BY <3>2, <3>3 DEF Row
    <3> QED BY <3>1, <3>2, <3>4
  <2>5. CASE x \in N /\ y \in N
    BY <2>2, <2>3, <2>5
  <2>6. CASE x \in I /\ y \in I
    <3>1. PICK v \in read[o].sheets[t] : x = [v EXCEPT !.active = FALSE] /\ v.key = x.key
      BY <2>4, <2>6
    <3>2. PICK w \in read[o].sheets[t] : y = [w EXCEPT !.active = FALSE] /\ w.key = y.key
      BY <2>4, <2>6
    <3>3. v = w
      BY <2>1, <2>2, <2>4, <2>6, <3>1, <3>2 DEF UniqueKeys, UniqueKey
    <3> QED BY <3>1, <3>2, <3>3
  <2> QED BY <2>2, <2>3, <2>4, <2>5, <2>6
<1> QED BY <1>a, <1>1, <1>2, <1>3, BatchStep

\* Every table is dated or current.
LEMMA TablesAreKnown == \A t \in Tables : t \in CurrentTables \cup DatedTables
BY WriteOrderFacts, WriteOrderAssumption

\* A lookup in a table without duplicates matches all that it should.
LEMMA AllMatchedStep ==
  ASSUME MaxActive = 1, IInv, Alone, UniqueSheets, AllMatched, [Next]_vars
  PROVE  AllMatched'
<1>a. /\ TypeOK /\ GenuineRows /\ pc \in [Runs -> Labels]
      /\ matched \in [Runs -> SUBSET [key : Keys, born : Runs]]
  BY DEF IInv, TypeOK
<1> SUFFICES ASSUME NEW o \in Runs, pc'[o] = "apply"
             PROVE  Matching(o, WriteOrder[at[o]])' /\ at'[o] = at[o]
  BY DEF AllMatched, Matching
<1> DEFINE t == WriteOrder[at[o]]
<1>1. at'[o] = at[o] /\ (LookUp(o) \/ (pc[o] = "apply" /\ matched'[o] = matched[o]))
  BY <1>a, MatchStep
<1>2. batch'[o] = batch[o]
  <2>1. pc[o] # "prepare"
    BY <1>1 DEF LookUp
  <2> QED BY <1>a, <2>1, BatchStep DEF Ended
<1>3. CASE pc[o] = "apply" /\ matched'[o] = matched[o]
  <2>1. sheets' = sheets
    <3>1. CASE UNCHANGED <<terminals, sheets, pc, local>>
      BY <3>1
    <3>2. ASSUME NEW r \in Runs, Step(r) \/ HardStop(r)
          PROVE  sheets' = sheets
      <4>1. r = o
        BY <1>a, <1>3, <3>2, OnlyOne DEF InProgress, Ended
      <4>2. ~Write(o)
        BY <1>a DEF Write, NextTable, Goto
      <4>3. ~WriteFails(o)
        BY <1>a DEF WriteFails, ToFailureBranch, Goto
      <4> QED BY <3>2, <4>1, <4>2, <4>3, SheetsStep
    <3> QED BY <3>1, <3>2, StepCases
  <2> QED BY <1>1, <1>2, <1>3, <2>1 DEF AllMatched, Matching
<1>4. CASE LookUp(o)
  <2> DEFINE hits == { x \in sheets[t] : \E b \in batch[o][t] : UniqueKey(t, b) = UniqueKey(t, x) }
  <2>a. t \in Tables /\ UniqueKeys(t, sheets[t]) /\ sheets' = sheets
    BY <1>a, <1>4, WriteOrderFacts DEF LookUp, UniqueSheets, workbook, TypeOK
  <2>1. PICK m \in SUBSET hits :
          /\ \A x \in hits : \E y \in m : UniqueKey(t, y) = UniqueKey(t, x)
          /\ matched' = [matched EXCEPT ![o] = { [key |-> x.key, born |-> x.born] : x \in m }]
    BY <1>4 DEF LookUp
  <2>2. matched'[o] = { [key |-> x.key, born |-> x.born] : x \in m }
    BY <1>a, <2>1
  <2>3. m = hits
    BY <2>a, <2>1 DEF UniqueKeys
  <2>4. \A x \in sheets[t] : \A b \in batch[o][t] :
          UniqueKey(t, b) = UniqueKey(t, x) => [key |-> x.key, born |-> x.born] \in matched'[o]
    BY <2>2, <2>3
  <2>5. ASSUME NEW p \in matched'[o], NEW q \in matched'[o], p.key = q.key
        PROVE  p = q
    <3>1. PICK x \in hits : p = [key |-> x.key, born |-> x.born]
      BY <2>2, <2>3
    <3>2. PICK y \in hits : q = [key |-> y.key, born |-> y.born]
      BY <2>2, <2>3
    <3>3. x.key = y.key
      BY <2>5, <3>1, <3>2
    <3>4. CASE t \in CurrentTables
      <4>1. x = y
        BY <2>a, <3>3, <3>4 DEF UniqueKeys, UniqueKey
      <4> QED BY <3>1, <3>2, <4>1
    <3>5. CASE t \notin CurrentTables
      <4>1. t \in DatedTables
        BY <2>a, <3>5, TablesAreKnown
      <4>2. x.born = x.run /\ y.born = y.run
        BY <1>a, <2>a, <4>1 DEF GenuineRows, Genuine
      <4>3. x.run = o /\ y.run = o
        <5>1. \A b \in batch[o][t] : b.run = o
          BY <2>a, <4>1 DEF IInv, GenuineBatches, NewRows
        <5> QED BY <3>5, <5>1 DEF UniqueKey
      <4> QED BY <3>1, <3>2, <3>3, <4>2, <4>3
    <3> QED BY <3>4, <3>5
  <2> QED BY <1>1, <1>2, <2>a, <2>4, <2>5 DEF Matching
<1> QED BY <1>1, <1>3, <1>4

\* An upsert that has matched what it should leaves no duplicates behind,
\* whichever of its two calls took effect.
LEMMA UpsertedUnique ==
  ASSUME NEW t, NEW rows \in SUBSET Row, NEW items \in SUBSET Row, NEW found, NEW r \in Runs, NEW calls,
         UniqueKeys(t, rows), UniqueKeys(t, items),
         \A x \in rows : \A b \in items :
           UniqueKey(t, b) = UniqueKey(t, x) => [key |-> x.key, born |-> x.born] \in found,
         \A p, q \in found : p.key = q.key => p = q,
         found \in SUBSET [key : Keys, born : Runs]
  PROVE  UniqueKeys(t, Upserted(rows, items, found, r, calls))
<1> DEFINE Id(x) == [key |-> x.key, born |-> x.born]
           Kept(z) == z \in rows /\ ("update" \in calls => Id(z) \notin found)
           Updated(z) == /\ "update" \in calls
                         /\ \E b \in items : \E p \in found :
                              b.key = p.key /\ z = [b EXCEPT !.born = p.born]
           Appended(z) == \E b \in items : z = [b EXCEPT !.born = r] /\ \A p \in found : p.key # b.key
<1>1. ASSUME NEW z \in Upserted(rows, items, found, r, calls)
      PROVE  Kept(z) \/ Updated(z) \/ Appended(z)
  BY DEF Upserted
<1>2. ASSUME NEW b \in items, NEW w \in Runs
      PROVE  /\ UniqueKey(t, [b EXCEPT !.born = w]) = UniqueKey(t, b)
             /\ [b EXCEPT !.born = w].key = b.key
  BY DEF Row, UniqueKey
<1>3. \A x, y : UniqueKey(t, x) = UniqueKey(t, y) => x.key = y.key
  BY DEF UniqueKey
<1> SUFFICES ASSUME NEW x \in Upserted(rows, items, found, r, calls),
                    NEW y \in Upserted(rows, items, found, r, calls),
                    UniqueKey(t, x) = UniqueKey(t, y)
             PROVE  x = y
  BY DEF UniqueKeys
<1>4. ASSUME NEW u, NEW v, Kept(u), Updated(v) \/ Appended(v), UniqueKey(t, u) = UniqueKey(t, v)
      PROVE  FALSE
  <2>1. CASE Updated(v)
    <3>1. PICK b \in items : \E p \in found : b.key = p.key /\ v = [b EXCEPT !.born = p.born]
      BY <2>1
    <3>2. UniqueKey(t, v) = UniqueKey(t, b)
      BY <1>2, <3>1
    <3> QED BY <1>4, <2>1, <3>2
  <2>2. CASE Appended(v)
    <3>1. PICK b \in items : v = [b EXCEPT !.born = r] /\ \A p \in found : p.key # b.key
      BY <2>2
    <3>2. UniqueKey(t, v) = UniqueKey(t, b)
      BY <1>2, <3>1
    <3>3. Id(u) \in found /\ Id(u).key = u.key
      BY <1>4, <3>2
    <3>4. u.key = b.key
      BY <1>3, <1>4, <3>2
    <3> QED BY <3>1, <3>3, <3>4
  <2> QED BY <1>4, <2>1, <2>2
<1>5. ASSUME NEW u, NEW v, Updated(u), Appended(v), UniqueKey(t, u) = UniqueKey(t, v)
      PROVE  FALSE
  <2>1. PICK b \in items, p \in found : b.key = p.key /\ u = [b EXCEPT !.born = p.born]
    BY <1>5
  <2>2. PICK c \in items : v = [c EXCEPT !.born = r] /\ \A q \in found : q.key # c.key
    BY <1>5
  <2>3. UniqueKey(t, b) = UniqueKey(t, c)
    BY <1>2, <1>5, <2>1, <2>2
  <2> QED BY <1>3, <2>1, <2>2, <2>3
<1>6. CASE Kept(x) /\ Kept(y)
  BY <1>6 DEF UniqueKeys
<1>7. CASE Updated(x) /\ Updated(y)
  <2>1. PICK b \in items, p \in found : b.key = p.key /\ x = [b EXCEPT !.born = p.born]
    BY <1>7
  <2>2. PICK c \in items, q \in found : c.key = q.key /\ y = [c EXCEPT !.born = q.born]
    BY <1>7
  <2>3. UniqueKey(t, b) = UniqueKey(t, c)
    BY <1>2, <2>1, <2>2
  <2>4. b = c /\ p = q
    BY <2>1, <2>2, <2>3 DEF UniqueKeys
  <2> QED BY <2>1, <2>2, <2>4
<1>8. CASE Appended(x) /\ Appended(y)
  <2>1. PICK b \in items : x = [b EXCEPT !.born = r]
    BY <1>8
  <2>2. PICK c \in items : y = [c EXCEPT !.born = r]
    BY <1>8
  <2>3. UniqueKey(t, b) = UniqueKey(t, c)
    BY <1>2, <2>1, <2>2
  <2>4. b = c
    BY <2>3 DEF UniqueKeys
  <2> QED BY <2>1, <2>2, <2>4
<1> HIDE DEF Kept, Updated, Appended
<1> QED BY <1>1, <1>4, <1>5, <1>6, <1>7, <1>8

\* A write whose lookup matched all that it should makes no duplicates.
LEMMA UniqueSheetsStep ==
  ASSUME IInv, UniqueSheets, UniqueBatches, AllMatched, [Next]_vars
  PROVE  UniqueSheets'
<1>a. /\ TypeOK /\ sheets \in [Tables -> SUBSET Row] /\ batch \in [Runs -> [Tables -> SUBSET Row]]
      /\ matched \in [Runs -> SUBSET [key : Keys, born : Runs]] /\ at \in [Runs -> 1 .. Len(WriteOrder)]
  BY DEF IInv, TypeOK
<1>1. CASE sheets' = sheets
  BY <1>1 DEF UniqueSheets
<1>2. ASSUME NEW r \in Runs, Write(r) \/ WriteFails(r)
      PROVE  UniqueSheets'
  <2> DEFINE t == WriteOrder[at[r]]
  <2>1. PICK calls \in SUBSET {"update", "append"} :
          sheets' = [sheets EXCEPT ![t] = Upserted(sheets[t], batch[r][t], matched[r], r, calls)]
    BY <1>a, <1>2, WriteStep
  <2>2. t \in Tables /\ pc[r] = "apply"
    BY <1>a, <1>2, WriteStep, WriteOrderFacts
  <2>3. Matching(r, t)
    BY <2>2 DEF AllMatched
  <2>4. UniqueKeys(t, Upserted(sheets[t], batch[r][t], matched[r], r, calls))
    <3>1. UniqueKeys(t, sheets[t]) /\ UniqueKeys(t, batch[r][t])
      BY <2>2 DEF UniqueSheets, UniqueBatches
    <3>2. /\ \A x \in sheets[t] : \A b \in batch[r][t] :
               UniqueKey(t, b) = UniqueKey(t, x) => [key |-> x.key, born |-> x.born] \in matched[r]
          /\ \A p, q \in matched[r] : p.key = q.key => p = q
      BY <2>3 DEF Matching
    <3>3. /\ sheets[t] \in SUBSET Row /\ batch[r][t] \in SUBSET Row
          /\ matched[r] \in SUBSET [key : Keys, born : Runs]
      BY <1>a, <2>2
    <3> HIDE DEF t
    <3> QED BY <3>1, <3>2, <3>3, UpsertedUnique
  <2>5. \A u \in Tables : u # t => sheets'[u] = sheets[u]
    BY <1>a, <2>1
  <2>6. sheets'[t] = Upserted(sheets[t], batch[r][t], matched[r], r, calls)
    BY <1>a, <2>1, <2>2
  <2> QED BY <2>4, <2>5, <2>6 DEF UniqueSheets
<1> QED BY <1>1, <1>2, StepCases, SheetsStep

\* Serial is inductive, given what always holds.
LEMMA SerialIsKept == ASSUME MaxActive = 1 PROVE Spec => []Serial
<1>1. Init => Serial
  BY DEF Init, Serial, Alone, InProgress, OneTerminal, UniqueSheets, UniqueBatches, AllMatched, NoRows,
         UniqueKeys
<1>2. IInv /\ Serial /\ [Next]_vars => Serial'
  <2>1. IInv => TypeOK
    BY DEF IInv
  <2> QED BY <2>1, AloneStep, OneTerminalStep, UniqueBatchesStep, AllMatchedStep, UniqueSheetsStep DEF Serial
<1> QED BY <1>1, <1>2, ReaderInvariant, PTL DEF Spec

\* With executions excluded from overlapping, a workbook at rest without
\* orphans is valid for the reader and retained for the next run, whatever
\* partial rows failed runs have left in it.
THEOREM SerialIsRecoverable == MaxActive = 1 => (Spec => []Recoverable)
<1> SUFFICES ASSUME MaxActive = 1 PROVE Spec => []Recoverable
  OBVIOUS
<1>1. IInv /\ RInv /\ Serial => Recoverable
  <2> SUFFICES ASSUME IInv, RInv, Serial, NoOrphans
               PROVE  /\ ValidInventory(terminals, sheets)
                      /\ Retained([terminals |-> terminals, sheets |-> sheets])
    BY DEF Recoverable
  <2>1. \A t \in Tables : \A row \in sheets[t] : \E x \in terminals : x.observed /\ x.run = row.run
    BY DEF NoOrphans, Orphans
  <2>2. ValidInventory(terminals, sheets)
    BY <2>1 DEF Serial, UniqueSheets, OneTerminal, ValidInventory
  <2>3. ASSUME NEW x \in Successful(terminals), NEW t \in Tables \cap DatedTables
        PROVE  Cardinality(RowsOf(sheets[t], x.run)) = IF x.counts[t] = Blank THEN 0 ELSE x.counts[t]
    <3>1. x.run \in Runs /\ snap[x.run] \in Snapshots \cup {NoSnapshot}
      BY DEF IInv, TypeOK, Terminal, Successful
    <3>2. Cardinality(RowsOf(sheets[t], x.run)) = Cardinality(Stored(snap[x.run], t))
      BY <3>1, SuccessRows, NewRowsFacts
    <3> QED BY <3>2, CountsOfSuccess, FS_EmptySet
  <2>4. ASSUME NEW x \in Successful(terminals)
        PROVE  Cardinality(RowsOf(sheets["observations"], x.run)) = 1
    <3>1. "observations" \in Tables \cap DatedTables /\ "observations" \in Tables \cap SingleRow
      BY WriteOrderAssumption DEF DatedTables, SingleRow
    <3>2. x.counts["observations"] = 1
      BY <2>2, <3>1, EverySuccessAccepted DEF Accepts
    <3> QED BY <2>3, <3>1, <3>2 DEF Blank
  <2> QED BY <2>1, <2>2, <2>3, <2>4 DEF Retained, Serial, OneTerminal
<1> QED BY <1>1, SerialIsKept, ReaderInvariant, PTL

-----------------------------------------------------------------------------
(* A success is served at once, when executions do not overlap.            *)

\* Before the first read of a table.
Early == {"idle", "fetch", "read control", "read terminals"}

\* From the first write on, until the run fails or has recorded its success.
Busy == Writing \cup Closing

\* What a run has read of the workbook is what the workbook holds.
TrueReads ==
  \A r \in Runs :
    /\ pc[r] \in Early => at[r] = 1
    /\ pc[r] \in {"read tables", "prepare"} => read[r].terminals = terminals
    /\ pc[r] = "read tables" =>
         \A i \in 1 .. Len(WriteOrder) :
           i < at[r] => read[r].sheets[WriteOrder[i]] = sheets[WriteOrder[i]]
    /\ pc[r] = "prepare" => \A t \in Tables : read[r].sheets[t] = sheets[t]

\* A writing run works on rows that others have answered for.
Vouched ==
  \A r \in Runs : pc[r] \in Busy =>
    \A t \in Tables : \A x \in sheets[t] \cup batch[r][t] :
      x.run = r \/ \E y \in terminals : y.observed /\ y.run = x.run

\* A complete collection has an item for every active row, to rewrite it or to
\* mark it as gone...
Covered ==
  \A r \in Runs : \A t \in CurrentTables : pc[r] \in Busy /\ Permitted(snap[r].coverage, t) =>
    \A x \in Active(sheets[t]) : \E b \in batch[r][t] : b.key = x.key

\* Run r, which is going on, is done with table i...
Written(r, i) == pc[r] \in Closing \/ (pc[r] \in Writing /\ i < at[r])

\* ... so that what it has written is all that is active there.
WrittenCurrent ==
  \A r \in Runs : \A i \in 1 .. Len(WriteOrder) :
    LET t == WriteOrder[i] IN
    t \in CurrentTables /\ Written(r, i) /\ Permitted(snap[r].coverage, t) =>
      /\ \A x \in Active(sheets[t]) : x.run = r
      /\ Stored(snap[r], t) \subseteq KeysOf(Active(sheets[t]))

\* Nobody has taken an instant since.
LastStamp == \A r \in Runs : pc[r] = "record" => stamp[r] = clock

\* What holds of the one run that is going on.
Exclusive == TrueReads /\ Vouched /\ Covered /\ WrittenCurrent /\ LastStamp

\* Beside a run in progress nobody takes a step.
LEMMA AloneCases ==
  ASSUME MaxActive = 1, TypeOK, Alone, [Next]_vars, NEW o \in Runs
  PROVE  \/ UNCHANGED <<terminals, sheets, pc, local>>
         \/ Step(o) \/ HardStop(o)
         \/ o \notin InProgress /\ pc'[o] = pc[o] /\ at'[o] = at[o] /\ stamp'[o] = stamp[o]
BY StepCases, OnlyOne, OthersUnchanged

\* Where the reading nodes lead to.
LEMMA ReadingStep ==
  ASSUME TypeOK, NEW o \in Runs, Step(o) \/ HardStop(o), pc'[o] \in Early \cup {"read tables", "prepare"}
  PROVE  \/ pc'[o] \in Early /\ pc[o] \in Early /\ at'[o] = at[o]
         \/ ReadTerminals(o) /\ pc[o] = "read terminals"
         \/ ReadTable(o)
<1>a. pc \in [Runs -> Labels]
  BY DEF TypeOK
<1>b. \A label : Goto(o, label) => pc'[o] = label
  BY <1>a DEF Goto
<1>1. ~HardStop(o) /\ ~FailureNodeFails(o) /\ ~RecordSuccess(o) /\ ~RecordFailure(o)
  BY <1>b DEF HardStop, FailureNodeFails, RecordSuccess, RecordFailure, End, Early
<1>2. ~NodeFails(o) /\ ~Prepare(o) /\ ~FinalizeSuccess(o)
  BY <1>b DEF NodeFails, Prepare, FinalizeSuccess, ToFailureBranch, Early
<1>3. ~SkipTable(o) /\ ~LookUp(o) /\ ~Write(o) /\ ~WriteFails(o)
  BY <1>b DEF SkipTable, LookUp, Write, WriteFails, NextTable, ToFailureBranch, Early
<1>4. ~RecordSuccessFails(o) /\ ~RecordFailureFails(o) /\ ~FinalizeFailure(o)
  <2>1. ~FinalizeFailure(o)
    BY <1>b DEF FinalizeFailure, End, Early
  <2>2. ~RecordSuccessFails(o)
    BY <1>b DEF RecordSuccessFails, ToFailureBranch, Early
  <2>3. ~RecordFailureFails(o)
    BY <1>b DEF RecordFailureFails, End, Early
  <2> QED BY <2>1, <2>2, <2>3
<1>5. Initialize(o) \/ Fetch(o) => pc'[o] \in Early /\ pc[o] \in Early /\ at'[o] = at[o]
  BY <1>b DEF Initialize, Fetch, Early
<1>6. ReadControl(o) => pc'[o] \in Early /\ pc[o] \in Early /\ at'[o] = at[o]
  BY <1>b DEF ReadControl, Early
<1>7. ReadTerminals(o) => pc[o] = "read terminals"
  BY <1>b DEF ReadTerminals, Early
<1> QED BY <1>1, <1>2, <1>3, <1>4, <1>5, <1>6, <1>7 DEF Step

\* Counting through the tables.
LEMMA Counting ==
  ASSUME NEW n \in Nat, NEW a \in 1 .. n, NEW i \in 1 .. n
  PROVE  /\ ~(i < 1)
         /\ i < a + 1 => i < a \/ i = a
         /\ ~(a < n) => i < a \/ i = a
OBVIOUS

\* What is read while nobody writes is read truly.
LEMMA TrueReadsStep ==
  ASSUME MaxActive = 1, TypeOK, Alone, TrueReads, [Next]_vars
  PROVE  TrueReads'
<1>a. /\ pc \in [Runs -> Labels] /\ read \in [Runs -> ReadResult] /\ at \in [Runs -> 1 .. Len(WriteOrder)]
      /\ \A r \in Runs : read[r] \in ReadResult
  BY DEF TypeOK
<1>b. Len(WriteOrder) \in Nat \ {0} /\ \A i \in 1 .. Len(WriteOrder) : WriteOrder[i] \in Tables
  BY WriteOrderFacts
<1> SUFFICES ASSUME NEW o \in Runs, pc'[o] \in Early \cup {"read tables", "prepare"}
             PROVE  /\ pc'[o] \in Early => at'[o] = 1
                    /\ pc'[o] \in {"read tables", "prepare"} => read'[o].terminals = terminals'
                    /\ pc'[o] = "read tables" =>
                         \A i \in 1 .. Len(WriteOrder) :
                           i < at'[o] => read'[o].sheets[WriteOrder[i]] = sheets'[WriteOrder[i]]
                    /\ pc'[o] = "prepare" => \A t \in Tables : read'[o].sheets[t] = sheets'[t]
  BY DEF TrueReads, Early
<1>1. CASE UNCHANGED <<terminals, sheets, pc, local>>
  BY <1>1 DEF TrueReads, local
<1>2. CASE o \notin InProgress /\ pc'[o] = pc[o] /\ at'[o] = at[o]
  <2>1. pc'[o] = "idle"
    BY <1>2 DEF InProgress, Ended, Early
  <2> QED BY <1>2, <2>1 DEF TrueReads, Early
<1>3. CASE Step(o) \/ HardStop(o)
  <2>1. CASE pc'[o] \in Early /\ pc[o] \in Early /\ at'[o] = at[o]
    BY <2>1 DEF TrueReads, Early
  <2>2. CASE ReadTerminals(o) /\ pc[o] = "read terminals"
    <3>1. /\ pc'[o] = "read tables" /\ at'[o] = at[o] /\ UNCHANGED <<terminals, sheets>>
      BY <1>a, <2>2 DEF ReadTerminals, Goto, workbook
    <3>3. read'[o].terminals = terminals
      <4>1. read[o] \in ReadResult /\ read' = [read EXCEPT ![o].terminals = terminals]
        BY <1>a, <2>2 DEF ReadTerminals
      <4> QED BY <1>a, <4>1 DEF ReadResult
    <3>2. at[o] = 1
      BY <2>2 DEF TrueReads, Early
    <3>4. ~\E i \in 1 .. Len(WriteOrder) : i < 1
      BY <1>a, <1>b, Counting
    <3> QED BY <3>1, <3>2, <3>3, <3>4 DEF Early
  <2>3. CASE ReadTable(o)
    <3> DEFINE t == WriteOrder[at[o]]
    <3>1. /\ pc[o] = "read tables" /\ UNCHANGED <<terminals, sheets>>
          /\ read' = [read EXCEPT ![o].sheets[t] = sheets[t]]
      BY <2>3 DEF ReadTable, workbook
    <3>a. read[o] \in ReadResult /\ t \in Tables
      BY <1>a, <1>b
    <3>2. /\ read'[o].terminals = read[o].terminals
          /\ \A u \in Tables : read'[o].sheets[u] = IF u = t THEN sheets[u] ELSE read[o].sheets[u]
      BY <1>a, <3>1, <3>a DEF ReadResult
    <3>3. at[o] \in 1 .. Len(WriteOrder)
      BY <1>a
    <3>4. CASE at[o] < Len(WriteOrder)
      <4>1. pc'[o] = "read tables" /\ at'[o] = at[o] + 1
        BY <1>a, <2>3, <3>1, <3>4 DEF ReadTable
      <4>2. ASSUME NEW i \in 1 .. Len(WriteOrder), i < at'[o]
            PROVE  read'[o].sheets[WriteOrder[i]] = sheets'[WriteOrder[i]]
        <5>1. i < at[o] \/ i = at[o]
          BY <1>b, <3>3, <4>1, <4>2, Counting
        <5> QED BY <1>b, <3>1, <3>2, <5>1 DEF TrueReads
      <4> QED BY <3>1, <3>2, <4>1, <4>2 DEF TrueReads, Early
    <3>5. CASE ~(at[o] < Len(WriteOrder))
      <4>1. pc'[o] = "prepare"
        BY <1>a, <2>3, <3>5 DEF ReadTable, Goto
      <4>2. ASSUME NEW u \in Tables
            PROVE  read'[o].sheets[u] = sheets'[u]
        <5>1. PICK i \in 1 .. Len(WriteOrder) : u = WriteOrder[i]
          BY WriteOrderFacts
        <5>2. i < at[o] \/ i = at[o]
          BY <1>b, <3>3, <3>5, Counting
        <5> QED BY <3>1, <3>2, <5>1, <5>2 DEF TrueReads
      <4> QED BY <3>1, <3>2, <4>1, <4>2 DEF TrueReads, Early
    <3> QED BY <3>4, <3>5
  <2> QED BY <1>3, <2>1, <2>2, <2>3, ReadingStep
<1> QED BY <1>1, <1>2, <1>3, AloneCases

\* What a run that is writing or about to record does to the workbook.
LEMMA BusyStep ==
  ASSUME MaxActive = 1, TypeOK, Alone, [Next]_vars, NEW o \in Runs, pc'[o] \in Busy
  PROVE  \/ /\ pc[o] \in Busy /\ batch'[o] = batch[o] /\ snap'[o] = snap[o]
            /\ \A y \in terminals : y.run # o => y \in terminals'
            /\ sheets' = sheets \/ Write(o) \/ WriteFails(o)
         \/ /\ pc'[o] = "write" /\ at'[o] = 1 /\ snap'[o] = snap[o]
            /\ pc[o] = "prepare" /\ Retained(read[o]) /\ batch'[o] = Batches(snap[o], read[o], o)
            /\ UNCHANGED <<terminals, sheets>>
<1>a. /\ pc \in [Runs -> Labels] /\ at \in [Runs -> 1 .. Len(WriteOrder)]
      /\ batch \in [Runs -> [Tables -> SUBSET Row]]
  BY DEF TypeOK
<1>1. CASE UNCHANGED <<terminals, sheets, pc, local>>
  BY <1>1 DEF local
<1>2. CASE o \notin InProgress /\ pc'[o] = pc[o]
  BY <1>2 DEF InProgress, Ended, Busy, Writing, Closing
<1>3. CASE Step(o) \/ HardStop(o)
  <2>1. CASE Prepare(o)
    <3>1. ~ToFailureBranch(o)
      BY <1>a DEF ToFailureBranch, Goto, Busy, Writing, Closing
    <3>2. /\ pc[o] = "prepare" /\ Retained(read[o])
          /\ batch' = [batch EXCEPT ![o] = Batches(snap[o], read[o], o)]
          /\ Goto(o, "write") /\ Forget(o) /\ UNCHANGED <<workbook, snap>>
      BY <2>1, <3>1 DEF Prepare
    <3> QED BY <1>a, <3>2 DEF Goto, Forget, workbook
  <2>2. CASE ~Prepare(o)
    <3>1. pc[o] \in Going \/ Fetch(o)
      BY <1>3, GoingStep DEF Busy, Going
    <3>2. ~Fetch(o)
      BY <1>a DEF Fetch, Goto, Busy, Writing, Closing
    <3>3. pc[o] # "prepare"
      <4>1. ~HardStop(o)
        BY <1>a DEF HardStop, End, Goto, Busy, Writing, Closing
      <4> QED BY <1>3, <2>2, <4>1
          DEF Step, Initialize, Fetch, ReadControl, ReadTerminals, ReadTable, NodeFails, Reading, SkipTable,
              LookUp, Write, WriteFails, FinalizeSuccess, RecordSuccess, RecordSuccessFails,
              FailureNodeFails, FinalizeFailure, RecordFailure, RecordFailureFails
    <3>4. batch'[o] = batch[o] /\ pc[o] \in Writing \cup Closing
      BY <3>3, BatchStep DEF Busy, Writing, Closing, Ended
    <3>5. snap'[o] = snap[o]
      BY <3>4, SnapshotKept DEF Writing, Closing
    <3>6. \A y \in terminals : y.run # o => y \in terminals'
      BY <1>3, TerminalsStep DEF Recorded, SuccessRow, FailedRow
    <3>7. sheets' = sheets \/ Write(o) \/ WriteFails(o)
      BY <1>3, SheetsStep
    <3> QED BY <3>4, <3>5, <3>6, <3>7 DEF Busy
  <2> QED BY <2>1, <2>2
<1> QED BY <1>1, <1>2, <1>3, AloneCases

\* What a write leaves in a table: rows it had, and items.
LEMMA WriteLeaves ==
  ASSUME TypeOK, NEW o \in Runs, Write(o) \/ WriteFails(o), NEW t \in Tables, NEW x \in sheets'[t]
  PROVE  x \in sheets[t] \/ \E b \in batch[o][t] : x.key = b.key /\ x.run = b.run /\ x.active = b.active
<1>a. /\ sheets \in [Tables -> SUBSET Row] /\ batch \in [Runs -> [Tables -> SUBSET Row]]
      /\ matched \in [Runs -> SUBSET [key : Keys, born : Runs]]
  BY DEF TypeOK
<1>1. PICK calls : sheets' = [sheets EXCEPT ![WriteOrder[at[o]]] =
                      Upserted(sheets[WriteOrder[at[o]]], batch[o][WriteOrder[at[o]]],
                               matched[o], o, calls)]
  BY WriteStep
<1>2. CASE t = WriteOrder[at[o]]
  <2>1. x \in Upserted(sheets[t], batch[o][t], matched[o], o, calls)
    BY <1>a, <1>1, <1>2
  <2>2. /\ sheets[t] \in SUBSET Row /\ batch[o][t] \in SUBSET Row
        /\ matched[o] \in SUBSET [key : Keys, born : Runs]
    BY <1>a
  <2> QED BY <2>1, <2>2, UpsertedFrom
<1>3. CASE t # WriteOrder[at[o]]
  BY <1>a, <1>1, <1>3
<1> QED BY <1>2, <1>3

\* What was read of a retained workbook has been answered for.
LEMMA VouchedStep ==
  ASSUME MaxActive = 1, TypeOK, Alone, TrueReads, Vouched, [Next]_vars
  PROVE  Vouched'
<1> SUFFICES ASSUME NEW o \in Runs, pc'[o] \in Busy, NEW t \in Tables, NEW x \in sheets'[t] \cup batch'[o][t]
             PROVE  x.run = o \/ \E y \in terminals' : y.observed /\ y.run = x.run
  BY DEF Vouched, Busy, Writing, Closing
<1>1. CASE /\ pc[o] \in Busy /\ batch'[o] = batch[o]
           /\ \A y \in terminals : y.run # o => y \in terminals'
           /\ sheets' = sheets \/ Write(o) \/ WriteFails(o)
  <2>1. PICK b \in sheets[t] \cup batch[o][t] : x.run = b.run
    BY <1>1, WriteLeaves
  <2> QED BY <1>1, <2>1 DEF Vouched
<1>2. CASE /\ pc[o] = "prepare" /\ Retained(read[o]) /\ batch'[o] = Batches(snap[o], read[o], o)
           /\ UNCHANGED <<terminals, sheets>>
  <2>1. read[o].terminals = terminals /\ read[o].sheets[t] = sheets[t]
    BY <1>2 DEF TrueReads
  <2>2. \A b \in sheets[t] : \E y \in terminals : y.observed /\ y.run = b.run
    BY <1>2, <2>1 DEF Retained
  <2>3. CASE x \in NewRows(snap[o], o, t)
    BY <2>3 DEF NewRows
  <2>4. CASE x \in Inactivated(snap[o], read[o], t)
    <3>1. PICK b \in sheets[t] : x = [b EXCEPT !.active = FALSE]
      BY <2>1, <2>4 DEF Inactivated, Active
    <3>2. b \in Row
      BY DEF TypeOK
    <3>3. x.run = b.run
      BY <3>1, <3>2 DEF Row
    <3> QED BY <1>2, <2>2, <3>3
  <2> QED BY <1>2, <2>2, <2>3, <2>4 DEF Batches
<1> QED BY <1>1, <1>2, BusyStep

\* A batch is made of all that the table has.
LEMMA CoveredStep ==
  ASSUME MaxActive = 1, TypeOK, Alone, TrueReads, Covered, [Next]_vars
  PROVE  Covered'
<1> SUFFICES ASSUME NEW o \in Runs, NEW t \in CurrentTables, pc'[o] \in Busy, Permitted(snap'[o].coverage, t),
                    NEW x \in Active(sheets'[t])
             PROVE  \E b \in batch'[o][t] : b.key = x.key
  BY DEF Covered, Busy, Writing, Closing, Active
<1>a. t \in Tables
  BY WriteOrderAssumption
<1>1. CASE /\ pc[o] \in Busy /\ batch'[o] = batch[o] /\ snap'[o] = snap[o]
           /\ sheets' = sheets \/ Write(o) \/ WriteFails(o)
  <2>1. x \in Active(sheets[t]) \/ \E b \in batch[o][t] : x.key = b.key
    BY <1>1, <1>a, WriteLeaves DEF Active
  <2> QED BY <1>1, <2>1 DEF Covered
<1>2. CASE /\ pc[o] = "prepare" /\ batch'[o] = Batches(snap[o], read[o], o)
           /\ UNCHANGED sheets /\ snap'[o] = snap[o]
  <2>1. x \in Active(read[o].sheets[t]) /\ x \in Row
    BY <1>2, <1>a DEF TrueReads, Active, TypeOK
  <2>2. CASE x.key \in Stored(snap[o], t)
    <3>1. [key |-> x.key, born |-> o, run |-> o, active |-> TRUE] \in NewRows(snap[o], o, t)
      BY <2>2 DEF NewRows
    <3> QED BY <1>2, <1>a, <3>1 DEF Batches
  <2>3. CASE x.key \notin Stored(snap[o], t)
    <3>1. [x EXCEPT !.active = FALSE] \in Inactivated(snap[o], read[o], t)
      BY <1>2, <2>1, <2>3 DEF Inactivated
    <3>2. [x EXCEPT !.active = FALSE].key = x.key
      BY <2>1 DEF Row
    <3> QED BY <1>2, <1>a, <3>1, <3>2 DEF Batches
  <2> QED BY <2>2, <2>3
<1> QED BY <1>1, <1>2, BusyStep

\* The instant of a success is the last one taken when it is recorded.
LEMMA LastStampStep ==
  ASSUME MaxActive = 1, TypeOK, Alone, LastStamp, [Next]_vars
  PROVE  LastStamp'
<1> SUFFICES ASSUME NEW o \in Runs, pc'[o] = "record" PROVE stamp'[o] = clock'
  BY DEF LastStamp
<1>1. ASSUME NEW r \in Runs, Step(r) \/ HardStop(r)
      PROVE  stamp'[o] = clock'
  <2>1. CASE r # o
    <3>1. pc'[o] = pc[o]
      BY <1>1, <2>1, OthersUnchanged
    <3>2. o \in InProgress
      BY <3>1 DEF InProgress, Ended
    <3> QED BY <1>1, <2>1, <3>2, OnlyOne
  <2>2. CASE r = o
    <3>1. pc[o] \in Going \/ Fetch(o)
      BY <1>1, <2>2, GoingStep DEF Going, Closing
    <3>2. ~Fetch(o)
      BY DEF Fetch, Goto, TypeOK
    <3>3. pc[o] # "record failure"
      BY <3>1, <3>2 DEF Going, Writing, Closing
    <3> QED BY <1>1, <2>2, <3>3, ClockStep DEF LastStamp
  <2> QED BY <2>1, <2>2
<1>2. CASE Operator \/ UNCHANGED vars
  <2>1. clock' = clock
    BY <1>2 DEF Operator, SwitchState, ReplaceWriter, Configure, vars
  <2>2. pc' = pc /\ stamp' = stamp
    BY <1>2, OperatorFrame DEF local
  <2> QED BY <2>1, <2>2 DEF LastStamp
<1> QED BY <1>1, <1>2 DEF Next

\* An upsert both of whose calls took effect leaves the rows it did not match
\* and all of its items.
LEMMA UpsertedWhole ==
  ASSUME NEW rows \in SUBSET Row, NEW items \in SUBSET Row,
         NEW found \in SUBSET [key : Keys, born : Runs], NEW r \in Runs
  PROVE  /\ \A x \in Upserted(rows, items, found, r, {"update", "append"}) :
              \/ x \in rows /\ [key |-> x.key, born |-> x.born] \notin found
              \/ \E b \in items : x.key = b.key /\ x.run = b.run /\ x.active = b.active
         /\ \A b \in items : \E x \in Upserted(rows, items, found, r, {"update", "append"}) :
              x.key = b.key /\ x.run = b.run /\ x.active = b.active
<1> DEFINE U == Upserted(rows, items, found, r, {"update", "append"})
<1>1. ASSUME NEW x \in U
      PROVE  \/ x \in rows /\ [key |-> x.key, born |-> x.born] \notin found
             \/ \E b \in items : x.key = b.key /\ x.run = b.run /\ x.active = b.active
  BY DEF Upserted, Row
<1>2. ASSUME NEW b \in items
      PROVE  \E x \in U : x.key = b.key /\ x.run = b.run /\ x.active = b.active
  <2>1. \A w : LET z == [b EXCEPT !.born = w] IN z.key = b.key /\ z.run = b.run /\ z.active = b.active
    BY DEF Row
  <2>2. CASE \A p \in found : p.key # b.key
    <3>1. [b EXCEPT !.born = r] \in U
      BY <2>2 DEF Upserted
    <3> QED BY <2>1, <3>1
  <2>3. ASSUME NEW p \in found, p.key = b.key
        PROVE  \E x \in U : x.key = b.key /\ x.run = b.run /\ x.active = b.active
    <3>1. PICK q \in items \X found : q[1] = b /\ q[2] = p
      <4>1. <<b, p>> \in items \X found /\ <<b, p>>[1] = b /\ <<b, p>>[2] = p
        OBVIOUS
      <4> QED BY <4>1
    <3>2. [q[1] EXCEPT !.born = q[2].born] \in U
      BY <2>3, <3>1 DEF Upserted
    <3> QED BY <2>1, <3>1, <3>2
  <2> QED BY <2>2, <2>3
<1> QED BY <1>1, <1>2

\* A run is done with a table by writing it, or by having nothing for it.
LEMMA WrittenStep ==
  ASSUME IInv, [Next]_vars, NEW o \in Runs, NEW i \in 1 .. Len(WriteOrder), Written(o, i)'
  PROVE  Written(o, i) \/ (i = at[o] /\ (Write(o) \/ SkipTable(o))) \/ pc[o] = "prepare"
<1>a. TypeOK
  BY DEF IInv
<1>1. Past(o, i) \/ (i = at[o] /\ (Write(o) \/ SkipTable(o)))
  BY PastStep DEF Written, Past, Closing, Writing
<1>2. pc'[o] \in Writing \cup Closing
  BY DEF Written
<1>3. pc[o] \in Writing \cup Closing \/ pc[o] = "prepare"
  BY <1>a, <1>2, BatchStep DEF Ended, Writing, Closing
<1>4. CASE Recording(o) /\ pc[o] \in Writing \cup Closing
  <2>1. pc[o] = "record"
    BY <1>4 DEF IInv, SuccessInPlace, Recording, Stamped, Ended, Writing, Closing
  <2> QED BY <2>1 DEF Written, Closing
<1> QED BY <1>1, <1>3, <1>4 DEF Past, Written

\* A write replaces every active row of its table.
LEMMA WriteReplaces ==
  ASSUME IInv, Serial, Covered, NEW o \in Runs, Write(o), WriteOrder[at[o]] \in CurrentTables,
         Permitted(snap[o].coverage, WriteOrder[at[o]])
  PROVE  /\ \A x \in Active(sheets'[WriteOrder[at[o]]]) : x.run = o
         /\ Stored(snap[o], WriteOrder[at[o]]) \subseteq KeysOf(Active(sheets'[WriteOrder[at[o]]]))
<1> DEFINE t == WriteOrder[at[o]]
           U == Upserted(sheets[t], batch[o][t], matched[o], o, {"update", "append"})
<1>a. t \in Tables /\ t \in CurrentTables /\ pc[o] = "apply" /\ TypeOK
  BY WriteOrderAssumption DEF Write, IInv
<1>b. /\ sheets[t] \in SUBSET Row /\ batch[o][t] \in SUBSET Row
      /\ matched[o] \in SUBSET [key : Keys, born : Runs]
  BY <1>a DEF TypeOK
<1>1. sheets'[t] = U
  BY <1>a DEF Write, Apply, TypeOK
<1>2. Matching(o, t)
  BY <1>a DEF Serial, AllMatched
<1>3. /\ \A b \in batch[o][t] : b.active => b.run = o
      /\ NewRows(snap[o], o, t) \subseteq batch[o][t]
  BY <1>a DEF IInv, GenuineBatches, NewRows, Writing
<1>4. \A x \in Active(sheets[t]) : \E b \in batch[o][t] : b.key = x.key
  BY <1>a DEF Covered, Busy, Writing
<1>c. /\ \A x \in U : \/ x \in sheets[t] /\ [key |-> x.key, born |-> x.born] \notin matched[o]
                      \/ \E b \in batch[o][t] : x.key = b.key /\ x.run = b.run /\ x.active = b.active
      /\ \A b \in batch[o][t] : \E x \in U : x.key = b.key /\ x.run = b.run /\ x.active = b.active
  BY <1>b, UpsertedWhole
<1> HIDE DEF U
<1>5. ASSUME NEW x \in Active(U)
      PROVE  x.run = o
  <2>1. x \in U /\ x.active
    BY DEF Active
  <2>2. CASE x \in sheets[t] /\ [key |-> x.key, born |-> x.born] \notin matched[o]
    <3>1. PICK b \in batch[o][t] : b.key = x.key
      BY <1>4, <2>1, <2>2 DEF Active
    <3>2. UniqueKey(t, b) = UniqueKey(t, x)
      BY <1>a, <3>1 DEF UniqueKey
    <3> QED BY <1>2, <2>2, <3>2 DEF Matching
  <2>3. CASE \E b \in batch[o][t] : x.key = b.key /\ x.run = b.run /\ x.active = b.active
    BY <1>3, <2>1, <2>3
  <2> QED BY <1>c, <2>1, <2>2, <2>3
<1>6. ASSUME NEW k \in Stored(snap[o], t)
      PROVE  k \in KeysOf(Active(U))
  <2>1. PICK b \in batch[o][t] : b.key = k /\ b.active
    <3>1. [key |-> k, born |-> o, run |-> o, active |-> TRUE] \in batch[o][t]
      BY <1>3 DEF NewRows
    <3> QED BY <3>1
  <2>2. PICK x \in U : x.key = b.key /\ x.active = b.active
    BY <1>c
  <2> QED BY <2>1, <2>2 DEF KeysOf, Active
<1> QED BY <1>1, <1>5, <1>6

\* What a run has written is all that is active.
LEMMA WrittenCurrentStep ==
  ASSUME MaxActive = 1, IInv, Serial, Covered, WrittenCurrent, [Next]_vars
  PROVE  WrittenCurrent'
<1>a. /\ TypeOK /\ at \in [Runs -> 1 .. Len(WriteOrder)] /\ sheets \in [Tables -> SUBSET Row]
      /\ Alone
  BY DEF IInv, TypeOK, Serial
<1> SUFFICES ASSUME NEW o \in Runs, NEW i \in 1 .. Len(WriteOrder), WriteOrder[i] \in CurrentTables,
                    Written(o, i)', Permitted(snap'[o].coverage, WriteOrder[i])
             PROVE  /\ \A x \in Active(sheets'[WriteOrder[i]]) : x.run = o
                    /\ Stored(snap'[o], WriteOrder[i]) \subseteq KeysOf(Active(sheets'[WriteOrder[i]]))
  BY DEF WrittenCurrent, Written, Stored, Active
<1> DEFINE t == WriteOrder[i]
<1>b. t \in Tables /\ pc'[o] \in Busy
  BY WriteOrderFacts DEF Written, Busy
<1>1. CASE /\ pc[o] \in Busy /\ batch'[o] = batch[o] /\ snap'[o] = snap[o]
           /\ sheets' = sheets \/ Write(o) \/ WriteFails(o)
  <2>1. Written(o, i) \/ (i = at[o] /\ (Write(o) \/ SkipTable(o)))
    BY <1>1, WrittenStep DEF Busy, Writing, Closing
  <2>2. CASE Written(o, i)
    <3>1. sheets'[t] = sheets[t]
      <4>1. CASE Write(o) \/ WriteFails(o)
        <5>1. pc[o] = "apply"
          BY <1>a, <4>1, WriteStep
        <5>2. i < at[o]
          BY <2>2, <5>1 DEF Written, Closing
        <5>3. i # at[o]
          BY <5>2
        <5>4. WriteOrder[at[o]] # t
          BY <1>a, <5>3, WriteOrderFacts
        <5>5. PICK rows : sheets' = [sheets EXCEPT ![WriteOrder[at[o]]] = rows]
          BY <1>a, <4>1, WriteStep
        <5> QED BY <1>a, <1>b, <5>4, <5>5
      <4> QED BY <1>1, <4>1
    <3> QED BY <1>1, <2>2, <3>1 DEF WrittenCurrent
  <2>3. CASE i = at[o] /\ SkipTable(o)
    <3>1. batch[o][t] = {} /\ sheets' = sheets /\ pc[o] = "write"
      BY <2>3 DEF SkipTable, workbook
    <3>2. Active(sheets[t]) = {}
      BY <1>1, <3>1 DEF Covered
    <3>3. NewRows(snap[o], o, t) = {}
      BY <1>b, <3>1 DEF IInv, GenuineBatches, Writing
    <3>4. Stored(snap[o], t) = {}
      BY <3>3 DEF NewRows
    <3> QED BY <1>1, <3>1, <3>2, <3>4
  <2>4. CASE i = at[o] /\ Write(o)
    BY <1>1, <2>4, WriteReplaces
  <2> QED BY <2>1, <2>2, <2>3, <2>4
<1>2. CASE pc'[o] = "write" /\ at'[o] = 1
  <2>1. i < 1
    BY <1>2 DEF Written, Closing
  <2> QED BY <1>a, <2>1, Counting, WriteOrderFacts
<1> QED BY <1>a, <1>b, <1>1, <1>2, BusyStep

-----------------------------------------------------------------------------
(* A complete success is served from the step that stores it.              *)

\* Success x is the newest, and its run's rows are all that is active.
Whole(x) ==
  /\ \A y \in Successful(terminals) : y.completed <= x.completed
  /\ \A t \in CurrentTables :
       /\ Permitted(snap[x.run].coverage, t)
       /\ \A row \in Active(sheets[t]) : row.run = x.run
       /\ Stored(snap[x.run], t) \subseteq KeysOf(Active(sheets[t]))

\* What the reader makes of it.
WholeServed ==
  ValidInventory(terminals, sheets) =>
    \A x \in Successful(terminals) : Whole(x) =>
      View = [kind |-> "selected", run |-> x.run, current |-> TRUE, fallback |-> FALSE]

\* Active rows that are the snapshot's are as many as the success counted.
LEMMA WholeIsCurrent ==
  ASSUME IInv, ValidInventory(terminals, sheets), NEW x \in Successful(terminals), Whole(x)
  PROVE  CurrentComplete(sheets, x)
<1> SUFFICES ASSUME NEW t \in CurrentTables PROVE HasCurrent(sheets, x, t)
  BY DEF CurrentComplete
<1> DEFINE A == Active(sheets[t])
           S == Stored(snap[x.run], t)
           f == [row \in A |-> row.key]
<1>1. t \in Tables
  BY WriteOrderAssumption
<1>2. /\ \A row \in A : row.run = x.run
      /\ S \subseteq KeysOf(A) /\ Permitted(snap[x.run].coverage, t)
  BY DEF Whole
<1>3. \A row \in A : row.key \in S
  BY <1>1, <1>2 DEF Active, IInv, GenuineRows, Genuine
<1>4. f \in [A -> S]
  BY <1>3
<1>5. \A a, b \in A : f[a] = f[b] => a = b
  BY <1>1 DEF Active, ValidInventory, UniqueKeys, UniqueKey
<1>6. \A k \in S : \E row \in A : f[row] = k
  BY <1>2 DEF KeysOf
<1>7. f \in Bijection(A, S)
  BY <1>4, <1>5, <1>6 DEF Bijection, Injection, Surjection, IsInjective
<1>8. A \in SUBSET Row
  BY <1>1 DEF IInv, TypeOK, Active
<1>9. IsFiniteSet(A)
  BY <1>8, RowFinite, FS_Subset
<1>10. Cardinality(A) = Cardinality(S)
  BY <1>7, <1>9, FS_Bijection DEF ExistsBijection
<1> HIDE DEF f
<1> QED BY <1>1, <1>2, <1>10, CountsOfSuccess DEF HasCurrent

\* The reader shows it without falling back.
LEMMA WholeIsServed == ASSUME IInv, RInv PROVE WholeServed
<1> SUFFICES ASSUME ValidInventory(terminals, sheets), NEW x \in Successful(terminals), Whole(x)
             PROVE  View = [kind |-> "selected", run |-> x.run, current |-> TRUE, fallback |-> FALSE]
  BY DEF WholeServed
<1> DEFINE C == Successful(terminals)
           S == { y \in C : Accepts(sheets, Context, y) }
           Newest == CHOOSE y \in C : \A z \in C : z.completed <= y.completed
<1>1. \A y, z \in C : y.completed = z.completed => y = z
  BY DEF RInv, Stamps, Successful
<1>2. S = C /\ C # {}
  BY EverySuccessAccepted
<1>3. CurrentComplete(sheets, x)
  BY WholeIsCurrent
<1>4. \A y \in C : y.completed \in Nat
  BY DEF IInv, TypeOK, Terminal, Successful
<1>5. Newest = x
  <2>1. \A y \in C : y.completed <= x.completed
    BY DEF Whole
  <2>2. Newest \in C /\ \A z \in C : z.completed <= Newest.completed
    BY <2>1
  <2>3. Newest.completed <= x.completed /\ x.completed <= Newest.completed
    BY <2>1, <2>2
  <2>4. Newest.completed \in Nat /\ x.completed \in Nat
    BY <1>4, <2>2
  <2> HIDE DEF Newest
  <2>5. Newest.completed = x.completed
    BY <2>3, <2>4
  <2> QED BY <1>1, <2>2, <2>5
<1>6. View = [kind |-> "selected", run |-> Newest.run, current |-> CurrentComplete(sheets, Newest),
              fallback |-> ~CurrentComplete(sheets, Newest) \/ Newest # Newest]
  BY <1>1, <1>2 DEF View, Select
<1> HIDE DEF Newest
<1> QED BY <1>3, <1>5, <1>6

\* What is true of a run on its own stays so.
LEMMA ExclusiveStep ==
  ASSUME MaxActive = 1, IInv, Serial, Exclusive, [Next]_vars
  PROVE  Exclusive'
<1>1. TypeOK /\ Alone
  BY DEF IInv, Serial
<1> QED BY <1>1, TrueReadsStep, VouchedStep, CoveredStep, WrittenCurrentStep, LastStampStep DEF Exclusive

\* The step that stores a success makes it the newest, and finds the workbook
\* valid and written.
LEMMA StoredWhole ==
  ASSUME IInv, RInv, Serial, Exclusive, [Next]_vars, Serial', WholeServed',
         NEW x \in Successful(terminals') \ terminals, PositionsComplete(snap[x.run].coverage)
  PROVE  View' = [kind |-> "selected", run |-> x.run, current |-> TRUE, fallback |-> FALSE]
<1>a. TypeOK /\ clock \in Nat
  BY DEF IInv, TypeOK
<1>1. PICK o \in Runs : /\ RecordSuccess(o) \/ RecordSuccessFails(o)
                        /\ pc[o] = "record" /\ terminals' = Recorded(SuccessRow(o))
  <2>1. PICK r \in Runs : Step(r) \/ HardStop(r)
    BY StepCases DEF Successful
  <2>2. terminals' # Recorded(FailedRow(r))
    BY DEF Recorded, FailedRow, Successful
  <2> QED BY <1>a, <2>1, <2>2, TerminalsStep DEF Successful
<1>2. UNCHANGED <<sheets, snap>>
  BY <1>1 DEF RecordSuccess, RecordSuccessFails, End
<1>3. x = SuccessRow(o) /\ x.run = o /\ x.completed = stamp[o] /\ x.observed /\ x \in terminals'
  <2>1. x = SuccessRow(o)
    BY <1>1 DEF Recorded, Successful
  <2> QED BY <2>1 DEF SuccessRow, Successful
<1>4. \A y \in terminals' : y = x \/ y \in terminals
  BY <1>1, <1>3 DEF Recorded
<1>5. \A y \in terminals : y.run # o => y \in terminals'
  BY <1>1, <1>3 DEF Recorded
<1>6. ValidInventory(terminals', sheets')
  <2>1. \A t \in Tables : \A row \in sheets'[t] : \E y \in terminals' : y.observed /\ y.run = row.run
    <3>1. \A t \in Tables : \A row \in sheets[t] :
            row.run = o \/ \E y \in terminals : y.observed /\ y.run = row.run
      BY <1>1 DEF Exclusive, Vouched, Busy, Closing
    <3> QED BY <1>2, <1>3, <1>5, <3>1
  <2>2. \A t \in Tables : UniqueKeys(t, sheets'[t])
    BY DEF Serial, UniqueSheets, UniqueKeys, UniqueKey
  <2>3. \A y, z \in terminals' : y.run = z.run => y = z
    BY DEF Serial, OneTerminal
  <2> QED BY <2>1, <2>2, <2>3 DEF ValidInventory
<1>7. \A y \in Successful(terminals') : y.completed <= x.completed
  <2>1. stamp[o] = clock
    BY <1>1 DEF Exclusive, LastStamp
  <2>2. \A y \in terminals : y.completed \in 1 .. clock
    BY DEF RInv, Stamps
  <2>3. \A y \in terminals : y.completed <= clock
    BY <1>a, <2>2
  <2>4. clock <= clock
    BY <1>a
  <2> QED BY <1>3, <1>4, <2>1, <2>3, <2>4 DEF Successful
<1>8. ASSUME NEW t \in CurrentTables
      PROVE  /\ Permitted(snap[o].coverage, t)
             /\ \A row \in Active(sheets[t]) : row.run = o
             /\ Stored(snap[o], t) \subseteq KeysOf(Active(sheets[t]))
  <2>1. PICK i \in 1 .. Len(WriteOrder) : t = WriteOrder[i]
    BY WriteOrderFacts, WriteOrderAssumption
  <2>2. Written(o, i)
    BY <1>1 DEF Written, Closing
  <2>3. Permitted(snap[o].coverage, t)
    BY <1>3 DEF Permitted, PositionsComplete, CurrentTables
  <2> QED BY <2>1, <2>2, <2>3 DEF Exclusive, WrittenCurrent
<1>9. Whole(x)'
  BY <1>2, <1>3, <1>7, <1>8 DEF Whole
<1> QED BY <1>6, <1>9 DEF WholeServed

\* With executions excluded from overlapping, a success with complete
\* collections is served in full from the step that stores it, over whatever
\* failed, partial or cut-off runs left in the workbook before.
THEOREM CompleteIsServed == MaxActive = 1 => (Spec => CompleteSuccessServed)
<1> SUFFICES ASSUME MaxActive = 1 PROVE Spec => CompleteSuccessServed
  OBVIOUS
<1>1. Init => Exclusive
  BY DEF Init, Exclusive, TrueReads, Vouched, Covered, WrittenCurrent, LastStamp, Written, Busy, Early,
         Writing, Closing
<1>2. IInv /\ Serial /\ Exclusive /\ [Next]_vars => Exclusive'
  BY ExclusiveStep
<1>3. (IInv /\ RInv)' => WholeServed'
  <2>1. IInv /\ RInv => WholeServed
    BY WholeIsServed
  <2> QED BY <2>1, PTL
<1>4. IInv /\ RInv /\ Serial /\ Exclusive /\ [Next]_vars /\ Serial' /\ WholeServed' =>
        [ \A x \in Successful(terminals') \ terminals :
            PositionsComplete(snap[x.run].coverage) =>
              View' = [kind |-> "selected", run |-> x.run, current |-> TRUE, fallback |-> FALSE] ]_vars
  BY StoredWhole
<1> QED BY <1>1, <1>2, <1>3, <1>4, SerialIsKept, ReaderInvariant, PTL DEF Spec, CompleteSuccessServed
=============================================================================

--------------------------- MODULE WorkbookSafety ---------------------------
(***************************************************************************)
(* What the synchronization must guarantee, about the workbook and about   *)
(* what the reference reader makes of it.                                  *)
(***************************************************************************)
EXTENDS WorkbookSync

\* The coverage the observations row of each run carries.
Context == [r \in Runs |-> snap[r].coverage]

View == Select(terminals, sheets, Context)

Orphans(t) ==
  { row \in sheets[t] : \A x \in terminals : ~(x.observed /\ x.run = row.run) }

NoOrphans == \A t \in Tables : Orphans(t) = {}

ReadResult ==
  [ control   : [state : {"ACTIVE", "PAUSED"}, generation : 0 .. MaxGeneration],
    terminals : SUBSET Terminal,
    sheets    : [Tables -> SUBSET Row] ]

\* The state and the writer identity are of their types.
TypeOK ==
  /\ control \in [state : {"ACTIVE", "PAUSED"}, generation : 1 .. MaxGeneration]
  /\ environment \in 1 .. MaxGeneration
  /\ terminals \subseteq Terminal
  /\ sheets \in [Tables -> SUBSET Row]
  /\ clock \in Nat
  /\ pc \in [Runs -> Labels]
  /\ generation \in [Runs -> 0 .. MaxGeneration]
  /\ snap \in [Runs -> Snapshots \cup {NoSnapshot}]
  /\ read \in [Runs -> ReadResult]
  /\ batch \in [Runs -> [Tables -> SUBSET Row]]
  /\ at \in [Runs -> 1 .. Len(WriteOrder)]
  /\ tries \in [Runs -> 0 .. MaxTries - 1]
  /\ matched \in [Runs -> SUBSET [key : Keys, born : Runs]]
  /\ stamp \in [Runs -> Nat]
  /\ fenced \subseteq Runs

-----------------------------------------------------------------------------
(* Invariants.                                                             *)

\* A recorded success holds, in every dated table, one row for each row of the
\* snapshot its run fetched and no other, whatever failed or ran beside it.
AcceptedExact ==
  \A x \in Successful(terminals) : \A t \in Tables \cap DatedTables :
    LET rows == RowsOf(sheets[t], x.run)
    IN  /\ KeysOf(rows) = Stored(snap[x.run], t)
        /\ Cardinality(rows) = Cardinality(Stored(snap[x.run], t))

\* When the reader reports the current tables complete, their active rows are
\* those of the selected snapshot, row for row: partial writes of failed,
\* stopped or overlapping runs never show through the count comparison.
CurrentExact ==
  View.kind = "selected" /\ View.current =>
    \A t \in CurrentTables :
      /\ \A row \in Active(sheets[t]) : row.run = View.run
      /\ KeysOf(Active(sheets[t])) = Stored(snap[View.run], t)

\* A reader that accepts the inventory serves the newest success: it never
\* silently falls back past a success the writer recorded.
LatestServed ==
  ValidInventory(terminals, sheets) /\ Successful(terminals) # {} =>
    /\ View.kind = "selected"
    /\ \E x \in Successful(terminals) :
         /\ x.run = View.run
         /\ \A y \in Successful(terminals) : y.completed <= x.completed

\* A row whose terminal is missing belongs to a run that is still going on or
\* was cut off; a run that reached its end always left the evidence of its rows.
OrphansExplained ==
  \A t \in Tables : \A row \in Orphans(t) : row.run \in InProgress \/ pc[row.run] = "stopped"

\* With executions excluded from overlapping, every workbook without orphans
\* is accepted by the reader and by the retained-row checks of the next run:
\* partial rows of a failed run never block its recovery.
Recoverable ==
  InProgress = {} /\ NoOrphans =>
    /\ ValidInventory(terminals, sheets)
    /\ Retained([terminals |-> terminals, sheets |-> sheets])

\* A run whose writer generation was replaced before it rechecked control
\* never records a success.
FencedNeverSucceeds == \A x \in Successful(terminals) : x.run \notin fenced

-----------------------------------------------------------------------------
(* Action properties.                                                      *)

\* Nothing ever rewrites a stored success or its dated rows: not a retry, not
\* the failure branch after a lost response, not a later or overlapping run.
HistoryImmutable ==
  [][ \A x \in Successful(terminals) :
        /\ x \in terminals'
        /\ \A t \in Tables \cap DatedTables : RowsOf(sheets'[t], x.run) = RowsOf(sheets[t], x.run)
    ]_vars

\* With executions excluded from overlapping, a success with complete
\* collections is served in full from the step that stores it, over whatever
\* failed, partial or cut-off runs left in the current tables before.
CompleteSuccessServed ==
  [][ \A x \in Successful(terminals') \ terminals :
        PositionsComplete(snap[x.run].coverage) =>
          View' = [kind |-> "selected", run |-> x.run, current |-> TRUE, fallback |-> FALSE]
    ]_vars

\* A key stops being active in a current table only while a run is in progress
\* whose complete collection does not have it.
InactivationNeedsEvidence ==
  [][ \A t \in CurrentTables :
        \A k \in KeysOf(Active(sheets[t])) \ KeysOf(Active(sheets'[t])) :
          \E r \in InProgress : Permitted(snap[r].coverage, t) /\ k \notin Stored(snap[r], t)
    ]_vars

\* With the operator acting only between executions, nothing is written but by
\* a run that control allows now: a paused or replaced writer leaves no trace.
WritesUnderControl ==
  [][ <<terminals, sheets>>' # <<terminals, sheets>> =>
        \E r \in InProgress :
          control.state = "ACTIVE" /\ control.generation = generation[r] ]_vars

-----------------------------------------------------------------------------
(* Liveness.                                                               *)

\* Every started execution ends, however many of its calls fail.
ExecutionsEnd == \A r \in Runs : pc[r] = "fetch" ~> pc[r] \in Ended

-----------------------------------------------------------------------------
(* The workbook and its reader implement the ledger.                       *)

ShownKeys(T) == [t \in T |-> KeysOf(RowsOf(sheets[t], View.run))]

Ledger == INSTANCE ObservationLedger WITH
  accepted <- { [run |-> x.run, at |-> x.completed, snapshot |-> snap[x.run]]
                : x \in Successful(terminals) },
  view <- IF View.kind = "refused" THEN [kind |-> "refused"]
          ELSE IF View.current
          THEN [kind |-> "complete", run |-> View.run, dated |-> ShownKeys(Tables \cap DatedTables),
                current |-> [t \in CurrentTables |-> KeysOf(Active(sheets[t]))]]
          ELSE [kind |-> "dated", run |-> View.run, dated |-> ShownKeys(Tables \cap DatedTables)]

\* The detailed specification implements the ledger of accepted snapshots.
ImplementsLedger == Ledger!LedgerSpec

-----------------------------------------------------------------------------
(* The invariants behind the theorems about histories and fences.          *)

\* What is stored under the name of a run as active is its own snapshot's;
\* dated rows are never inactivated or taken over.
Genuine(t, row) ==
  /\ row.active => /\ pc[row.run] \notin {"idle", "fetch"}
                   /\ row.key \in Stored(snap[row.run], t)
  /\ t \in DatedTables => row.active /\ row.born = row.run

GenuineRows == \A t \in Tables : \A row \in sheets[t] : Genuine(t, row)

\* The batches of a run carry its snapshot, and while it writes all of it.
GenuineBatches ==
  \A r \in Runs : \A t \in Tables :
    /\ \A b \in batch[r][t] :
         /\ b.active => b \in NewRows(snap[r], r, t)
         /\ t \in DatedTables => b.active
         /\ pc[r] \notin {"idle", "fetch"}
    /\ pc[r] \in Writing \cup Closing => NewRows(snap[r], r, t) \subseteq batch[r][t]

\* In a dated table an upsert only ever matches rows the run stored itself.
OwnMatches ==
  \A r \in Runs : pc[r] = "apply" /\ WriteOrder[at[r]] \in DatedTables =>
    \A p \in matched[r] : p.born = r

Recording(r) == \E x \in Successful(terminals) : x.run = r

\* Run r has nothing left to write to table i.
Past(r, i) ==
  pc[r] \in Closing \/ (pc[r] \in Writing /\ i < at[r]) \/ Recording(r)

\* Tables a run has gone past hold everything its snapshot has for them.
WrittenTables ==
  \A r \in Runs : \A i \in 1 .. Len(WriteOrder) :
    WriteOrder[i] \in DatedTables /\ Past(r, i)
      => NewRows(snap[r], r, WriteOrder[i]) \subseteq sheets[WriteOrder[i]]

\* Where a run is once its success is stored.
Stamped == {"record", "fail control", "fail terminals", "fail finalize"} \cup Ended

\* A success is stored by the last write of its run, with its own counts, and
\* a failure branch entered afterwards reads it before it could replace it.
SuccessInPlace ==
  \A x \in Successful(terminals) :
    /\ pc[x.run] \in Stamped
    /\ pc[x.run] = "record" => x = SuccessRow(x.run)
    /\ pc[x.run] = "fail finalize" => x \in read[x.run].terminals
    /\ x.counts = [t \in Tables |-> IF Permitted(snap[x.run].coverage, t)
                                    THEN Cardinality(Stored(snap[x.run], t)) ELSE Blank]

IInv ==
  /\ TypeOK
  /\ GenuineRows
  /\ GenuineBatches
  /\ OwnMatches
  /\ WrittenTables
  /\ SuccessInPlace

\* A fenced run is behind control for good, and what it reads after the fence
\* shows it.
Fence ==
  \A r \in fenced :
    /\ generation[r] < control.generation
    /\ pc[r] \notin {"idle", "record"}
    /\ pc[r] \in {"recheck terminals", "finalize"} => generation[r] < read[r].control.generation
    /\ ~Recording(r)
=============================================================================

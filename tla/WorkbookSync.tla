---------------------------- MODULE WorkbookSync ----------------------------
(***************************************************************************)
(* The n8n synchronization workflow (scripts/build-mcp-workflow.py, with   *)
(* the code of n8n/) writing the private Google Sheets workbook.           *)
(*                                                                         *)
(* Every execution is a sequence of nodes.  Each Sheets node is one remote *)
(* call, or two for an upsert, so other executions, the operator and a     *)
(* hard stop come between any two of them.  A node that fails after its    *)
(* retries leaves by its error output, into the shared failure branch.     *)
(***************************************************************************)
EXTENDS WorkbookReader

CONSTANTS
  MaxTries,       \* attempts of a Sheets node (3 in the workflow)
  MaxActive,      \* executions in progress at once; the operating model says 1
  Drain,          \* TRUE: the operator changes control only while none is in progress
  MaxGeneration   \* bound on writer generations

ASSUME BoundsAssumption ==
  /\ MaxTries \in Nat \ {0} /\ MaxActive \in Nat \ {0} /\ MaxGeneration \in Nat \ {0}
  /\ Drain \in BOOLEAN

VARIABLES
  control,      \* the writer_control row: state and generation
  environment,  \* the writer generation n8n is configured with
  terminals,    \* the rows of sync_runs
  sheets,       \* the rows of every automated table
  clock,        \* completion instants handed out so far
  pc,           \* the node each run is about to execute
  generation,   \* the generation Initialize MCP Run took from the environment
  snap,         \* the snapshot a run fetched
  read,         \* what a run's Sheets reads returned
  batch,        \* the batches Prepare MCP Rows produced
  at,           \* position in WriteOrder of the table being read or written
  tries,        \* failed attempts of the Sheets node being executed
  matched,      \* the physical rows an upsert found for its batch
  stamp,        \* completed_at of the terminal being recorded
  fenced        \* history: runs whose generation was replaced before their recheck

workbook == <<control, terminals, sheets>>
local    == <<generation, snap, read, batch, at, tries, matched, stamp>>
vars     == <<workbook, environment, clock, pc, local, fenced>>

Reading  == {"fetch", "read control", "read terminals", "read tables"}
Writing  == {"write", "apply"}
Closing  == {"recheck", "recheck terminals", "finalize", "record"}
Failing  == {"fail control", "fail terminals", "fail finalize", "record failure"}
Ended    == {"done", "stopped"}
Labels   == {"idle", "prepare"} \cup Reading \cup Writing \cup Closing \cup Failing \cup Ended

InProgress == { r \in Runs : pc[r] \notin {"idle"} \cup Ended }

NoSnapshot ==
  [ coverage |-> [accounts |-> "UNAVAILABLE", holdings |-> "UNAVAILABLE",
                  semantics |-> "UNAVAILABLE"],
    rows     |-> [i \in Inputs |-> {}] ]

NoRows == [t \in Tables |-> {}]

NothingRead ==
  [ control |-> [state |-> "PAUSED", generation |-> 0], terminals |-> {}, sheets |-> NoRows ]

Init ==
  /\ control = [state |-> "PAUSED", generation |-> 1]
  /\ environment = 1
  /\ terminals = {}
  /\ sheets = NoRows
  /\ clock = 0
  /\ pc = [r \in Runs |-> "idle"]
  /\ generation = [r \in Runs |-> 0]
  /\ snap = [r \in Runs |-> NoSnapshot]
  /\ read = [r \in Runs |-> NothingRead]
  /\ batch = [r \in Runs |-> NoRows]
  /\ at = [r \in Runs |-> 1]
  /\ tries = [r \in Runs |-> 0]
  /\ matched = [r \in Runs |-> {}]
  /\ stamp = [r \in Runs |-> 0]
  /\ fenced = {}

-----------------------------------------------------------------------------
(* The checks and builders of the code nodes.                              *)

\* Mutants of ControlAllows: a paused writer, a replaced writer is let through.
ControlAllowsPaused(c, r) == c.generation = generation[r]

ControlAllowsReplaced(c, r) == c.state = "ACTIVE"

\* mcpControl: the single control row names this writer and is active.
ControlAllows(c, r) == c.state = "ACTIVE" /\ c.generation = generation[r]

\* mcpCollision: the workbook holds nothing of this run or its observation.
NoCollision(e, r) ==
  /\ \A t \in Tables : UniqueKeys(t, e.sheets[t]) /\ RowsOf(e.sheets[t], r) = {}
  /\ \A x \in e.terminals : x.run # r

\* Mutant of Retained: a failed terminal vouches for its rows only if it
\* counted them.
RetainedCounted(e) ==
  \A t \in Tables : \A row \in e.sheets[t] :
    \E x \in e.terminals : x.run = row.run /\ x.counts[t] # Blank

\* mcpRetained: every retained row has its terminal, and every success holds
\* exactly the dated rows it counted.
Retained(e) ==
  /\ \A x, y \in e.terminals : x.run = y.run => x = y
  /\ \A t \in Tables : \A row \in e.sheets[t] :
       \E x \in e.terminals : x.observed /\ x.run = row.run
  /\ \A x \in Successful(e.terminals) :
       /\ Cardinality(RowsOf(e.sheets["observations"], x.run)) = 1
       /\ \A t \in Tables \cap DatedTables :
            LET count == Cardinality(RowsOf(e.sheets[t], x.run))
            IN  count = IF x.counts[t] = Blank THEN 0 ELSE x.counts[t]

\* mcpTerminal, and the test of Finalize MCP Failure: the terminals read just
\* before hold one of this very run.
OwnTerminalIgnored(r) == FALSE  \* mutant

OwnTerminal(r) == \E x \in read[r].terminals : x.run = r

\* mcpBuild: the rows of one table, with the active rows that are gone from a
\* complete collection marked inactive under their old observation.
NewRows(s, r, t) == { [key |-> k, born |-> r, run |-> r, active |-> TRUE] : k \in Stored(s, t) }

\* Mutant of Inactivated: whatever was not returned is taken as gone.
InactivatedAnyway(s, e, t) ==
  IF t \in CurrentTables
  THEN { [x EXCEPT !.active = FALSE] : x \in { y \in Active(e.sheets[t]) : y.key \notin Stored(s, t) } }
  ELSE {}

Inactivated(s, e, t) ==
  IF t \in CurrentTables /\ Permitted(s.coverage, t)
  THEN { [x EXCEPT !.active = FALSE] : x \in { y \in Active(e.sheets[t]) : y.key \notin Stored(s, t) } }
  ELSE {}

Batches(s, e, r) == [t \in Tables |-> NewRows(s, r, t) \cup Inactivated(s, e, t)]

\* Mutants of CountsOf: inactive rows are counted; an absent collection
\* counts as empty.
CountsOfAllRows(r) ==
  [t \in Tables |-> IF Permitted(snap[r].coverage, t) THEN Cardinality(batch[r][t]) ELSE Blank]

CountsOfZero(r) == [t \in Tables |-> Cardinality(Active(batch[r][t]))]

\* mcpBuild: the counts of the terminal record.
CountsOf(r) ==
  [t \in Tables |-> IF Permitted(snap[r].coverage, t)
                    THEN Cardinality(Active(batch[r][t])) ELSE Blank]

SuccessRow(r) ==
  [ run |-> r, observed |-> TRUE, status |-> "SUCCESS", counts |-> CountsOf(r),
    generation |-> generation[r], completed |-> stamp[r] ]

\* The preparation output is there exactly when Prepare MCP Rows ran.
Prepared(r) == batch[r]["observations"] # {}

\* Mutant of FailedRow: the error branch does not see the preparation output.
FailedRowUnobserved(r) ==
  [ run |-> r, observed |-> FALSE, status |-> "FAILED",
    counts |-> [t \in Tables |-> Blank], generation |-> generation[r], completed |-> stamp[r] ]

FailedRow(r) ==
  [ run |-> r, observed |-> Prepared(r), status |-> "FAILED",
    counts |-> [t \in Tables |-> Blank], generation |-> generation[r], completed |-> stamp[r] ]

\* The upsert of one terminal, keyed by run_id; no other run has that key.
Recorded(row) == { x \in terminals : x.run # row.run } \cup {row}

-----------------------------------------------------------------------------
(* Moving between nodes.                                                   *)

Goto(r, label) == pc' = [pc EXCEPT ![r] = label]

\* retryOnFail, maxTries.
AttemptNotCounted(r) == UNCHANGED tries  \* mutant

CountAttempt(r) == tries' = [tries EXCEPT ![r] = @ + 1]

\* What the nodes so far only needed among themselves is of no use later.
Forget(r) ==
  /\ read' = [read EXCEPT ![r] = NothingRead]
  /\ matched' = [matched EXCEPT ![r] = {}]
  /\ at' = [at EXCEPT ![r] = 1]
  /\ tries' = [tries EXCEPT ![r] = 0]

\* onError: continueErrorOutput, wired to Failure Writer Control.
ToFailureBranch(r) == Goto(r, "fail control") /\ Forget(r)

\* The execution is over and its data with it.
End(r, how) ==
  /\ Goto(r, how)
  /\ Forget(r)
  /\ batch' = [batch EXCEPT ![r] = NoRows]
  /\ stamp' = [stamp EXCEPT ![r] = 0]
  /\ UNCHANGED <<generation, snap>>


-----------------------------------------------------------------------------
(* Reading: Initialize MCP Run ... Read <last table>.                      *)

Initialize(r) ==
  /\ pc[r] = "idle"
  /\ Cardinality(InProgress) < MaxActive
  /\ Goto(r, "fetch")
  /\ generation' = [generation EXCEPT ![r] = environment]
  /\ UNCHANGED <<workbook, environment, clock, snap, read, batch, at, tries, matched, stamp, fenced>>

\* Fetch MCP Schema, Fetch MCP Snapshot and Validate MCP Snapshot: none of
\* them touches the workbook; a response that is not valid fails the last.
Fetch(r) ==
  /\ pc[r] = "fetch"
  /\ \E s \in Snapshots : snap' = [snap EXCEPT ![r] = s]
  /\ Goto(r, "read control")
  /\ UNCHANGED <<workbook, environment, clock, generation, read, batch, at, tries, matched, stamp, fenced>>

ReadControl(r) ==
  /\ \/ pc[r] = "read control" /\ Goto(r, "read terminals")
     \/ pc[r] = "recheck" /\ Goto(r, "recheck terminals")
     \/ pc[r] = "fail control" /\ Goto(r, "fail terminals")
  /\ read' = [read EXCEPT ![r].control = control]
  /\ UNCHANGED <<workbook, environment, clock, generation, snap, batch, at, tries, matched, stamp, fenced>>

ReadTerminals(r) ==
  /\ \/ pc[r] = "read terminals" /\ Goto(r, "read tables")
     \/ pc[r] = "recheck terminals" /\ Goto(r, "finalize")
     \/ pc[r] = "fail terminals" /\ Goto(r, "fail finalize")
  /\ read' = [read EXCEPT ![r].terminals = terminals]
  /\ UNCHANGED <<workbook, environment, clock, generation, snap, batch, at, tries, matched, stamp, fenced>>

ReadTable(r) ==
  LET t == WriteOrder[at[r]] IN
  /\ pc[r] = "read tables"
  /\ read' = [read EXCEPT ![r].sheets[t] = sheets[t]]
  /\ IF at[r] < Len(WriteOrder)
     THEN at' = [at EXCEPT ![r] = @ + 1] /\ UNCHANGED pc
     ELSE at' = [at EXCEPT ![r] = 1] /\ Goto(r, "prepare")
  /\ UNCHANGED <<workbook, environment, clock, generation, snap, batch, tries, matched, stamp, fenced>>

\* A read (or the fetch) that failed in all its attempts.
NodeFails(r) ==
  /\ pc[r] \in Reading \cup {"recheck", "recheck terminals"}
  /\ ToFailureBranch(r)
  /\ UNCHANGED <<workbook, environment, clock, generation, snap, batch, stamp, fenced>>

-----------------------------------------------------------------------------
(* Prepare MCP Rows, then the writes.                                      *)

Prepare(r) ==
  /\ pc[r] = "prepare"
  /\ IF ControlAllows(read[r].control, r) /\ NoCollision(read[r], r) /\ Retained(read[r])
     THEN /\ batch' = [batch EXCEPT ![r] = Batches(snap[r], read[r], r)]
          /\ Goto(r, "write")
          /\ Forget(r)
     ELSE ToFailureBranch(r) /\ UNCHANGED batch
  /\ UNCHANGED <<workbook, environment, clock, generation, snap, stamp, fenced>>

\* Mutant of NextTable: one table too many.
NextTableTooFar(r) ==
  /\ tries' = [tries EXCEPT ![r] = 0]
  /\ matched' = [matched EXCEPT ![r] = {}]
  /\ at' = [at EXCEPT ![r] = @ + 1]
  /\ Goto(r, IF at[r] <= Len(WriteOrder) THEN "write" ELSE "recheck")

\* Continue <table>: on to the next table, or to Recheck Writer Control.
NextTable(r) ==
  /\ tries' = [tries EXCEPT ![r] = 0]
  /\ matched' = [matched EXCEPT ![r] = {}]
  /\ IF at[r] < Len(WriteOrder)
     THEN at' = [at EXCEPT ![r] = @ + 1] /\ Goto(r, "write")
     ELSE at' = [at EXCEPT ![r] = 1] /\ Goto(r, "recheck")

\* Has <table>: an empty batch continues without a write.
SkipTable(r) ==
  /\ pc[r] = "write"
  /\ batch[r][WriteOrder[at[r]]] = {}
  /\ NextTable(r)
  /\ UNCHANGED <<workbook, environment, clock, generation, snap, read, batch, stamp, fenced>>

\* appendOrUpdate first reads the sheet and matches each item to one row.
LookUp(r) ==
  LET t    == WriteOrder[at[r]]
      hits == { x \in sheets[t] : \E b \in batch[r][t] : UniqueKey(t, b) = UniqueKey(t, x) }
  IN
  /\ pc[r] = "write"
  /\ batch[r][t] # {}
  /\ \E m \in SUBSET hits :
       /\ UniqueKeys(t, m)
       /\ \A x \in hits : \E y \in m : UniqueKey(t, y) = UniqueKey(t, x)
       /\ matched' = [matched EXCEPT ![r] = { [key |-> x.key, born |-> x.born] : x \in m }]
  /\ Goto(r, "apply")
  /\ UNCHANGED <<workbook, environment, clock, generation, snap, read, batch, at, tries, stamp, fenced>>

\* Then it rewrites the matched rows in one call and appends the others in
\* another; `calls` are the ones that took effect.
Upserted(rows, items, found, r, calls) ==
  LET hits     == { q \in items \X found : q[1].key = q[2].key }
      updated  == { [q[1] EXCEPT !.born = q[2].born] : q \in hits }
      appended == { [b EXCEPT !.born = r] : b \in { c \in items : \A p \in found : p.key # c.key } }
  IN  (IF "update" \in calls
       THEN { x \in rows : [key |-> x.key, born |-> x.born] \notin found } \cup updated
       ELSE rows)
      \cup (IF "append" \in calls THEN appended ELSE {})

Apply(r, calls) ==
  LET t == WriteOrder[at[r]]
  IN  sheets' = [sheets EXCEPT ![t] = Upserted(@, batch[r][t], matched[r], r, calls)]

Write(r) ==
  /\ pc[r] = "apply"
  /\ Apply(r, {"update", "append"})
  /\ NextTable(r)
  /\ UNCHANGED <<control, terminals, environment, clock, generation, snap, read, batch, stamp, fenced>>

\* The attempt failed, or its response was lost after it took effect.
WriteFails(r) ==
  /\ pc[r] = "apply"
  /\ \E calls \in SUBSET {"update", "append"} : Apply(r, calls)
  /\ IF tries[r] + 1 < MaxTries
     THEN /\ Goto(r, "write")
          /\ CountAttempt(r)
          /\ matched' = [matched EXCEPT ![r] = {}]
          /\ UNCHANGED <<read, at>>
     ELSE ToFailureBranch(r)
  /\ UNCHANGED <<control, terminals, environment, clock, generation, snap, batch, stamp, fenced>>

-----------------------------------------------------------------------------
(* Finalize MCP Success and Record MCP Success.                            *)

FinalizeSuccess(r) ==
  /\ pc[r] = "finalize"
  /\ IF /\ ControlAllows(read[r].control, r)
        /\ ~OwnTerminal(r)
     THEN /\ clock' = clock + 1
          /\ stamp' = [stamp EXCEPT ![r] = clock + 1]
          /\ Goto(r, "record")
          /\ Forget(r)
     ELSE ToFailureBranch(r) /\ UNCHANGED <<clock, stamp>>
  /\ UNCHANGED <<workbook, environment, generation, snap, batch, fenced>>

RecordSuccess(r) ==
  /\ pc[r] = "record"
  /\ terminals' = Recorded(SuccessRow(r))
  /\ End(r, "done")
  /\ UNCHANGED <<control, sheets, environment, clock, fenced>>

RecordSuccessFails(r) ==
  /\ pc[r] = "record"
  /\ terminals' \in {terminals, Recorded(SuccessRow(r))}
  /\ IF tries[r] + 1 < MaxTries
     THEN CountAttempt(r) /\ UNCHANGED <<pc, read, at, matched>>
     ELSE ToFailureBranch(r)
  /\ UNCHANGED <<control, sheets, environment, clock, generation, snap, batch, stamp, fenced>>

-----------------------------------------------------------------------------
(* The failure branch; its own nodes have no error output.                 *)

FailureNodeFails(r) ==
  /\ pc[r] \in {"fail control", "fail terminals"}
  /\ End(r, "stopped")
  /\ UNCHANGED <<workbook, environment, clock, fenced>>

FinalizeFailure(r) ==
  /\ pc[r] = "fail finalize"
  /\ UNCHANGED <<workbook, environment, fenced>>
  /\ IF ~ControlAllows(read[r].control, r)
     THEN End(r, "stopped") /\ UNCHANGED clock
     ELSE IF OwnTerminal(r)
     THEN End(r, "done") /\ UNCHANGED clock
     ELSE /\ clock' = clock + 1
          /\ stamp' = [stamp EXCEPT ![r] = clock + 1]
          /\ Goto(r, "record failure")
          /\ Forget(r)
          /\ UNCHANGED <<generation, snap, batch>>

RecordFailure(r) ==
  /\ pc[r] = "record failure"
  /\ terminals' = Recorded(FailedRow(r))
  /\ End(r, "done")
  /\ UNCHANGED <<control, sheets, environment, clock, fenced>>

RecordFailureFails(r) ==
  /\ pc[r] = "record failure"
  /\ terminals' \in {terminals, Recorded(FailedRow(r))}
  /\ IF tries[r] + 1 < MaxTries
     THEN /\ CountAttempt(r)
          /\ UNCHANGED <<pc, generation, snap, read, batch, at, matched, stamp>>
     ELSE End(r, "stopped")
  /\ UNCHANGED <<control, sheets, environment, clock, fenced>>

\* executionTimeout, a process loss or a cancelled execution: no branch runs.
HardStop(r) ==
  /\ r \in InProgress
  /\ End(r, "stopped")
  /\ UNCHANGED <<workbook, environment, clock, fenced>>

-----------------------------------------------------------------------------
(* The operator, who owns writer_control and the environment.              *)

OperatorMayAct == Drain => InProgress = {}

SwitchState ==
  /\ OperatorMayAct
  /\ control' = [control EXCEPT !.state = IF @ = "ACTIVE" THEN "PAUSED" ELSE "ACTIVE"]
  /\ UNCHANGED <<terminals, sheets, environment, clock, pc, local, fenced>>

ReplaceWriter ==
  /\ OperatorMayAct
  /\ control.state = "PAUSED"
  /\ control.generation < MaxGeneration
  /\ control' = [control EXCEPT !.generation = @ + 1]
  /\ fenced' = fenced \cup
       { r \in InProgress : /\ generation[r] <= control.generation
                            /\ pc[r] \in Reading \cup {"prepare"} \cup Writing \cup {"recheck"} }
  /\ UNCHANGED <<terminals, sheets, environment, clock, pc, local>>

Configure ==
  /\ OperatorMayAct
  /\ environment' = control.generation
  /\ UNCHANGED <<workbook, clock, pc, local, fenced>>

-----------------------------------------------------------------------------
Step(r) ==
  \/ Initialize(r) \/ Fetch(r) \/ ReadControl(r) \/ ReadTerminals(r) \/ ReadTable(r)
  \/ NodeFails(r) \/ Prepare(r) \/ SkipTable(r) \/ LookUp(r) \/ Write(r) \/ WriteFails(r)
  \/ FinalizeSuccess(r) \/ RecordSuccess(r) \/ RecordSuccessFails(r)
  \/ FailureNodeFails(r) \/ FinalizeFailure(r) \/ RecordFailure(r) \/ RecordFailureFails(r)

Operator == SwitchState \/ ReplaceWriter \/ Configure

Next == (\E r \in Runs : Step(r) \/ HardStop(r)) \/ Operator

Spec == Init /\ [][Next]_vars

\* n8n schedules the next node of a started execution.
FairSpec ==
  Spec /\ \A r \in Runs : WF_vars(pc[r] # "idle" /\ Step(r))
=============================================================================

--------------------------- MODULE WorkbookReader ---------------------------
(***************************************************************************)
(* The reference reader of a complete workbook read                        *)
(* (app/mcp_workbook.py and app/mcp_consumer.py), as operators over        *)
(*   terminals : the rows of sync_runs,                                    *)
(*   sheets    : the rows of every automated table,                        *)
(*   context   : the coverage each run's observations row carries.         *)
(* A require() that fails is the reader refusing.                          *)
(***************************************************************************)
EXTENDS Workbook

Refused == [kind |-> "refused"]

\* Inventory-wide validation, before any selection.
ValidInventory(terminals, sheets) ==
  /\ \A t \in Tables : UniqueKeys(t, sheets[t])
  /\ \A x, y \in terminals : x.run = y.run => x = y
  /\ \A t \in Tables : \A row \in sheets[t] :
       \E x \in terminals : x.observed /\ x.run = row.run

\* Mutants of HasCurrent: without the count, without the ownership.
HasCurrentUncounted(sheets, x, t) ==
  x.counts[t] # Blank /\ \A row \in Active(sheets[t]) : row.run = x.run

HasCurrentByCount(sheets, x, t) ==
  x.counts[t] # Blank /\ Cardinality(Active(sheets[t])) = x.counts[t]

\* The active rows of a current table all belong to x, and are as many as it
\* counted; otherwise the table has moved on.
HasCurrent(sheets, x, t) ==
  /\ x.counts[t] # Blank
  /\ \A row \in Active(sheets[t]) : row.run = x.run
  /\ Cardinality(Active(sheets[t])) = x.counts[t]

CurrentComplete(sheets, x) == \A t \in CurrentTables : HasCurrent(sheets, x, t)

\* Membership of one stored terminal; any failed conjunct rejects it.
Accepts(sheets, context, x) ==
  /\ x.status = "SUCCESS"
  /\ x.counts["positions_current"] = x.counts["positions_history"]
  /\ \A t \in Tables :
       LET selected == RowsOf(sheets[t], x.run)
       IN  IF x.counts[t] = Blank THEN selected = {}
           ELSE t \in DatedTables => Cardinality(selected) = x.counts[t]
  /\ \A t \in Tables \cap SingleRow : x.counts[t] = 1
  /\ x.counts["accounts_current"] # Blank <=> AccountsComplete(context[x.run])
  /\ x.counts["positions_history"] # Blank <=> PositionsComplete(context[x.run])
  /\ CurrentComplete(sheets, x) =>
       KeysOf(Active(sheets["positions_current"]))
         = KeysOf(RowsOf(sheets["positions_history"], x.run))

\* The newest success that is independently valid, newest first.
Select(terminals, sheets, context) ==
  LET candidates == Successful(terminals)
      accepted   == { x \in candidates : Accepts(sheets, context, x) }
      distinct   == \A x, y \in candidates : x.completed = y.completed => x = y
      newest(S)  == CHOOSE x \in S : \A y \in S : y.completed <= x.completed
  IN  IF ~ValidInventory(terminals, sheets) \/ ~distinct \/ accepted = {}
      THEN Refused
      ELSE LET x == newest(accepted)
           IN  [ kind     |-> "selected",
                 run      |-> x.run,
                 current  |-> CurrentComplete(sheets, x),
                 fallback |-> ~CurrentComplete(sheets, x) \/ x # newest(candidates) ]
=============================================================================

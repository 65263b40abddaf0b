------------------------------ MODULE Workbook ------------------------------
(***************************************************************************)
(* The vocabulary shared by the writer of the private workbook (the n8n    *)
(* workflow, module WorkbookSync) and its reader (module WorkbookReader):  *)
(* snapshots, physical rows, terminal records and the unique keys.         *)
(*                                                                         *)
(* A run makes one snapshot request and the bridge answers each with a     *)
(* fresh observation_id, so one identifier stands for a run and for its    *)
(* observation; a terminal that does not know its observation (an early    *)
(* failure) has observed = FALSE.  The payload of a row is determined by   *)
(* its observation and its key and is not repeated in it.                  *)
(***************************************************************************)
EXTENDS Integers, Sequences, FiniteSets

CONSTANTS
  Runs,        \* run identities (n8n-run:<execution>:<uuid>)
  Keys,        \* account, position and child keys of the source
  WriteOrder,  \* the automated tables, in the order the workflow writes them
  Snapshots    \* the normalized snapshots the bridge can return

CurrentTables == {"accounts_current", "positions_current"}

DatedTables ==
  { "positions_history", "portfolio_daily", "account_ownership",
    "source_connections", "position_rates", "official_allocation_categories",
    "official_allocation_types", "portfolio_members", "observations",
    "source_warnings", "unsupported_details" }

Tables == { WriteOrder[i] : i \in 1 .. Len(WriteOrder) }

\* The snapshot list each table is filled from.
Input(t) ==
  CASE t = "accounts_current" -> "accounts"
    [] t \in {"positions_current", "positions_history"} -> "positions"
    [] OTHER -> t

\* Tables whose every observation has exactly one row.
SingleRow == {"portfolio_daily", "observations"}

Inputs == { Input(t) : t \in Tables }

Coverage ==
  [ accounts  : {"COMPLETE", "PARTIAL", "UNAVAILABLE"},
    holdings  : {"COMPLETE", "PARTIAL", "UNAVAILABLE"},
    semantics : {"SUPPORTED", "UNVERIFIED", "INCONSISTENT", "UNAVAILABLE"} ]

Snapshot ==
  { s \in [ coverage : Coverage, rows : [ Inputs -> SUBSET Keys ] ] :
      \A t \in Tables \cap SingleRow : Cardinality(s.rows[t]) = 1 }

ASSUME RunsAssumption == IsFiniteSet(Runs)

ASSUME KeysAssumption == IsFiniteSet(Keys)

\* The reader and the writer both rely on the two current tables, on the
\* dated positions and on the observation row.
ASSUME WriteOrderAssumption ==
  /\ WriteOrder \in Seq(CurrentTables \cup DatedTables)
  /\ \A i, j \in 1 .. Len(WriteOrder) : WriteOrder[i] = WriteOrder[j] => i = j
  /\ CurrentTables \cup {"positions_history", "observations"} \subseteq Tables

ASSUME SnapshotsAssumption == Snapshots \subseteq Snapshot

-----------------------------------------------------------------------------
(* What a snapshot allows a run to write.                                  *)

AccountsComplete(c) == c.accounts = "COMPLETE"

PositionsComplete(c) ==
  /\ AccountsComplete(c)
  /\ c.holdings = "COMPLETE"
  /\ c.semantics \in {"SUPPORTED", "UNVERIFIED"}

Permitted(c, t) ==
  /\ t \in {"accounts_current", "account_ownership", "source_connections",
            "unsupported_details"} => AccountsComplete(c)
  /\ t \in {"positions_current", "positions_history", "position_rates"}
       => PositionsComplete(c)

\* The keys a run with snapshot s stores in table t.
Stored(s, t) == IF Permitted(s.coverage, t) THEN s.rows[Input(t)] ELSE {}

-----------------------------------------------------------------------------
(* A physical row: born is the run whose append created it, run the run    *)
(* whose observation it holds now.  Two rows of a sheet can only be told   *)
(* apart by <<key, born>>; their unique key is what the schema names.      *)

Row == [ key : Keys, born : Runs, run : Runs, active : BOOLEAN ]

\* Mutant of UniqueKey: dated keys without their observation.
UniqueKeyUndated(t, row) == <<row.key>>

\* Dated keys embed the observation, current keys do not.
UniqueKey(t, row) == IF t \in CurrentTables THEN <<row.key>> ELSE <<row.key, row.run>>

UniqueKeys(t, rows) ==
  \A x, y \in rows : UniqueKey(t, x) = UniqueKey(t, y) => x = y

RowsOf(rows, r) == { x \in rows : x.run = r }

Active(rows) == { x \in rows : x.active }

KeysOf(rows) == { x.key : x \in rows }

Blank == -1     \* an empty count cell

Counts == [ Tables -> Nat \cup {Blank} ]

Terminal ==
  [ run : Runs, observed : BOOLEAN, status : {"SUCCESS", "FAILED"},
    counts : Counts, generation : Nat, completed : Nat ]

Successful(terminals) == { x \in terminals : x.status = "SUCCESS" }
=============================================================================

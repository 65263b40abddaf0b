--------------------------- MODULE MCWorkbookSync ---------------------------
(* Small instances of the synchronization for TLC.                         *)
EXTENDS WorkbookSafety, TLC

CONSTANTS k1, k2, r0

MCWriteOrder == <<"accounts_current", "positions_current", "positions_history", "observations">>

MCSnapshot(accounts, holdings, accountKeys, positionKeys) ==
  [ coverage |-> [accounts |-> accounts, holdings |-> holdings, semantics |-> "SUPPORTED"],
    rows |-> [i \in Inputs |-> CASE i = "accounts"  -> accountKeys
                                 [] i = "positions" -> positionKeys
                                 [] OTHER           -> {k1}] ]

\* Complete, without positions, without accounts: keys that come and go.
MCSnapshots ==
  { MCSnapshot("COMPLETE", "COMPLETE", {k1}, {k1, k2}),
    MCSnapshot("COMPLETE", "COMPLETE", {k1, k2}, {k2}),
    MCSnapshot("COMPLETE", "PARTIAL", {k2}, {k1}),
    MCSnapshot("PARTIAL", "UNAVAILABLE", {k1}, {}) }

\* Enough for a success, an interrupted run and a recovery over it.
MCFewSnapshots == MCSnapshots \ { MCSnapshot("PARTIAL", "UNAVAILABLE", {k1}, {}) }

\* A complete collection, and one that cannot establish positions.
MCTwoSnapshots ==
  { MCSnapshot("COMPLETE", "COMPLETE", {k1}, {k1, k2}),
    MCSnapshot("COMPLETE", "PARTIAL", {k2}, {k1}) }

\* Runs are interchangeable, but for the one MCOverlapInit names.
MCSymmetry == Permutations(Runs \ {r0})

\* Overlapping executions over a workbook that a finished run r0 has filled:
\* the state Spec reaches when r0 alone succeeds on its first attempts.
MCOverlapInit ==
  LET s == MCSnapshot("COMPLETE", "COMPLETE", {k1}, {k1, k2}) IN
  /\ control = [state |-> "ACTIVE", generation |-> 1]
  /\ environment = 1
  /\ sheets = [t \in Tables |-> NewRows(s, r0, t)]
  /\ terminals = {[ run |-> r0, observed |-> TRUE, status |-> "SUCCESS",
                    counts |-> [t \in Tables |-> Cardinality(Stored(s, t))],
                    generation |-> 1, completed |-> 1 ]}
  /\ clock = 1
  /\ pc = [r \in Runs |-> IF r = r0 THEN "done" ELSE "idle"]
  /\ generation = [r \in Runs |-> IF r = r0 THEN 1 ELSE 0]
  /\ snap = [r \in Runs |-> IF r = r0 THEN s ELSE NoSnapshot]
  /\ read = [r \in Runs |-> NothingRead]
  /\ batch = [r \in Runs |-> NoRows]
  /\ at = [r \in Runs |-> 1]
  /\ tries = [r \in Runs |-> 0]
  /\ matched = [r \in Runs |-> {}]
  /\ stamp = [r \in Runs |-> 0]
  /\ fenced = {}

MCOverlapSpec == MCOverlapInit /\ [][Next]_vars
=============================================================================

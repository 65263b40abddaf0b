-------------------------- MODULE ObservationLedger --------------------------
(***************************************************************************)
(* What the workbook promises its readers: a growing ledger of accepted    *)
(* snapshots, and a reader that either refuses or shows the newest of them *)
(* with exactly the rows the bridge returned, its current tables included  *)
(* only when they hold that very snapshot.                                 *)
(***************************************************************************)
EXTENDS Workbook

VARIABLES
  accepted,   \* the accepted observations: run, instant, snapshot
  view        \* what the reader answers

Observation == [ run : Runs, at : Nat, snapshot : Snapshots ]

Refusal == [kind |-> "refused"]

Newest(S) == { o \in S : \A other \in S : other.at <= o.at }

Dated(s) == [t \in Tables \cap DatedTables |-> Stored(s, t)]

Current(s) == [t \in CurrentTables |-> Stored(s, t)]

\* A reader may always refuse, and may do without the current tables; it may
\* show them only when the snapshot had both of them complete.
Views(S) ==
  {Refusal}
  \cup { [kind |-> "dated", run |-> o.run, dated |-> Dated(o.snapshot)] : o \in Newest(S) }
  \cup { [kind |-> "complete", run |-> o.run, dated |-> Dated(o.snapshot),
          current |-> Current(o.snapshot)]
         : o \in { p \in Newest(S) : PositionsComplete(p.snapshot.coverage) } }

LedgerInit == accepted = {} /\ view = Refusal

Accept ==
  /\ \E o \in accepted' \ accepted :
       /\ o \in Observation
       /\ \A p \in accepted : p.run # o.run /\ p.at # o.at
       /\ accepted' = accepted \cup {o}
  /\ view' \in Views(accepted')

Look == view' \in Views(accepted) /\ UNCHANGED accepted

LedgerSpec == LedgerInit /\ [][Accept \/ Look]_<<accepted, view>>
=============================================================================

--------------------------- MODULE SnapshotSafety ----------------------------
(* What a snapshot must be worth to n8n and to the reader.                 *)
EXTENDS Snapshot

\* The clocks, the session and the executions are of their types.
TypeOK ==
  /\ now \in StartTime .. MaxTime
  /\ offset \in [Clocks -> -1 .. 1] /\ adjusted \subseteq Clocks
  /\ adjustments \in 0 .. MaxAdjustments
  /\ phase \in {"idle", "overview", "accounts", "holdings", "close", "answered", "refused"}
  /\ run \in Runs \cup {Null} /\ (phase = "idle" <=> run = Null)
  /\ stage \in [Runs -> {"idle", "waiting", "collecting", "writing", "succeeded", "failed"}]
  /\ \A r \in Runs : stage[r] = "collecting" <=> run = r
  /\ IF phase \in {"answered", "refused"}
     THEN draft.ended \in Int /\ draft.generated = draft.ended
     ELSE draft = Null /\ (phase \in {"idle", "overview", "accounts"} => detail = NoDetail)
  /\ { t.run : t \in terminals } = { r \in Runs : stage[r] = "succeeded" }

Steady(c) == c \notin adjusted

\* Answers no snapshot can be made of: negative assets or debts, a category,
\* a type of it or an owner that comes twice.
Repeats(s) == Cardinality({ s[i] : i \in 1 .. Len(s) }) < Len(s)

Odd ==
  \/ answer.gross < 0 \/ (answer.debt # Null /\ answer.debt < 0)
  \/ \E i \in 1 .. Len(answer.members) : answer.members[i] # Null /\ answer.members[i] < 0
  \/ Repeats([i \in 1 .. Len(answer.allocation) |-> answer.allocation[i].category])
  \/ \E i \in 1 .. Len(answer.allocation) : Repeats(answer.allocation[i].types)
  \/ \E a \in answer.accounts : a.owners # Null /\ Repeats(a.owners)

\* The adapter makes only snapshots that meet the contract: the bridge
\* refuses one only if Finary's answer was odd, or its clock was set back
\* meanwhile.  And both validators judge every one alike, so that no
\* snapshot of the bridge fails in n8n.
ContractMet ==
  phase \in {"answered", "refused"} =>
    /\ phase = "refused" <=> ~McpSnapshot(draft)
    /\ phase = "refused" => Odd \/ ~Steady("bridge")

Entities(codes) == { w[2] : w \in { v \in draft.detail.warnings : v[1] \in codes } }

\* FRESH is claimed only if every linked account has its connection in the
\* answer, without an error and with a success at most 48 h before the
\* collection ended, but for its 180 s; NOT_APPLICABLE only if no account is
\* linked.  Whatever of it is not fresh is named by a warning.
FreshnessHonest ==
  phase = "answered" =>
    LET d == draft.detail
        Linked == { a \in answer.accounts : a.link # Null }
        Fine(a) == /\ a.link.id \in DOMAIN answer.connections
                   /\ LET c == answer.connections[a.link.id] IN
                        ~c.error /\ c.success # Null /\ draft.ended - c.success <= StaleAfter + Window
    IN /\ d.freshness = "FRESH" /\ Steady("bridge") => Linked # {} /\ \A a \in Linked : Fine(a)
       /\ d.freshness = "NOT_APPLICABLE" => Linked = {}
       /\ d.accountsState = "COMPLETE" /\ Steady("bridge") =>
            \A a \in Linked :
              Fine(a) \/ a.id \in Entities({"MISSING_ENRICHMENT"})
                \/ a.link.id \in Entities({"BROKEN_CONNECTION", "STALE_SOURCE", "UNKNOWN_FRESHNESS"})

\* As long as the clocks agree the reader shows the success completed last,
\* and none only if two were completed at one instant; whatever clocks do,
\* it never shows two.
SuccessServed ==
  /\ Cardinality(Shown) <= 1
  /\ adjusted = {} /\ (\A c, d \in Clocks : offset[c] = offset[d]) /\ terminals # {} /\ ~Tied =>
       \E t \in Shown : \A u \in terminals : u.completed <= t.completed

=============================================================================

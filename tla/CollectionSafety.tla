-------------------------- MODULE CollectionSafety ---------------------------
(* What a request of the bridge must guarantee.                            *)
EXTENDS Collection

\* The request, its collectors and its calls are of their types.
TypeOK ==
  /\ source \in [Accounts -> Seq(Holdings)] /\ changes \in 0 .. MaxChanges
  /\ present \in [Accounts -> SUBSET Holdings]
  /\ removed \subseteq Accounts /\ inserted \subseteq Accounts
  /\ pc \in Sequential \cup {"gather", "cancelling", "close", "done", "failed"}
  /\ catalog \subseteq Tools /\ unfit \subseteq catalog /\ cursors \subseteq 1 .. MaxListings
  /\ task \in [Accounts -> Running \cup {"none", "done", "failed", "cancelled"}]
  /\ rows \in [Accounts -> Seq(Holdings)] /\ total \in [Accounts -> Nat \cup {-1}]
  /\ pages \in [Accounts -> 0 .. MaxPages] /\ seen \subseteq Holdings
  /\ wire \in [Callers -> {"idle", "sent", "backoff"}]
  /\ attempts \in [Callers -> 0 .. MaxAttempts - 1] /\ tokenRequests \in Nat
  /\ failure \in BOOLEAN
  /\ holdings \in {"UNAVAILABLE", "PARTIAL", "COMPLETE"}

\* When a request has ended, whether it answers, has failed or was cut off,
\* no collector of it goes on and no call of it is on the wire: the session
\* and its lease are not used after they are closed.
NoTaskOutlives ==
  pc \in {"close", "done", "failed"} =>
    /\ \A a \in Accounts : task[a] \notin Running
    /\ \A c \in Callers : wire[c] = "idle"

\* No holding is collected twice, from two pages of an account or from two
\* accounts it was moved between, whatever order the pages come in.
RowsOnce == OncePerHolding(rows)

\* A request that answers with holdings has every row of every account it
\* listed; only in an account that both lost and gained a holding meanwhile
\* may one be missing that was there all along.
AnswersWhole ==
  holdings # "UNAVAILABLE" =>
    \A a \in Accounts : task[a] # "none" =>
      /\ task[a] = "done" /\ Len(rows[a]) = total[a]
      /\ a \in removed \cap inserted \/ present[a] \subseteq ToSet(rows[a])

\* The token request, which consumes the refresh token, is never sent again,
\* though its answer is lost, as the reads are.
TokenSentOnce == tokenRequests <= 1

\* Every request ends, by the timers of its calls alone: no collector waits
\* for the semaphore, and no request for its collectors, for ever.
RequestEnds == <>(pc \in {"done", "failed"})

=============================================================================

----------------------------- MODULE Collection -----------------------------
(***************************************************************************)
(* One read of the bridge: a session of the official MCP server, from its  *)
(* first request to the last page of holdings.                             *)
(*                                                                         *)
(* The request is one asyncio task.  It authorizes, lists the tools, calls *)
(* two of them, and then gathers one task per account, of which at most    *)
(* Concurrency hold the semaphore.  A task runs from one await to the      *)
(* next, so an answer and all its checks are one step; between two awaits  *)
(* of a task the others move, the server's data change, the 30 s of a call *)
(* and the 180 s of the request run out.                                   *)
(***************************************************************************)
EXTENDS Integers, FiniteSets, Sequences

CONSTANTS
  Accounts,      \* accounts Finary may list
  Holdings,      \* identities of holdings
  Unsupported,   \* those of a type the contract does not cover
  Main,          \* the request's own task, next to one task per account
  Concurrency,   \* tasks that may hold the semaphore
  PageLimit,     \* rows asked for in one page
  MaxPages,      \* max_pages_per_account
  MaxHoldings,   \* max_holdings_per_run
  MaxAttempts,   \* max_attempts_per_call
  MaxListings,   \* pages of tools read at most
  MaxChanges,    \* changes of the data behind a request: a bound
  Inventories    \* what Finary may hold when the request comes

ASSUME ConcurrencyAssumption == Concurrency \in Nat \ {0}
ASSUME MainAssumption == Main \notin Accounts
ASSUME LimitsAssumption ==
  /\ PageLimit \in Nat \ {0} /\ MaxPages \in Nat \ {0} /\ MaxHoldings \in Nat
  /\ MaxAttempts \in Nat \ {0} /\ MaxListings \in Nat \ {0} /\ MaxChanges \in Nat

ToSet(s) == { s[i] : i \in 1 .. Len(s) }
Distinct(s) == \A i, j \in 1 .. Len(s) : s[i] = s[j] => i = j

\* A holding is in one account, once.
OncePerHolding(f) ==
  /\ \A a \in Accounts : Distinct(f[a])
  /\ \A a, b \in Accounts : a # b => ToSet(f[a]) \cap ToSet(f[b]) = {}

ASSUME InventoriesAssumption ==
  /\ Inventories \subseteq [Accounts -> Seq(Holdings)]
  /\ \A f \in Inventories : OncePerHolding(f)

Callers == Accounts \cup {Main}
Tools   == {"get_portfolio_overview", "accounts", "holdings"}
Sequential == {"authorize", "discover", "overview", "accounts"}

VARIABLES
  source,     \* what Finary holds: the sequence of holdings of each account
  changes,    \* how often it has changed
  present,    \* history: holdings that have been in the account all along
  removed,    \* history: accounts that have lost a holding
  inserted,   \* history: accounts that have gained one
  pc,         \* where the request is
  catalog,    \* tools discovered
  unfit,      \* those whose schema the bridge refuses
  cursors,    \* cursors of the listing seen so far
  task,       \* the collector of each account
  rows,       \* the rows it has; the next offset is their number
  total,      \* the total its first page told, -1 before
  pages,      \* pages it has read
  seen,       \* holdings any collector has read
  wire,       \* the HTTP request of each task
  attempts,   \* how often it has been sent again
  tokenRequests, \* token requests sent
  failure,    \* has anything failed: the request answers with the first failure
  holdings    \* the coverage of the holdings: holdings_state

upstream  == <<source, changes, present, removed, inserted>>
discovery == <<catalog, unfit, cursors>>
collector == <<rows, total, pages, seen>>
network   == <<wire, attempts, tokenRequests>>
vars == <<upstream, discovery, collector, network, pc, task, failure, holdings>>

Running == {"waiting", "collect"}

\* What the official server answers: a page of its data as they are now,
\* perhaps shorter than asked for.
Honest(a, offset, n) ==
  [of |-> a, offset |-> offset, limit |-> PageLimit, total |-> Len(source[a]),
   more |-> offset + n < Len(source[a]),
   data |-> SubSeq(source[a], offset + 1, offset + n), conflict |-> FALSE]

HonestPages(a, offset) ==
  IF offset >= Len(source[a]) THEN { Honest(a, offset, 0) }
  ELSE { Honest(a, offset, n) :
           n \in { k \in 1 .. PageLimit : offset + k <= Len(source[a]) } }

\* The same with one thing wrong: the flag, the offset, the account, or an
\* included resource that differs from one the request has read before.
FaultyPages(a, offset) ==
  LET short == IF offset > 0 THEN offset - 1 ELSE 1 IN
    { [p EXCEPT !.more = ~p.more] : p \in HonestPages(a, offset) }
      \cup HonestPages(a, short)
      \cup { [p EXCEPT !.of = b] : p \in HonestPages(a, offset), b \in Accounts \ {a} }
      \cup { [p EXCEPT !.conflict = TRUE] : p \in HonestPages(a, offset) }

-----------------------------------------------------------------------------
(* The transport: only the reads of the MCP server are sent again.         *)

\* Mutant of Retried: the token request is sent again, too.
RetriedAlways(c) == TRUE

Retried(c) == c \in Accounts \/ pc # "authorize"

\* Mutant of Limit: one attempt too many.
LimitExceeded(c) == IF Retried(c) THEN MaxAttempts + 1 ELSE 1

Limit(c) == IF Retried(c) THEN MaxAttempts ELSE 1

\* The task is not cancelled; its request is at the server.
Awaits(c) == IF c = Main THEN pc \in Sequential ELSE pc = "gather"
Sent(c)   == Awaits(c) /\ wire[c] = "sent"

\* A failure ends a collector, and the request with it unless it collects:
\* then the first failure is the one gather raises, at a later step.
Failed(c) ==
  /\ wire' = [wire EXCEPT ![c] = "idle"]
  /\ attempts' = [attempts EXCEPT ![c] = 0]
  /\ failure' = TRUE
  /\ IF c = Main
     THEN pc' = "failed" /\ UNCHANGED task
     ELSE task' = [task EXCEPT ![c] = "failed"] /\ UNCHANGED pc

\* After its pause, BoundedTransport sends the request again.
Resend(c) ==
  /\ Awaits(c) /\ wire[c] = "backoff"
  /\ wire' = [wire EXCEPT ![c] = "sent"]
  /\ attempts' = [attempts EXCEPT ![c] = @ + 1]
  /\ tokenRequests' = tokenRequests + (IF pc = "authorize" THEN 1 ELSE 0)
  /\ UNCHANGED <<upstream, discovery, collector, pc, task, failure, holdings>>

\* The connection fails or the answer does not come, though the server may
\* have had the request.
Unanswered(c) ==
  /\ Sent(c)
  /\ IF attempts[c] + 1 >= Limit(c)
     THEN Failed(c)
     ELSE wire' = [wire EXCEPT ![c] = "backoff"] /\ UNCHANGED <<attempts, pc, task, failure>>
  /\ UNCHANGED <<upstream, discovery, collector, tokenRequests, holdings>>

\* 429, or 502, 503 and 504; the last one is a failure.
Busy(c) ==
  /\ Sent(c)
  /\ IF attempts[c] + 1 >= Limit(c)
     THEN Failed(c)
     ELSE wire' = [wire EXCEPT ![c] = "backoff"] /\ UNCHANGED <<attempts, pc, task, failure>>
  /\ UNCHANGED <<upstream, discovery, collector, tokenRequests, holdings>>

\* Any other failed answer.
Refuse(c) ==
  /\ Sent(c)
  /\ Failed(c)
  /\ UNCHANGED <<upstream, discovery, collector, tokenRequests, holdings>>

\* The 30 seconds of a call, its retries included.
CallTimeout(c) ==
  /\ Awaits(c) /\ wire[c] # "idle"
  /\ Failed(c)
  /\ UNCHANGED <<upstream, discovery, collector, tokenRequests, holdings>>

Answered(c) ==
  /\ Sent(c)
  /\ attempts' = [attempts EXCEPT ![c] = 0]

-----------------------------------------------------------------------------
(* The session: authorization, discovery, the two calls made once.         *)

Enter(phase) == pc' = phase /\ wire' = [wire EXCEPT ![Main] = "sent"]

Fit(tool) == tool \in catalog /\ tool \notin unfit

\* The token request is answered.
Authorized ==
  /\ pc = "authorize" /\ Answered(Main)
  /\ Enter("discover")
  /\ UNCHANGED <<upstream, discovery, collector, tokenRequests, task, failure, holdings>>

NoCursor == -1

\* A page of tools: the next cursor must be new and not empty (0), no tool may
\* come twice, and the listing must end in time.
Listed ==
  /\ pc = "discover" /\ Answered(Main)
  /\ \E tools \in SUBSET Tools, next \in NoCursor .. MaxListings :
     \E bad \in SUBSET tools :
       IF tools \cap catalog # {}
            \/ next \in cursors \cup {0}
            \/ (next # NoCursor /\ Cardinality(cursors) + 1 >= MaxListings)
       THEN Failed(Main) /\ UNCHANGED discovery
       ELSE /\ catalog' = catalog \cup tools
            /\ unfit' = unfit \cup bad
            /\ IF next # NoCursor
               THEN cursors' = cursors \cup {next} /\ Enter("discover")
                    /\ UNCHANGED <<task, failure>>
               ELSE /\ cursors' = {}
                    /\ IF "get_portfolio_overview" \in catalog' \ unfit'
                       THEN Enter("overview") /\ UNCHANGED <<task, failure>>
                       ELSE Failed(Main)
  /\ UNCHANGED <<upstream, collector, tokenRequests, holdings>>

\* The overview is read.  Without the tools of the detail there is none; a
\* tool whose schema is refused fails before a request of it is sent.
Overview ==
  /\ pc = "overview" /\ Answered(Main)
  /\ \/ Failed(Main)
     \/ "accounts" \notin catalog
          /\ pc' = "close" /\ wire' = [wire EXCEPT ![Main] = "idle"] /\ UNCHANGED <<task, failure>>
     \/ "accounts" \in unfit /\ Failed(Main)
     \/ Fit("accounts") /\ Enter("accounts") /\ UNCHANGED <<task, failure>>
  /\ UNCHANGED <<upstream, discovery, collector, tokenRequests, holdings>>

\* The accounts are read, and a collector is created for each.
AccountsRead ==
  /\ pc = "accounts" /\ Answered(Main)
  /\ \/ Failed(Main)
     \/ /\ wire' = [wire EXCEPT ![Main] = "idle"]
        /\ IF "holdings" \in catalog
           THEN \E listed \in SUBSET Accounts :
                  pc' = "gather" /\ task' = [a \in Accounts |-> IF a \in listed THEN "waiting"
                                                                ELSE "none"]
           ELSE pc' = "close" /\ UNCHANGED task
        /\ UNCHANGED failure
  /\ UNCHANGED <<upstream, discovery, collector, tokenRequests, holdings>>

-----------------------------------------------------------------------------
(* The collectors.                                                         *)

\* Mutant of Holders: a collector that has returned keeps the semaphore.
HoldersForever == { a \in Accounts : task[a] \in {"collect", "done"} }

Holders == { a \in Accounts : task[a] = "collect" }

\* A collector gets the semaphore and asks for its first page.
Acquire(a) ==
  /\ task[a] = "waiting" /\ pc = "gather"
  /\ Cardinality(Holders) < Concurrency
  /\ IF "holdings" \in unfit
     THEN Failed(a)
     ELSE /\ task' = [task EXCEPT ![a] = "collect"]
          /\ wire' = [wire EXCEPT ![a] = "sent"]
          /\ UNCHANGED <<attempts, pc, failure>>
  /\ UNCHANGED <<upstream, discovery, collector, tokenRequests, holdings>>

Offset(a) == Len(rows[a])
Total(a, p) == IF total[a] = -1 THEN p.total ELSE total[a]

\* Mutant of Consistent: the total may change from page to page.
ConsistentAnyTotal(a, p) ==
  LET end == Offset(a) + Len(p.data) IN
    /\ p.offset = Offset(a) /\ p.limit = PageLimit
    /\ Len(p.data) <= PageLimit
    /\ end <= p.total
    /\ p.more = (end < p.total)
    /\ p.data # <<>> \/ (Offset(a) = 0 /\ p.total = 0)

\* The checks a page must pass.
Consistent(a, p) ==
  LET end == Offset(a) + Len(p.data) IN
    /\ p.offset = Offset(a) /\ p.limit = PageLimit /\ p.total = Total(a, p)
    /\ Len(p.data) <= PageLimit
    /\ end <= p.total
    /\ p.more = (end < p.total)
    /\ p.data # <<>> \/ (Offset(a) = 0 /\ p.total = 0)

\* Mutant of Fresh: only the rows of the same account are compared.
FreshInAccount(a, p) == p.of = a /\ Distinct(p.data) /\ ToSet(p.data) \cap ToSet(rows[a]) = {}

Fresh(a, p) == p.of = a /\ Distinct(p.data) /\ ToSet(p.data) \cap seen = {}

Within(p) == Cardinality(seen) + Len(p.data) <= MaxHoldings

Accepted(a, p) == Consistent(a, p) /\ Fresh(a, p) /\ Within(p) /\ ~p.conflict

\* A page is answered, checked, and kept; then the next one is asked for,
\* or the collector returns and releases the semaphore.
PageRead(a) ==
  /\ task[a] = "collect" /\ Answered(a)
  /\ \E p \in HonestPages(a, Offset(a)) \cup FaultyPages(a, Offset(a)) :
       IF ~Accepted(a, p) \/ (p.more /\ pages[a] + 1 >= MaxPages)
       THEN Failed(a) /\ UNCHANGED collector
       ELSE /\ rows' = [rows EXCEPT ![a] = @ \o p.data]
            /\ total' = [total EXCEPT ![a] = Total(a, p)]
            /\ pages' = [pages EXCEPT ![a] = @ + 1]
            /\ seen' = seen \cup ToSet(p.data)
            /\ wire' = [wire EXCEPT ![a] = IF p.more THEN "sent" ELSE "idle"]
            /\ task' = [task EXCEPT ![a] = IF p.more THEN @ ELSE "done"]
            /\ UNCHANGED <<pc, failure>>
  /\ UNCHANGED <<upstream, discovery, tokenRequests, holdings>>

\* gather raises the first failure: the others are cancelled.
GatherFails ==
  /\ pc = "gather" /\ failure
  /\ pc' = "cancelling"
  /\ UNCHANGED <<upstream, discovery, collector, network, task, failure, holdings>>

\* A cancelled collector ends where it awaits, whatever has been answered.
Cancelled(a) ==
  /\ pc = "cancelling" /\ task[a] \in Running
  /\ task' = [task EXCEPT ![a] = "cancelled"]
  /\ wire' = [wire EXCEPT ![a] = "idle"]
  /\ attempts' = [attempts EXCEPT ![a] = 0]
  /\ UNCHANGED <<upstream, discovery, collector, tokenRequests, pc, failure, holdings>>

\* Mutant of Raised: the failure is raised at once.
RaisedAtOnce ==
  /\ pc = "cancelling"
  /\ pc' = "failed"
  /\ UNCHANGED <<upstream, discovery, collector, network, task, failure, holdings>>

\* The second gather has waited for all of them.
Raised ==
  /\ pc = "cancelling"
  /\ \A a \in Accounts : task[a] \notin Running
  /\ pc' = "failed"
  /\ UNCHANGED <<upstream, discovery, collector, network, task, failure, holdings>>

\* Every collector has returned.
Gathered ==
  /\ pc = "gather" /\ \A a \in Accounts : task[a] \in {"done", "none"}
  /\ pc' = "close"
  /\ holdings' = IF \E a \in Accounts : ToSet(rows[a]) \cap Unsupported # {}
                 THEN "PARTIAL" ELSE "COMPLETE"
  /\ UNCHANGED <<upstream, discovery, collector, network, task, failure>>

\* The client and the HTTP client are closed, and the lease is released.
Close ==
  /\ pc = "close"
  /\ pc' = "done"
  /\ UNCHANGED <<upstream, discovery, collector, network, task, failure, holdings>>

\* The 180 seconds of a request: it is cancelled where it awaits, and in
\* gather its collectors with it.
Deadline ==
  /\ pc \notin {"done", "failed"}
  /\ failure' = TRUE
  /\ IF pc \in {"gather", "cancelling"} THEN pc' = "cancelling" ELSE pc' = "failed"
  /\ wire' = [wire EXCEPT ![Main] = "idle"]
  /\ attempts' = [attempts EXCEPT ![Main] = 0]
  /\ UNCHANGED <<upstream, discovery, collector, tokenRequests, task, holdings>>

-----------------------------------------------------------------------------
(* Finary's data change while the pages are read: a holding goes, comes,   *)
(* or changes places with its neighbour.                                   *)

Without(s, i) == SubSeq(s, 1, i - 1) \o SubSeq(s, i + 1, Len(s))
Insert(s, i, h) == SubSeq(s, 1, i - 1) \o <<h>> \o SubSeq(s, i, Len(s))

Swapped(s, i) == [s EXCEPT ![i] = s[i + 1], ![i + 1] = s[i]]

Held == UNION { ToSet(source[a]) : a \in Accounts }

Change ==
  /\ pc = "gather" /\ changes < MaxChanges
  /\ changes' = changes + 1
  /\ \E a \in Accounts :
       \/ \E i \in 1 .. Len(source[a]) :
            /\ source' = [source EXCEPT ![a] = Without(@, i)]
            /\ present' = [present EXCEPT ![a] = @ \ {source[a][i]}]
            /\ removed' = removed \cup {a}
            /\ UNCHANGED inserted
       \/ \E h \in Holdings \ Held, i \in 1 .. Len(source[a]) + 1 :
            /\ source' = [source EXCEPT ![a] = Insert(@, i, h)]
            /\ inserted' = inserted \cup {a}
            /\ UNCHANGED <<present, removed>>
       \/ \E i \in 1 .. Len(source[a]) - 1 :
            /\ source' = [source EXCEPT ![a] = Swapped(@, i)]
            /\ UNCHANGED <<present, removed, inserted>>
  /\ UNCHANGED <<discovery, collector, network, pc, task, failure, holdings>>

-----------------------------------------------------------------------------
Init ==
  /\ source \in Inventories
  /\ changes = 0
  /\ present = [a \in Accounts |-> ToSet(source[a])]
  /\ removed = {} /\ inserted = {}
  /\ pc = "authorize" /\ wire = [c \in Callers |-> IF c = Main THEN "sent" ELSE "idle"]
  /\ attempts = [c \in Callers |-> 0] /\ tokenRequests = 1
  /\ catalog = {} /\ unfit = {} /\ cursors = {}
  /\ task = [a \in Accounts |-> "none"]
  /\ rows = [a \in Accounts |-> <<>>] /\ total = [a \in Accounts |-> -1]
  /\ pages = [a \in Accounts |-> 0] /\ seen = {}
  /\ failure = FALSE /\ holdings = "UNAVAILABLE"

Stopped == pc \in {"done", "failed"} /\ UNCHANGED vars

Call(c) == Resend(c) \/ Unanswered(c) \/ Busy(c) \/ Refuse(c) \/ CallTimeout(c)

Next ==
  \/ \E c \in Callers : Call(c)
  \/ Authorized \/ Listed \/ Overview \/ AccountsRead
  \/ \E a \in Accounts : Acquire(a) \/ PageRead(a) \/ Cancelled(a)
  \/ GatherFails \/ Raised \/ Gathered \/ Close \/ Deadline
  \/ Change
  \/ Stopped

Spec == Init /\ [][Next]_vars

\* The event loop runs every task that can move and the timers of the calls
\* fire.  No answer of the server is assumed, nor the 180 s of the request.
Fairness ==
  /\ \A c \in Callers : WF_vars(Resend(c)) /\ WF_vars(CallTimeout(c))
  /\ \A a \in Accounts : WF_vars(Acquire(a)) /\ WF_vars(Cancelled(a))
  /\ WF_vars(GatherFails) /\ WF_vars(Raised) /\ WF_vars(Gathered) /\ WF_vars(Close)

FairSpec == Spec /\ Fairness

=============================================================================

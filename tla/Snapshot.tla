------------------------------ MODULE Snapshot -------------------------------
(***************************************************************************)
(* What a snapshot says, and when.                                         *)
(*                                                                         *)
(* The bridge reads the overview, the accounts and the holdings of Finary, *)
(* one after the other in one session, builds a snapshot of them and       *)
(* validates it; n8n validates it once more, by another program, and       *)
(* records a success; a reader shows the newest success it accepts.  The   *)
(* session is bounded by 180 s.  Every instant is a reading of one of      *)
(* three clocks, which may disagree and may be set while a snapshot is     *)
(* collected.  How pages are collected is in Collection, what n8n writes   *)
(* in WorkbookSync.                                                        *)
(***************************************************************************)
EXTENDS Integers, FiniteSets, Sequences

CONSTANTS
  Null,            \* null
  Runs,            \* executions of the workflow
  Answers,         \* what Finary may answer a session
  Window,          \* collection_timeout_seconds
  StaleAfter,      \* 48 hours
  DayLength,
  StartTime,
  MaxTime,         \* a bound of the time
  MaxAdjustments   \* changes of a clock: a bound

ASSUME NullAssumption == Null \notin Int /\ Null \notin Runs
ASSUME TimesAssumption ==
  /\ Window \in Nat /\ StaleAfter \in Nat /\ DayLength \in Nat \ {0}
  /\ StartTime \in Nat /\ MaxTime \in Nat /\ StartTime <= MaxTime /\ MaxAdjustments \in Nat

\* What Collection guarantees: an account, or a holding of a type, comes once,
\* and every holding in an account.
ASSUME AnswersAssumption ==
  \A u \in Answers :
    /\ IsFiniteSet(u.accounts) /\ IsFiniteSet(u.holdings)
    /\ \A a, b \in u.accounts : a.id = b.id => a = b
    /\ \A h, g \in u.holdings : h.type = g.type /\ h.id = g.id => h = g
    /\ \A h \in u.holdings : \E a \in u.accounts : a.id = h.account

\* What the schemas guarantee that every answer of a tool is checked against.
ASSUME SchemasAssumption ==
  \A u \in Answers :
    /\ u.currency # Null /\ u.gross \in Int /\ u.unvalued \in Nat
    /\ u.completeness \in {"complete", "assets_only"} /\ u.debt \in Int \cup {Null}
    /\ u.completeness = "complete" => u.debt # Null
    /\ Len(u.allocation) \in Nat /\ \A i \in 1 .. Len(u.allocation) : Len(u.allocation[i].types) \in Nat
    /\ Len(u.members) \in Nat /\ \A i \in 1 .. Len(u.members) : u.members[i] \in Int \cup {Null}
    /\ \A a \in u.accounts : /\ a.owners # Null => Len(a.owners) \in Nat
                             /\ a.link # Null => a.link.id # Null
    /\ \A i \in DOMAIN u.connections : u.connections[i].success \in Int \cup {Null}

Clocks == {"bridge", "n8n", "reader"}

VARIABLES
  answer,       \* what Finary answers
  now,          \* the time
  offset,       \* by how much each clock is ahead of it
  adjusted,     \* history: clocks that have been set meanwhile
  adjustments,  \* how often
  begun,        \* the time at which the request of each execution began
  started,      \* the clock of the bridge then
  phase,        \* where the session of the bridge is
  run,          \* the execution it is for
  at,           \* the clock after the overview: the freshness goes by it
  detail,       \* what has been read of accounts and holdings
  draft,        \* the snapshot before its validation
  stage,        \* where each execution is
  generated,    \* generated_at of the snapshot each has received
  terminals     \* the successes recorded

clocks  == <<now, offset, adjusted, adjustments>>
session == <<phase, run, at, detail, draft>>
records == <<stage, begun, started, generated, terminals>>
vars    == <<answer, clocks, session, records>>

Reading(c) == now + offset[c]
Day(t) == t \div DayLength

\* The rows of a table have distinct keys.
Unique(rows, fields) ==
  Cardinality({ [f \in fields |-> r[f]] : r \in rows }) = Cardinality(rows)

-----------------------------------------------------------------------------
(* Money and links.                                                        *)

\* Mutant of Money: a conversion is preferred to an amount in EUR.
MoneyConverted(amount, currency, conversion) ==
  LET basis == IF amount = Null \/ currency = Null THEN "UNAVAILABLE"
               ELSE IF conversion # Null THEN "SOURCE_CONVERSION"
               ELSE IF currency = "EUR" THEN "SOURCE_EUR" ELSE "UNAVAILABLE"
  IN [amount |-> amount, currency |-> currency, basis |-> basis,
      eur |-> IF basis = "SOURCE_EUR" THEN amount
              ELSE IF basis = "SOURCE_CONVERSION" THEN conversion ELSE Null]

Money(amount, currency, conversion) ==
  LET basis == IF amount = Null \/ currency = Null THEN "UNAVAILABLE"
               ELSE IF currency = "EUR" THEN "SOURCE_EUR"
               ELSE IF conversion # Null THEN "SOURCE_CONVERSION" ELSE "UNAVAILABLE"
  IN [amount |-> amount, currency |-> currency, basis |-> basis,
      eur |-> IF basis = "SOURCE_EUR" THEN amount
              ELSE IF basis = "SOURCE_CONVERSION" THEN conversion ELSE Null]

\* An amount without a currency is no money.
Denominated(r) == r.amount # Null => r.currency # Null

\* A link is null or names a resource of one type.
LinksTo(link, type) == link # Null => link.type = type

\* The resource a link names, when the answer includes it.
Resolves(link, included) == link # Null /\ link.id \in DOMAIN included

-----------------------------------------------------------------------------
(* The accounts and their connections.                                     *)

ConnectionState(a) ==
  IF a.link = Null THEN "NO_CONNECTION"
  ELSE IF Resolves(a.link, answer.connections) THEN "RESOLVED" ELSE "UNRESOLVED"

Freshness(c) ==
  IF c.error THEN "BROKEN"
  ELSE IF c.success = Null \/ c.success > at THEN "UNKNOWN"
  ELSE IF at - c.success > StaleAfter THEN "STALE" ELSE "FRESH"

FreshnessCode == [BROKEN |-> "BROKEN_CONNECTION", STALE |-> "STALE_SOURCE",
                  UNKNOWN |-> "UNKNOWN_FRESHNESS"]

Account(a) ==
  [key |-> a.id, balance |-> Money(a.amount, a.currency, a.conversion), full |-> a.conversion,
   connection |-> IF a.link = Null THEN Null ELSE a.link.id, state |-> ConnectionState(a),
   evidence |-> IF a.owners = Null THEN "UNAVAILABLE" ELSE "EXPLICIT_ENTRIES"]

Owners(a) ==
  IF a.owners = Null THEN {}
  ELSE { [account |-> a.id, owner |-> a.owners[i], row |-> i] : i \in 1 .. Len(a.owners) }

\* The connections of the accounts, each once.
Resolved ==
  { [key |-> a.link.id, freshness |-> Freshness(answer.connections[a.link.id])] :
      a \in { b \in answer.accounts : ConnectionState(b) = "RESOLVED" } }

\* Mutant of SourceFreshness: connections that are not there do not count.
SourceFreshnessResolved ==
  LET states == { c.freshness : c \in Resolved }
      Worst == <<"BROKEN", "STALE", "UNKNOWN", "FRESH">>
  IN IF states = {} THEN "NOT_APPLICABLE"
     ELSE Worst[CHOOSE i \in 1 .. 4 : Worst[i] \in states /\ \A j \in 1 .. i - 1 : Worst[j] \notin states]

\* The worst freshness there is; a connection that is not there is unknown.
SourceFreshness ==
  LET unresolved == \E a \in answer.accounts : ConnectionState(a) = "UNRESOLVED"
      states == { c.freshness : c \in Resolved } \cup (IF unresolved THEN {"UNKNOWN"} ELSE {})
      Worst == <<"BROKEN", "STALE", "UNKNOWN", "FRESH">>
  IN IF states = {} THEN "NOT_APPLICABLE"
     ELSE Worst[CHOOSE i \in 1 .. 4 : Worst[i] \in states /\ \A j \in 1 .. i - 1 : Worst[j] \notin states]

AccountWarnings ==
  {<<"OWNERSHIP_WORDING_CONFLICT", Null>>}
    \cup { <<"MISSING_ENRICHMENT", a.id>> :
             a \in { b \in answer.accounts : ConnectionState(b) = "UNRESOLVED" } }
    \cup { <<FreshnessCode[c.freshness], c.key>> :
             c \in { d \in Resolved : d.freshness # "FRESH" } }
    \cup (IF answer.syncWarnings THEN {<<"BROKEN_CONNECTION", Null>>} ELSE {})

\* The accounts are refused as a whole when one of them is malformed.
AccountsFit ==
  \A a \in answer.accounts :
    /\ LinksTo(a.link, "institution-connections")
    /\ ConnectionState(a) = "RESOLVED" =>
         LinksTo(answer.connections[a.link.id].institution, "institutions")
    /\ Denominated(a)

NoDetail ==
  [accountsState |-> "UNAVAILABLE", holdingsState |-> "UNAVAILABLE", freshness |-> "UNKNOWN",
   accounts |-> {}, ownership |-> {}, connections |-> {}, positions |-> {}, rates |-> {},
   warnings |-> {}, unsupported |-> {}]

AccountDetail ==
  [NoDetail EXCEPT !.accountsState = "COMPLETE", !.freshness = SourceFreshness,
     !.accounts = { Account(a) : a \in answer.accounts },
     !.ownership = UNION { Owners(a) : a \in answer.accounts },
     !.connections = Resolved, !.warnings = AccountWarnings]

-----------------------------------------------------------------------------
(* The holdings.                                                           *)

\* What a holding of each type is a holding of; a type the contract does not
\* know has no entry.
ProductType == [ security |-> "securities", crypto |-> "currencies", fiat |-> "currencies",
                 scpi |-> "scpis", fund |-> Null ]

Supported(h) == h.type \in DOMAIN ProductType

\* The link to the product is read only for types that have one.
Product(h) == IF ProductType[h.type] = Null THEN Null ELSE h.product

HoldingsFit ==
  \A h \in answer.holdings : LinksTo(Product(h), ProductType[h.type]) /\ Denominated(h)

Position(h) ==
  [key |-> <<h.account, h.type, h.id>>, account |-> h.account, type |-> h.type, id |-> h.id,
   value |-> Money(h.amount, h.currency, Null)]

RateFields(h) ==
  IF h.type = "fund" THEN h.rates \cap {"annual_yield"}
  ELSE IF h.type = "security" /\ Resolves(h.product, answer.products)
       THEN answer.products[h.product.id] \cap {"expense_ratio", "subscription_fees_ratio"}
       ELSE {}

Rates(h) == { [position |-> Position(h).key, field |-> f] : f \in RateFields(h) }

Unsupported ==
  { [account |-> h.account, type |-> h.type] : h \in { g \in answer.holdings : ~Supported(g) } }

\* With one holding of an unknown type no holding becomes a position.
HoldingsDetail ==
  LET warned == detail.warnings \cup {<<"UNVERIFIED_DETAIL", Null>>} IN
    IF Unsupported # {}
    THEN [detail EXCEPT !.holdingsState = "PARTIAL", !.unsupported = Unsupported, !.warnings = warned]
    ELSE [detail EXCEPT !.holdingsState = "COMPLETE",
            !.positions = { Position(h) : h \in answer.holdings },
            !.rates = UNION { Rates(h) : h \in answer.holdings },
            !.warnings = warned \cup
              { <<"MISSING_ENRICHMENT", Position(h).key>> :
                  h \in { g \in answer.holdings : Product(g) # Null /\ ~Resolves(Product(g), answer.products) } }]

Incomplete(d) == [d EXCEPT !.warnings = @ \cup {<<"INCOMPLETE_DETAIL", Null>>}]

-----------------------------------------------------------------------------
(* The snapshot.                                                           *)

\* The overview: an assets-only balance sheet tells no debt.
OverviewFits ==
  /\ answer.view = <<"household", "direct", "gross_assets">>
  /\ answer.completeness = "assets_only" => answer.debt = Null

Valuation(values, retrieval) ==
  LET known == { v \in values : v.amount # Null /\ v.currency # Null } IN
    IF retrieval # "COMPLETE" THEN "UNAVAILABLE"
    ELSE IF known = values THEN "COMPLETE" ELSE IF known # {} THEN "PARTIAL" ELSE "UNAVAILABLE"

DebtValuation ==
  IF answer.completeness = "assets_only" THEN "UNAVAILABLE"
  ELSE IF answer.unvalued > 0 THEN "PARTIAL" ELSE "COMPLETE"

Quality == [UNAVAILABLE |-> "ASSETS_ONLY", PARTIAL |-> "REPORTED_UNVALUED_DEBT",
            COMPLETE |-> "REPORTED_COMPLETE"]

Overview ==
  [completeness |-> answer.completeness, unvalued |-> answer.unvalued,
   gross |-> Money(answer.gross, answer.currency, Null),
   debt |-> Money(answer.debt, answer.currency, Null)]

Draft(ended) ==
  [ started |-> started[run], ended |-> ended, generated |-> ended, date |-> Day(ended),
    currency |-> answer.currency, overview |-> Overview,
    categories |-> { [row |-> i, category |-> answer.allocation[i].category] :
                       i \in 1 .. Len(answer.allocation) },
    types |-> UNION { { [row |-> <<i, j>>, category |-> answer.allocation[i].category,
                         type |-> answer.allocation[i].types[j]] :
                          j \in 1 .. Len(answer.allocation[i].types) } :
                      i \in 1 .. Len(answer.allocation) },
    members |-> { [row |-> i, debt |-> Money(answer.members[i], answer.currency, Null)] :
                    i \in 1 .. Len(answer.members) },
    detail |-> [detail EXCEPT !.warnings =
                  @ \cup (IF DebtValuation = "PARTIAL" THEN {<<"UNVALUED_DEBT", Null>>} ELSE {})],
    accountValuation |-> Valuation({ a.balance : a \in detail.accounts }, detail.accountsState),
    holdingValuation |-> Valuation({ p.value : p \in detail.positions }, detail.holdingsState),
    debtValuation |-> DebtValuation, quality |-> Quality[DebtValuation] ]

-----------------------------------------------------------------------------
(* The contract both validators go by: the schema of a snapshot.           *)

MoneySchema(m) ==
  /\ m.eur = Null <=> m.basis = "UNAVAILABLE"
  /\ m.basis = "SOURCE_EUR" => m.currency = "EUR"
  /\ m.amount # Null => m.currency # Null

Schema(s) ==
  LET d == s.detail IN
  /\ \A a \in d.accounts : MoneySchema(a.balance)
  /\ \A p \in d.positions : MoneySchema(p.value) /\ p.type \in DOMAIN ProductType
  /\ MoneySchema(s.overview.gross) /\ MoneySchema(s.overview.debt)
  /\ d.accountsState # "COMPLETE" => d.accounts = {} /\ d.ownership = {} /\ d.connections = {}
  /\ d.holdingsState # "COMPLETE" => d.positions = {} /\ d.rates = {}
  /\ d.holdingsState = "COMPLETE" => d.accountsState = "COMPLETE"
  /\ d.unsupported # {} => d.holdingsState = "PARTIAL"
  /\ s.overview.gross.amount >= 0
  /\ IF s.overview.completeness = "assets_only"
     THEN s.quality = "ASSETS_ONLY" /\ s.debtValuation = "UNAVAILABLE" /\ s.overview.debt.amount = Null
     ELSE /\ s.overview.debt.amount # Null
          /\ IF s.overview.unvalued = 0
             THEN s.quality = "REPORTED_COMPLETE" /\ s.debtValuation = "COMPLETE"
             ELSE s.quality = "REPORTED_UNVALUED_DEBT" /\ s.debtValuation = "PARTIAL"

\* The keys of the tables, the same in both programs.
KeysUnique(s) ==
  /\ Unique(s.detail.accounts, {"key"}) /\ Unique(s.detail.connections, {"key"})
  /\ Unique(s.detail.ownership, {"account", "owner"})
  /\ Unique(s.detail.positions, {"type", "id"}) /\ Unique(s.detail.rates, {"position", "field"})
  /\ Unique(s.detail.unsupported, {"account", "type"})
  /\ Unique(s.categories, {"category"}) /\ Unique(s.types, {"category", "type"})
  /\ Unique(s.members, {"row"})

Keys(rows) == { r.key : r \in rows }

-----------------------------------------------------------------------------
(* The bridge's validator, in Python.                                      *)

ValidateMoney(m, view) ==
  /\ view # Null => m.currency = view
  /\ IF m.amount = Null THEN m.eur = Null /\ m.basis = "UNAVAILABLE"
     ELSE /\ m.currency # Null
          /\ IF m.currency = "EUR" THEN m.eur = m.amount /\ m.basis = "SOURCE_EUR"
             ELSE view # Null => m.eur = Null /\ m.basis = "UNAVAILABLE"

ValidatePosition(p) ==
  p.key = <<p.account, p.type, p.id>> /\ ValidateMoney(p.value, Null) /\ p.value.basis # "SOURCE_CONVERSION"

ValidateCollectionContext(s) ==
  /\ s.started <= s.ended /\ s.ended <= s.generated
  /\ s.ended - s.started <= Window
  /\ Day(s.generated) = s.date

ValidateSnapshot(s) ==
  LET d == s.detail IN
  /\ Schema(s) /\ ValidateCollectionContext(s) /\ KeysUnique(s)
  /\ \A a \in d.accounts :
       /\ a.state = "NO_CONNECTION" => a.connection = Null
       /\ a.state = "UNRESOLVED" => a.connection # Null
       /\ a.state = "RESOLVED" => a.connection \in Keys(d.connections)
       /\ ValidateMoney(a.balance, Null)
       /\ a.balance.basis = "SOURCE_CONVERSION" => a.full # Null /\ a.balance.eur = a.full
  /\ \A o \in d.ownership :
       \E a \in d.accounts : a.key = o.account /\ a.evidence = "EXPLICIT_ENTRIES"
  /\ \A p \in d.positions : p.account \in Keys(d.accounts) /\ ValidatePosition(p)
  /\ \A r \in d.rates : r.position \in Keys(d.positions)
  /\ \A u \in d.unsupported : u.account \in Keys(d.accounts)
  /\ s.accountValuation = Valuation({ a.balance : a \in d.accounts }, d.accountsState)
  /\ s.holdingValuation = Valuation({ p.value : p \in d.positions }, d.holdingsState)
  /\ ValidateMoney(s.overview.gross, s.currency)
  /\ \A debt \in {s.overview.debt} \cup { m.debt : m \in s.members } :
       ValidateMoney(debt, s.currency) /\ (debt.amount = Null \/ debt.amount >= 0)
  /\ \A t \in s.types : \E c \in s.categories : c.category = t.category

-----------------------------------------------------------------------------
(* The validator of n8n, in JavaScript.                                    *)

McpMoney(m, currency) ==
  /\ currency # Null => m.currency = currency
  /\ m.amount = Null => m.eur = Null /\ m.basis = "UNAVAILABLE"
  /\ m.amount # Null =>
       /\ m.currency # Null
       /\ m.currency = "EUR" => m.eur # Null /\ m.basis = "SOURCE_EUR" /\ m.amount = m.eur
       /\ m.currency # "EUR" /\ currency # Null => m.eur = Null /\ m.basis = "UNAVAILABLE"

McpSnapshot(s) ==
  LET d == s.detail
      Known(values) == Cardinality({ v \in values : v.amount # Null /\ v.currency # Null })
      State(values, state) ==
        IF state # "COMPLETE" THEN "UNAVAILABLE"
        ELSE IF Known(values) = Cardinality(values) THEN "COMPLETE"
        ELSE IF Known(values) > 0 THEN "PARTIAL" ELSE "UNAVAILABLE"
  IN
  /\ Schema(s) /\ KeysUnique(s)
  /\ s.started <= s.ended /\ s.ended <= s.generated /\ s.ended - s.started <= Window
  /\ s.date = Day(s.generated)
  /\ \A a \in d.accounts :
       /\ IF a.state = "NO_CONNECTION" THEN a.connection = Null
          ELSE IF a.state = "RESOLVED" THEN a.connection \in Keys(d.connections)
          ELSE a.connection # Null
       /\ McpMoney(a.balance, Null)
       /\ a.balance.basis = "SOURCE_CONVERSION" => a.full # Null /\ a.balance.eur = a.full
  /\ \A o \in d.ownership :
       o.account \in Keys({ a \in d.accounts : a.evidence = "EXPLICIT_ENTRIES" })
  /\ \A p \in d.positions :
       /\ p.account \in Keys(d.accounts) /\ p.key = <<p.account, p.type, p.id>>
       /\ McpMoney(p.value, Null) /\ p.value.basis # "SOURCE_CONVERSION"
  /\ { r.position : r \in d.rates } \subseteq Keys(d.positions)
  /\ { u.account : u \in d.unsupported } \subseteq Keys(d.accounts)
  /\ { t.category : t \in s.types } \subseteq { c.category : c \in s.categories }
  /\ McpMoney(s.overview.gross, s.currency)
  /\ \A m \in s.members \cup {[row |-> 0, debt |-> s.overview.debt]} :
       McpMoney(m.debt, s.currency) /\ (m.debt.amount # Null => m.debt.amount >= 0)
  /\ s.accountValuation = State({ a.balance : a \in d.accounts }, d.accountsState)
  /\ s.holdingValuation = State({ p.value : p \in d.positions }, d.holdingsState)

-----------------------------------------------------------------------------
(* The request of the bridge.                                              *)

Elapsed == now - begun[run]

\* The snapshot service reads the clock and opens a session, of which the
\* lease lets one at a time go on.
Begin(r) ==
  /\ stage[r] = "idle"
  /\ stage' = [stage EXCEPT ![r] = "waiting"]
  /\ begun' = [begun EXCEPT ![r] = now] /\ started' = [started EXCEPT ![r] = Reading("bridge")]
  /\ UNCHANGED <<answer, clocks, session, generated, terminals>>

Lease(r) ==
  /\ phase = "idle" /\ stage[r] = "waiting" /\ now - begun[r] <= Window
  /\ phase' = "overview" /\ run' = r
  /\ stage' = [stage EXCEPT ![r] = "collecting"]
  /\ UNCHANGED <<answer, clocks, at, detail, draft, begun, started, generated, terminals>>

NoSession == phase' = "idle" /\ run' = Null /\ at' = 0 /\ detail' = NoDetail /\ draft' = Null

\* Mutant of CollectionFails: the session of a failed request is not closed.
CollectionFailsOpen(r) ==
  /\ \/ stage[r] = "waiting"
     \/ run = r /\ phase \in {"overview", "accounts", "holdings", "close"}
  /\ stage' = [stage EXCEPT ![r] = "failed"]
  /\ UNCHANGED <<answer, clocks, session, begun, started, generated, terminals>>

\* The bridge answers with an error, and the execution fails: a call fails,
\* the request is cut off, or what Finary answers does not fit.
CollectionFails(r) ==
  /\ \/ stage[r] = "waiting" /\ UNCHANGED session
     \/ run = r /\ phase \in {"overview", "accounts", "holdings", "close"} /\ NoSession
  /\ stage' = [stage EXCEPT ![r] = "failed"]
  /\ UNCHANGED <<answer, clocks, begun, started, generated, terminals>>

\* In time, and fit.
Proceeds(step, fits) == phase = step /\ Elapsed <= Window /\ fits

\* The overview is read, and with it the instant the freshness goes by.
ReadOverview ==
  /\ Proceeds("overview", OverviewFits)
  /\ at' = Reading("bridge") /\ phase' = "accounts"
  /\ UNCHANGED <<answer, clocks, run, detail, draft, records>>

ReadAccounts ==
  /\ Proceeds("accounts", "accounts" \in answer.tools => AccountsFit)
  /\ IF "accounts" \in answer.tools
     THEN /\ detail' = IF "holdings" \in answer.tools THEN AccountDetail ELSE Incomplete(AccountDetail)
          /\ phase' = IF "holdings" \in answer.tools THEN "holdings" ELSE "close"
     ELSE detail' = Incomplete(NoDetail) /\ phase' = "close"
  /\ UNCHANGED <<answer, clocks, run, at, draft, records>>

ReadHoldings ==
  /\ Proceeds("holdings", Unsupported = {} => HoldingsFit)
  /\ detail' = HoldingsDetail /\ phase' = "close"
  /\ UNCHANGED <<answer, clocks, run, at, draft, records>>

\* The session is closed, the clock read, and the snapshot validated.
Assemble ==
  /\ Proceeds("close", TRUE)
  /\ draft' = Draft(Reading("bridge"))
  /\ phase' = IF ValidateSnapshot(draft') THEN "answered" ELSE "refused"
  /\ UNCHANGED <<answer, clocks, run, at, detail, records>>

\* n8n gets the snapshot, or SNAPSHOT_VALIDATION_FAILED.
Receive ==
  /\ phase \in {"answered", "refused"}
  /\ IF phase = "answered" /\ McpSnapshot(draft)
     THEN /\ stage' = [stage EXCEPT ![run] = "writing"]
          /\ generated' = [generated EXCEPT ![run] = draft.generated]
     ELSE stage' = [stage EXCEPT ![run] = "failed"] /\ UNCHANGED generated
  /\ NoSession
  /\ UNCHANGED <<answer, clocks, begun, started, terminals>>

-----------------------------------------------------------------------------
(* The workflow and the reader.                                            *)

\* Finalize MCP Success reads the clock of n8n; the terminal is recorded.
Complete(r) ==
  /\ stage[r] = "writing"
  /\ stage' = [stage EXCEPT ![r] = "succeeded"]
  /\ terminals' = terminals \cup { [run |-> r, generated |-> generated[r], completed |-> Reading("n8n")] }
  /\ UNCHANGED <<answer, clocks, session, begun, started, generated>>

WriteFails(r) ==
  /\ stage[r] = "writing"
  /\ stage' = [stage EXCEPT ![r] = "failed"]
  /\ UNCHANGED <<answer, clocks, session, begun, started, generated, terminals>>

\* Mutant of Accepts: a success must be in the past.
AcceptsPast(t) == t.generated <= t.completed /\ t.completed < Reading("reader")

\* What the reader, at its time, accepts of a success.
Accepts(t) == t.generated <= t.completed /\ t.completed <= Reading("reader")

\* The reader refuses an inventory in which two successes completed at one
\* instant; otherwise it shows the newest one it accepts.
Tied == \E t, u \in terminals : t # u /\ t.completed = u.completed

Shown ==
  IF Tied THEN {}
  ELSE { t \in terminals :
           Accepts(t) /\ \A u \in terminals : u.completed > t.completed => ~Accepts(u) }

-----------------------------------------------------------------------------
(* Time.                                                                   *)

Tick ==
  /\ now < MaxTime
  /\ now' = now + 1
  /\ UNCHANGED <<answer, offset, adjusted, adjustments, session, records>>

\* A clock is set, forward or back.
Adjust(c) ==
  /\ adjustments < MaxAdjustments
  /\ \E o \in -1 .. 1 : o # offset[c] /\ offset' = [offset EXCEPT ![c] = o]
  /\ adjusted' = adjusted \cup {c} /\ adjustments' = adjustments + 1
  /\ UNCHANGED <<answer, now, session, records>>

Init ==
  /\ answer \in Answers
  /\ now = StartTime /\ offset \in [Clocks -> -1 .. 1]
  /\ adjusted = {} /\ adjustments \in 0 .. MaxAdjustments
  /\ phase = "idle" /\ run = Null /\ at = 0 /\ detail = NoDetail /\ draft = Null
  /\ begun = [r \in Runs |-> 0] /\ started = [r \in Runs |-> 0]
  /\ stage = [r \in Runs |-> "idle"] /\ generated = [r \in Runs |-> 0]
  /\ terminals = {}

Ended == \A r \in Runs : stage[r] \in {"succeeded", "failed"}

Next ==
  \/ \E r \in Runs : Begin(r) \/ Lease(r) \/ CollectionFails(r) \/ Complete(r) \/ WriteFails(r)
  \/ ReadOverview \/ ReadAccounts \/ ReadHoldings \/ Assemble \/ Receive
  \/ Tick \/ \E c \in Clocks : Adjust(c)
  \/ Ended /\ UNCHANGED vars

Spec == Init /\ [][Next]_vars

=============================================================================

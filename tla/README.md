# Verification of the Finary MCP synchronization

This directory holds TLA+ specifications of the program in this repository, the
TLC configurations that model-check them, and proofs that TLAPS checks.  The
code is the reference: every definition carries the control flow of the source
lines that `PROJECT.json` maps it to, and abstracts the data that no property
tells apart.

## 1. The system

```
 Finary MCP (remote)          OAuth issuer (remote)
        ^                            ^
        | BoundedTransport           | rotation, revocation
        |                            |
 finary-bridge (FastAPI, Python) ----+---- OAuth state file (lock, lease, CAS)
        ^                                        ^
        | GET /v1/snapshot                       | scripts/handoff-mcp-oauth-state.py
        |
 n8n workflow "Finary MCP Portfolio Sync" (JavaScript code nodes, Sheets nodes)
        |
        v
 private Google Sheets workbook  <---- the operator (writer_control, environment)
        |
        v
 reader: app/mcp_workbook.py + app/mcp_consumer.py
```

| component | state | operations | interacts with | what is hard |
|---|---|---|---|---|
| Synchronization workflow (`scripts/build-mcp-workflow.py`, `n8n/mcp-workbook.js`, `n8n/code-nodes/`) | per execution: run identity, snapshot, rows read, batches, position, attempts | fetch, read every sheet, prepare, upsert 13 tables, recheck, record success; shared failure branch | bridge (HTTP), workbook (remote calls), operator | every Sheets node is a remote call that can fail before or after it took effect and is retried; executions can overlap, be cut off by the 300 s timeout, or find control changed |
| Workbook | `writer_control`, `sync_runs`, two current tables, eleven dated tables, manual tables | read and append-or-update of one sheet | writers, operator, readers | no transaction spans two sheets |
| Workbook reader (`app/mcp_workbook.py`, `app/mcp_consumer.py`) | none (pure) | validate inventory, membership of an observation, select the newest | workbook | must recognise every partial state; counts coincide |
| OAuth store (`app/mcp_auth.py`) | state file with a generation, `.lock`, `.lease` | read, replace (compare-and-swap), lease, bootstrap, revoke, status | bridge sessions, operator commands, handoff | crash between remote rotation and local rename; locks that are inodes |
| OAuth handoff (`scripts/handoff-mcp-oauth-state.py`) | staging directory, destination volume, transfer worker, report | preflight, transfer, validate, cleanup | OAuth store, Docker, operator | cleanup removes the lock files others may be opening; Docker commands time out and their containers go on; a destination touched by a failed attempt |
| MCP session and transport (`app/mcp_client.py`) | attempts, tool catalog, cursors | authorize, list tools, call, bounded retry, close | remote MCP | only idempotent requests may be retried; 30 s per call and 180 s per request run out anywhere |
| MCP adapter (`app/mcp_adapter.py`) | accounts, pages, holdings seen, collector tasks | overview, accounts, holdings per account under a semaphore | session | collectors share state and fail while others wait; data change while they are paged |
| Snapshot service and models (`app/services`, `app/mcp_models.py`, `app/mcp_validation.py`) | none; the order of calls and clock readings | coverage, valuation, quality, assembly, validation | adapter, clock | clocks that are set meanwhile; incomplete or inconsistent answers |
| Snapshot validation in n8n (`n8n/mcp-workbook.js`, `validate-mcp-snapshot.js`) | none | the same validation in JavaScript | bridge | two programs must judge alike |
| HTTP boundary (`app/main.py`, `errors.py`, `config.py`, `mcp_logging.py`) | none | authentication, `/v1/snapshot`, error mapping | n8n | – |
| Optional probes (`app/mcp_optional.py`) | none | validate optional tool responses | session | – |
| Provisioning (`scripts/initialize-workbook.py`, `check-workbook.py`) | none | the empty inventory, native decoding | workbook | – |
| Deployment, release and CI scripts | none | file generation and checks | – | – |

What makes each of the stateful components correct:

* **workflow and reader** – history is never rewritten; a recorded success holds
  exactly its snapshot; the reader shows current tables only when they hold the
  selected snapshot; nothing is inactivated without evidence; a failed run never
  blocks the next; a replaced writer does not succeed.
* **OAuth store** – at most one live lease; a stored generation is never
  overwritten by a writer that read an older one; after any crash the file is a
  complete earlier or later state.
* **handoff** – the source is removed only when the destination was verified
  equal to it and nobody else changed it.
* **adapter / transport** – a snapshot is complete or refused, no request of
  unknown effect is repeated, no collector outlives its collection.
* **snapshot** – it says of itself what is true of the answer it was made of
  (how fresh, how complete), whatever the clock did meanwhile; the bridge and n8n
  judge it alike; what was synchronized last is what a reader shows.

The hazards behind these, each at its source line, are in `PROJECT.json`.

## 2. Plan

1. `Workbook`, `WorkbookReader`, `WorkbookSync`, `WorkbookSafety`,
   `ObservationLedger` (abstract): the core. *Done; all of its safety properties
   proved, the refinement of the ledger included.*
2. `OAuthStore`, `OAuthSafety`: lock and lease as inodes, compare-and-swap,
   rotation, crash, bootstrap, revoke, and the handoff's cleanup as another
   actor; `Connection` (abstract).  *Done; what a removal, a stored token and a swap
   are is proved with cleanup among the commands, single ownership and the
   refinement of the connection for the case without, which they need.*
3. `Collection`, `CollectionSafety`: the request of the bridge as asyncio runs
   it, with transport, discovery, collectors, pagination, cancellation and
   deadlines.  *Done; all of its safety properties proved.*
4. `Handoff`, `HandoffSafety`: the destination, the workers that outlive their
   commands, the operator, the reports.  *Done; all of its properties proved.*
5. `Snapshot`, `SnapshotSafety`: what the answer becomes, both validators, three
   clocks, and the composition bridge – n8n – reader.  *Done; all of its properties
   proved.*
6. Left: the encoding of keys and cells.

Runs stay small enough to finish in minutes: two or three actors, one or two
retries, two keys.

## 3. The modules

### The workbook

* `Workbook` – snapshots, physical rows, terminals, unique keys; the constants
  `Runs`, `Keys`, `WriteOrder`, `Snapshots` and their assumptions.  A run makes
  one snapshot request and every answer has a fresh `observation_id`, so a run
  identity stands for both.  A row is `[key, born, run, active]`: which append
  created it, whose observation it holds now.  Two physical rows may share a
  unique key; that is what overlapping appends can produce.
* `WorkbookReader` – `ValidInventory` is `_validated_inventory`, `Accepts` and
  `HasCurrent` are `_observation`, `Select` is `_select`.
* `WorkbookSync` – the workflow.  Each Sheets node is an action; an upsert is
  two (`LookUp`, which reads the sheet and matches rows, then `Write` or
  `WriteFails`, which rewrite the matched rows and append the others in two calls
  that may each have taken effect or not).  `ReadControl`, `ReadTerminals`,
  `ReadTable` are the reads; `Prepare` is the whole of *Prepare MCP Rows* with its
  three checks; `FinalizeSuccess`/`RecordSuccess` and the failure branch
  follow.  `HardStop` is a lost process or the execution timeout, between any
  two steps.  `SwitchState`, `ReplaceWriter` and `Configure` are the operator.
* `WorkbookSafety` – the properties, the refinement mapping, and the invariants
  `IInv` and `Fence` of the proofs.
* `ObservationLedger` – what the workbook promises its readers, abstractly: a
  growing set of accepted snapshots and a reader that refuses or shows the
  newest with exactly its rows.
* `MCWorkbookSync` – the small instances.
* `WorkbookHistory_proofs`, `WorkbookFence_proofs`, `WorkbookReader_proofs` – the
  theorems: types and what successes hold, what a run may write, what the reader
  shows.

Correspondence of state: `control`, `terminals`, `sheets` are the workbook;
`environment` is `FINARY_MCP_WRITER_GENERATION`; `pc`, `generation`, `snap`,
`read`, `batch`, `at`, `tries`, `matched`, `stamp` are the data n8n keeps for an
execution; `clock` counts completion instants; `fenced` is a history variable
for one property.

### The OAuth store

* `OAuthStore` – one process of `Procs` runs one command: a bridge session, the
  operator's `bootstrap`, `status` or `revoke`, or a handoff of the staging file
  with or without `--cleanup-source`.  A lock belongs to an open inode:
  `OpenLease`/`OpenLock` open what the name leads to or create it, `TakeLease`,
  `LeaseTimesOut` and `TryLock` compete for it, `Unlink*` remove the name.  Every
  section under the storage lock passes `OpenLock`, `TryLock` and one of `Load`,
  `Compare` (the comparison and the temporary file) and `Rename`/`RenameFails`,
  or `CheckSource`.  `Renew`, `Register`, `Authorize` and `Revoke` are what the
  SDK and the provider do, each with the case that the answer is lost; `Crash` is
  a lost process.  `ReadSource` … `RemoveDirectory` are the handoff.
* `OAuthSafety` – the properties, the inductive invariant `OwnerInv`, and the
  refinement mapping: the user of the connection is whoever has the lease, and its
  phase follows from the stored token, the provider and what that process has in
  hand.
* `Connection` – what the store promises, abstractly, without files, locks or
  tokens: one user at a time, whom a renewal, a revocation or its own end takes
  through the phases of the connection; it is lost only together with a user that
  had the next token in hand, had revoked it, or did not get an answer.
* `MCOAuth` – the small instances; `OAuthStore_proofs` – the theorems that need a
  single owner; `OAuthCleanup_proofs` – those that hold with cleanup as well.

Correspondence of state: `store`, `tmp`, `directory`, `lockFile`, `leaseFile` are
what is on disk (generations are numbers in order of creation, `issued` the last
one; a UUID is only ever compared for equality); `leaseFd` and `lockFd` are the
open files; `known` is `RenewableStorage.state`; `got` is the token response on its
way into `set_tokens`; `want` is `--expected-generation`; `source` and `copy` are
the transferred bytes at both ends; `live` and `minted` belong to the provider.
`mishaps` is a history variable: the tokens whose loss is explained by a call
that failed or a process that was lost.

### A request of the bridge

* `Collection` – one task per caller: the request itself (`Main`) and a collector
  for each account.  A step is what a task does between two awaits.
  `Authorized`, `Listed`, `Overview`, `AccountsRead`, `PageRead` are the answers
  with all their checks; `Unanswered`, `Busy`, `Refuse`, `CallTimeout`, `Resend`
  are `BoundedTransport` and `_run_within`.  `Acquire` is the semaphore,
  `GatherFails`, `Cancelled`, `Raised`, `Gathered` are the two `asyncio.gather`
  of `holdings`, `Deadline` is `asyncio.timeout` of the request, `Close` the exit
  of the session.  `Honest` and `FaultyPages` are the server (external), `Change`
  is the portfolio that changes while it is read.
* `CollectionSafety`, `MCCollection`, `Collection_proofs`.

Correspondence of state: `rows`, `total`, `pages` are the locals of a collector,
`seen` is `seen_holdings` (with its count), `catalog`, `unfit`, `cursors` the
discovery, `wire` and `attempts` the transport, `task` and `failure` what gather
knows, `holdings` is `holdings_state`.  `source` belongs to Finary; `present`,
`removed`, `inserted` are histories of it for `AnswersWhole`, `tokenRequests`
counts for `TokenSentOnce`.

### The handoff, seen from the destination

* `Handoff` – `Start` … `Unlinked` are the script from its arguments to its
  report, each Docker command with the case that it fails or runs out of time
  (`DockerFails`); `Create` and `Write` are the transfer worker, which is a process
  of its own and may act after the script has reported or crashed; `Compose` and
  `BridgeUses` are the operator and a bridge that is started meanwhile.  The
  source side, with its lock files, is in `OAuthStore`; here a lease is an
  exclusion of two handoffs of one staging state.
* `HandoffSafety`, `MCHandoff`, `Handoff_proofs`.

Correspondence of state: `staging`, `volume`, `dest`, `bridge` are the directory,
the volume with its labels, the state directory in it and the container;
`attempted` is `transfer_attempted`, `report` the status and its advice (`failed,
retry` and `failed, inspect` stand for the codes that advise the one or the other).

### The snapshot

* `Snapshot` – `Account`, `Owners`, `Resolved`, `SourceFreshness`, `Position`,
  `Rates`, `AccountWarnings` … build what the adapter builds; `Valuation`,
  `DebtValuation`, `Quality`, `Draft` what the service assembles; `Schema` is what
  the JSON schema says conditionally, `ValidateSnapshot` the bridge's validation and
  `McpSnapshot` n8n's, translated separately.  `Begin` to `Assemble` are the calls
  in the order in which the service makes them and reads its clock, `Receive`,
  `Complete`, `WriteFails` the execution, `Shown` the reader, `Tick` and `Adjust`
  time.  What goes on between two reads is in `Collection`, between `Receive` and
  `Complete` in `WorkbookSync`: here they are single steps that may take any time.
* `SnapshotSafety`, `MCSnapshot` (the answers of Finary), `Snapshot_proofs`.

## 4. What is checked

| run | question | bounds |
|---|---|---|
| `sync_serial` | the operating model of docs/operations.md: executions do not overlap and the operator acts between them; is every workbook that failures and hard stops leave behind either recoverable or visibly orphaned, and is the next complete success served in full? | 3 runs, 4 tables, 2 keys, 3 snapshots, 1 attempt, 1 generation |
| `sync_undrained` | the operator acts in the middle of executions: are replaced writers fenced, is history immutable, and does every started execution end? | 2 runs, 2 attempts, 2 generations |
| `sync_overlap` | two executions overlap over a workbook that holds an accepted success: is whatever is accepted exact? | 1 + 2 runs, 2 attempts, `MCOverlapInit` |
| `sync_ledger` | do writer and reader implement the ledger? | 2 overlapping runs, 2 snapshots |
| `oauth_sessions` | while no handoff cleans up: one owner, who knows the current state; no token lost without a lost call or process; only the named connection revoked; and is all this the connection of `Connection`? | 3 processes, any commands, 2 renewals |
| `oauth_cleanup` | the same with a cleanup that removes the lock files: is nothing removed that was not copied, and nothing replaced that was not known? | 3 processes, 2 renewals |
| `oauth_live` | is every lease released? | 2 processes, 1 renewal |
| `bridge_collection` | a request from its token to its last page, with failures, cancellation and changing data: is an answer whole and without doubles, does nothing go on after it, does it end? | 3 accounts, 3 holdings, pages of 1, 2 pages, 2 attempts, 2 listings, 2 collectors at a time, 2 changes |
| `handoff_report` | what the script reports, against what is at the destination, whatever comes late or beside it | 2 handoffs, 2 staging states |
| `bridge_snapshot` | is a snapshot honest about its answer, do both validators agree, and is the newest success shown, with clocks that disagree or are set? | 2 executions, 3 instants, 1 setting of a clock, 544 answers |
| `oauth_contention` | may a command that found the storage lock taken be retried? *No.* | 2 processes, a session and a status |
| `oauth_overlap` | do renewals never overlap, with a cleanup among the commands? *They may.* | 3 processes |

**Workbook bounds.**  The four tables are the two current ones, the dated
positions and the observation row: each of the other nine dated tables is written
and read by the same code as one of the two that are kept, differing in its key
and in the coverage that permits it.  Two keys let an account or a position
appear, disappear and return.  Three serial runs are a success, an interrupted
run and the recovery over it; two overlapping runs over an existing success are
the shortest way to two writers that both read what a third one wrote.  With two
attempts a retry after an attempt of unknown effect happens; a third attempt
repeats it.

**OAuth bounds.**  Three processes are a holder of an unlinked lease file, a
holder of the next one and the handoff that came between, or an owner, a waiting
owner and a status that takes the storage lock under both.  Two renewals let a
session renew what it has itself stored.  `issued`, `minted` and `inodes` are
bounded by the number of commands.

**Collection bounds.**  Three accounts and a semaphore of two make one collector
wait.  Two pages of one row are the least in which a row can move across a page
boundary, and the second one is at the limit of pages; two changes are a deletion
and an insertion that leave the total as it was, which is the one case in which a
row may be missing (`AnswersWhole` names it), and a holding that moves from one
account to another.  A third attempt repeats the second.

**Handoff bounds.**  Two handoffs of one or of two staging states make two
workers race for one directory; a third would find it as the second does.

**Snapshot bounds.**  `Window`, `StaleAfter` and `DayLength` stand for 180 s, 48 h
and a day in such a relation that each of them can be met exactly, passed and
missed by one.  `MCInit` makes one thing odd at a time: with an
unusual answer the clocks agree and time passes, with clocks that disagree or are
set the answer is a plain one.  What the answer decides and what the clocks decide
meet only in the freshness, whose instants `Connections` varies on both sides of its
limit.  `MCAnswers` varies every field that a condition of the adapter, of the schema
or of a validator looks at.

Runs and processes are symmetric, except in the liveness runs, which use no
symmetry.  Deadlock is checked in every run.  In the workbook runs the operator
can always act, so it is never reported and `ExecutionsEnd` stands for it; in the
OAuth runs `AllEnded` is the only stuttering, in `bridge_collection` `Stopped` and in
`bridge_snapshot` `Ended`, so a state in which everybody waits for everybody would be
found.  In `handoff_report` the operator can always act.

**Fairness.**  `WorkbookSync!FairSpec` is weak fairness of each started
execution: n8n schedules the next node of an execution in progress.
`OAuthStore!FairSpec` is weak fairness of each started process: the operating
system schedules it, its calls return or time out, and the operator answers or
the 120 s of the callback pass.  Nothing is assumed about which outcome a call
has, about crashes and hard stops, or about the operator's changes, and nothing
is obliged to start.  `Collection!FairSpec` is weak fairness of the event loop (a
task that can move is run) and of the 30 s timer of a call; that the server ever
answers is not assumed, nor that the 180 s of the request fire.  The other
specifications state safety only.

What the properties say is stated with each in the
module `…Safety` of its component.  Some were learned from the model.  A run that is cut off after it
only inactivated current rows leaves no orphan, since inactive rows keep their
old observation; the reader then falls back to the dated view of the older
success, so the completeness of the current tables is promised at the step that
stores a success (`CompleteSuccessServed`) and not for ever after.  And orphaned
rows block both the reader and the next writer until the operator repairs the
workbook, as docs/operations.md describes: `OrphansExplained` says that only runs
in progress or cut off can cause them.  An answer can lack a holding that was in
its account all along, if that account lost one and gained one while it was paged:
offsets and totals cannot tell, and the bridge makes no other promise.  And a snapshot
that was collected in order can be refused when the bridge's clock is set back in
the middle, as `ContractMet` says.

### Where the code and its documentation disagree

* `oauth_contention`: `OAuthStore.locked` tries the storage lock once.  A `status`
  that reads the state in the moment a session stores its renewed token makes
  `set_tokens` fail; the provider has rotated, the new token goes with the
  session, and the file keeps the old one.  docs/operations.md:430 calls such
  contention something to retry after.
* `oauth_overlap`: `lease` opens the lease file before it waits for the lock and
  does not check afterwards that the name still leads to it.  A bootstrap that
  waits through a cleanup gets the lease of the unlinked inode; a session that
  comes later gets that of a new file; both renew.  docs/architecture.md:50 says
  that leases prevent overlapping renewal.  It takes further commands on the
  staging path around a cleanup, which the one-owner operating model
  (docs/operations.md:139) excludes and the code does not.
  With three processes the compare-and-swap still prevents stale replacement
  (`ReplacedKnowingly` holds in `oauth_cleanup`).  With two cleanups and five
  processes it does not: a bootstrap that opened `.lock` before the second cleanup
  and locks the unlinked file after it compares with the missing state beside a
  newer bootstrap that has locked the new file, and the later rename replaces what
  the other has stored.  An instance with
  `Procs` of five and `Commands = {"bootstrap", "cleanup handoff"}` in which nothing
  fails finds that behaviour after 75 steps; it is left out of the runs because it
  repeats the cause of `oauth_overlap`.

## 5. What is proved

For every finite set of runs and keys, every order of tables, every set of
snapshots and all bounds:

* `TypeCorrect` (`WorkbookHistory_proofs`): `TypeOK` is inductive as it stands.  The
  facts it needs about the data are lemmas: positions of `WriteOrder` name tables,
  what a snapshot stores is a finite set of keys, rows are finite in number (so
  that counts are naturals), an upsert of rows yields rows.
* `Inductive`, `SuccessIsExact`, `HistoryIsImmutable` (same module):
  that a success holds exactly its snapshot is not inductive, because a run writes
  its tables long before it records the success and others write beside it.
  `IInv` says why it holds.  Dated rows under a run's name are those of its own
  snapshot (`GenuineRows`), also in the batch a run has prepared
  (`GenuineBatches`) and among the rows a lookup has matched (`OwnMatches`), so
  that nobody rewrites another run's dated rows; a table that a run has gone past
  holds all its rows (`WrittenTables`), which is where retries and half-done
  writes are dealt with; and a recorded success is the last thing its run stored,
  which its own failure branch reads before it could replace it
  (`SuccessInPlace`).
* `ReplacedWriterIsFenced` (`WorkbookFence_proofs`): a run replaced before its
  recheck never succeeds.  `Fence` says that such a run carries a generation
  older than the workbook's for good, that what it reads afterwards shows it, and
  that it is never where a success is recorded.
* `WritesAreControlled` (same module), assuming `Drain`: every change of rows and
  terminals is by a run that control allows at that moment.  `Controlled` says that
  control does not change while an execution is in progress, hence that what a run
  in its writing phase has read of it is still so.
* `AbsenceIsEvident` (same module): a key stops being active only beside a run in
  progress whose complete collection does not have it.  `Absent` says that the
  inactive rows a run has prepared are for keys its snapshot lacks, of a table it
  may inactivate; `Matched` that an upsert has an item for every row it rewrites, so
  that no other row loses its activity.
* `CurrentIsExact`, `LatestIsServed`, `OrphansAreExplained`
  (`WorkbookReader_proofs`).  `RInv` adds that every row, active or not, has a key of
  its observation's snapshot (`OwnedRows`); that a run with rows keeps its batches to
  the end and then leaves a terminal, unless it is cut off (`Explained`, `Records`,
  `OwnReads`, `Fetched`); and that completion instants are handed out once
  (`Stamps`), so that among any terminals one was completed last (`Ranked`, proved
  step by step in place of a theorem on finite maxima).  With `OwnedRows` the
  reader's comparison of counts is enough: as many rows as the snapshot has keys,
  all of them with its keys and no two with the same, are exactly the snapshot.
* `LedgerIsImplemented` (same module): `Spec => ImplementsLedger`.  A step that
  records a success is the ledger's acceptance of that observation, with an instant
  later than all before; every other step leaves the accepted set alone, because
  `HistoryImmutable` and `RInv` hold, and may change what is shown only to a view
  the ledger allows: a refusal, the newest whole, or the newest without the current
  tables.
* `SerialIsRecoverable` (same module), assuming `MaxActive = 1`: `Serial` says that
  then at most one execution is in progress (`Alone`), every run has one terminal,
  no unique key stands twice in a table or in a batch, and a lookup has matched all
  the rows that its upsert must rewrite (`AllMatched`), which is what keeps the
  tables free of duplicates.  Without the assumption two overlapping appends may
  store one key twice.
* `CompleteIsServed` (same module), assuming `MaxActive = 1`.  `Exclusive` follows
  the one run that is going on: what it has read is what the workbook holds
  (`TrueReads`), so that the rows it works on have been answered for (`Vouched`) and
  its batch for a complete collection has an item for every active row (`Covered`);
  what it has written is then all that is active there (`WrittenCurrent`), and its
  instant is the last one taken (`LastStamp`).  At the step that stores the success
  the inventory is therefore valid, the success is the newest, and the current
  tables are its own (`Whole`), of which `WholeIsServed` shows that the reader
  selects it without falling back.

For every finite set of processes and any number of renewals, assuming that no
process runs the handoff with cleanup:

* `OwnerInvariant`, `OwnerIsSingle`, `OwnerIsCurrent` (`OAuthStore_proofs`): at
  most one process is past `lease`, and what it remembers is what the file holds.
  `OwnerInv` needs that every open lease file is the linked one (`OneLease`), so
  that the lock on the open file is a lock on the name; that every process which
  acts on what it knows has the lease (`Leased`), so that the writer is the owner;
  and that tokens are stored only with the client they belong to (`ClientKnown`),
  for the types.  The proof shows what one process keeps by its own step
  (`StepKeeps`), that it leaves the others alone (`OthersUnchanged`), and combines
  the two.  The assumption is necessary: `oauth_overlap` is the counterexample
  without it.
* `NothingIsForgotten`, `RevocationIsNamed` (same module).
  `TokenInv` accounts for every token: one that a process was given is good and the
  one it replaces is not, a registration starts without a token, and what a
  revocation goes by is what was named (`TokenMine`); what the provider accepts is
  stored, on its way, or explained by a mishap (`Kept`).  Only the owner moves
  tokens, so that a step of anyone else leaves the store and the provider alone
  (`Still`), and one of the owner (`Moved`) settles them alone.

* `ConnectionIsImplemented` (same module): `Spec => ImplementsConnection`, by both
  invariants.  `Mapped` evaluates the mapping where somebody has the lease and where
  nobody has; `Deed` sorts the steps of a process by what they are to the connection
  (it rests, takes it, is given a token, loses an answer, revokes, stores:
  `StepDeed`), and each of these is one of its steps or none (`DeedMaps`).

For every finite set of processes, any number of renewals and any commands, the
handoff with cleanup among them:

* `CleanupInvariant`, `RemovalIsOfACopy` (`OAuthCleanup_proofs`).  A cleanup unlinks
  the lock files under processes that have them open, so that neither lock excludes
  any more what its name says.  `CleanupInv` is what remains: an inode is locked by
  one process (`LeasesApart`, `LocksApart`); a generation names one state, so that
  whoever knows the generation of the stored state knows that state (`Numbered`);
  and `RemovedApart`: whoever unlinks the state, or then the lock, has the lock that
  its name leads to, the state it unlinks is the one it has copied, and nobody is
  meanwhile between comparing and renaming; a swap of a renewable state is under the
  linked lock as well, and from a state that is not renewable nobody gets tokens to
  store.  For each process, `Move` is what one step can make of it, so that the
  conjuncts are proved over a dozen moves in place of thirty actions.
* `StoredIsGood` (same module).  The token in the file is one the provider accepts,
  or what replaces it is on its way, or its loss is a mishap.  With two owners this
  cannot go by ownership:
  `TokensOwned` says that a token on its way to the file is known to nobody else, so
  that it is invalidated by no other's renewal, and `Trades` that a process gives up
  the token it knows only to store the one that replaces it, or with a mishap.
* `SwapIsInformed` (same module), assuming `[]OneCleanup`: no two processes ever run
  the handoff with cleanup.  Until that one has removed the lease file (`Intact`)
  every open lease file is the linked one, hence nobody else is past its lease when
  the lock file goes, and whoever writes has the linked lock (`SwapsApart`).  The
  assumption is necessary: with two cleanups there is the behaviour of 75 steps
  described in section 4.

For every number of accounts, every set of inventories and all limits:

* `TypeCorrect`, `NothingOutlives`, `RowsAreOnce`, `TokenIsSentOnce`
  (`Collection_proofs`).  `IInv` adds to the types that no
  collector exists before the request gathers and none runs outside of that
  (`Alone`); that only a running collector, or the request before it gathers, has a
  call on the wire (`Quiet`); that what goes on has an attempt and a page left
  (`Budget`), without which the types are not inductive; that the token request is
  neither waiting to be sent again nor was (`Token`); and that what a collector has
  is in `seen` (`Rows`), so that a page of unseen holdings keeps all rows apart.
  Pages are whatever the server
  answers: only the checks of the code are used.
* `AnswersAreWhole` (same module).  The offset argument over data that change while
  they are read.  `Steady` says of an account that has not both lost and gained: it
  is at least as long as its first page told if it has lost nothing, at most as long
  if it has gained nothing, and as long only while the rows read so far are still in
  it, since a length it has left it does not have again.  `Consistent` accepts a
  page only if it tells that same length, so that the rows after the last page are
  as many distinct holdings as the account has, hence all of them (`AllOfThem`, by
  the cardinality of finite sets): `Finished`, which later changes leave alone.
  `Returned` says that holdings are answered only after every collector has
  returned.  Beside the checks of the code it uses that a page tells the
  account's length and rows of its moment (`Offers`), as all the pages of the model
  do, the faulty ones included.

For every set of handoffs and staging states, and any number of workers that come
late:

* `TypeCorrect`, `VerifiedIsMoved`, `ConnectionIsKept`, `RetriesAreSafe`,
  `StateIsWrittenOnce` (`Handoff_proofs`).  `IInv` says that a worker exists exactly
  for a handoff that has noted its attempt, and only such a one makes a state
  directory (`Attempts`); that a handoff past its verification finds its own whole
  state at the destination for good, because nobody else can make the directory
  or open the file again (`Finds`); that reports are last words (`Reports`); and,
  from these, that no staging state goes without a copy (`ConnectionKept`).

For any executions, clocks and times, and any answers that the tools' output
schemas admit and `Collection` hands over (`SchemasAssumption`,
`AnswersAssumption`):

* `TypeCorrect` (`Snapshot_proofs`): `TypeOK` is inductive as it stands; among other
  things one execution has the bridge at a time, and the terminals are those of the
  executions that succeeded.
* `SuccessIsServed` (same module).  The invariant says that every instant is
  an integer (`Instants`); that, where the clocks agree, nothing has been generated
  or completed later than now, nor completed before it was generated (`InOrder`), so
  that the reader accepts every success; and that one of the recorded successes was
  completed last (`Newest`), which each completion keeps, being the new maximum or
  leaving the old one: no theorem on finite maxima is needed.
* `FreshnessIsHonest` (same module).  `Timely` follows the instants: while the
  bridge's clock is not set, the reading at which a request began is the time of its
  beginning, the overview is no older than that, and an answer ends within `Window`
  of it.  `Honest` says at each stage what the collected detail claims of the
  connections at the instant of the overview (`Sincere`): fresh only if every one of
  them is, not applicable only if there is none, complete only if each that is not
  fresh is named.  Later stages add warnings and change nothing of this (`Extends`).
  That the overall freshness is the worst of the accounts' is `WorstIs`.
* `ValidatorsAgree` (same module): whatever snapshot they are given, of finite
  tables and with connection states of the contract, both validators judge it
  alike; it need not be one that the bridge makes.  They are written
  differently: where the bridge asks which amounts of a table are known, n8n compares
  counts, and `ValuationAgrees` shows that this is the same.
* `ContractIsMet` (same module): from `Sound`, what each stage has built meets each
  condition of the validators: its accounts and connections (`AccountsSound`), its
  positions, rates and unsupported types (`HoldingsSound`), its owners
  (`OwnersSound`, unless the answer repeats one), and the totals of the overview
  (`OverviewFits`).  `DraftMeets` puts them together for the draft, unless the answer
  is `Odd`; that its instants are in order needs `Timely`, which is where a clock
  set back makes the exception.  That keys are unique is a matter of cardinalities:
  a set is mapped to its keys one to one (`UniqueWhenApart`), a sequence does not
  repeat exactly if it has as many entries as values (`NoRepeats`).

The assumptions on constants are those named in the modules; TLC evaluates each of
them in a run.

Some theorems have a hypothesis that restricts the behaviours, and say nothing of
the others: no handoff with cleanup (`OwnerIsSingle`, `OwnerIsCurrent`,
`NothingIsForgotten`, `RevocationIsNamed`, `ConnectionIsImplemented`), at most one
(`SwapIsInformed`), a drained operator (`WritesAreControlled`), executions one at a
time (`SerialIsRecoverable`, `CompleteIsServed`).  The runs that check these
properties are restricted in the same way, but for `oauth_cleanup`, which checks
`ReplacedKnowingly` with any commands of its three processes.

Only model-checked: liveness (`ExecutionsEnd`, `LeaseReleased`, `RequestEnds`), which
is out of this prover's reach, as is every fact about `ENABLED`.

## 6. What is not modelled

* cell encoding and decoding, JSON schemas, warnings, the manual sheets, staleness
  and the series break: pure functions of one row or one observation;
* an attempt that takes effect after the node has reported its failure: an
  attempt that returned is assumed to have had whatever effect it will have;
* in `WorkbookSync`, clocks: completion instants are distinct and increasing
  there; clocks that disagree, jump or read the same twice are in `Snapshot`;
* the provider beyond refresh, registration, consent and revocation: a refresh
  token is assumed to be good for one refresh, so that what is lost is really
  lost; a provider that does not rotate is easier on the store;
* a machine that loses power: the rename is atomic and a process that is lost
  takes no file with it (the temporary file stays); which unsynced directory
  entries survive is left to the file system;
* an error of the operating system when a lease or a lock is released;
* formats: decimals, identifiers, timestamps, labels, quantities and asset
  classes are passed on without a decision of their own; the keywords of the
  schema interpreter in n8n, duplicate JSON keys, sizes and media types are a
  refused answer;
* the HTTP boundary beyond the error response: authentication and logging have
  no state;
* `app/mcp_optional.py`: validation of single answers, with sums and
  cross-references over external payloads that its unit tests enumerate; it has no
  state, no order and no other actor;
* `initialize-workbook.py` and `check-workbook.py` beyond the empty inventory, the
  workflow deployment, release, packaging and CI scripts, and the specification
  kit: generation of files and checks of them.

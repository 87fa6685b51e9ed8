# A TLA+ model of inventory-service

inventory-service keeps the stock of a shop: how many units of a SKU lie in a
warehouse, how many of them are promised to orders, and an append-only ledger of
every change. Clients are an order workflow (gRPC: `Reserve`, `Release`,
`Commit`, availability reads) and operators (an admin HTTP API that receives and
adjusts stock). All state is in four PostgreSQL tables; any number of replicas
and request handlers work on them at once. What makes the service hard to get
right is therefore not the code of one handler but what its SQL statements do
when those of others run between them, when a connection dies halfway, and when
a caller who got no answer tries again.

## 1. The system

| Part | Source | State | Operations |
|---|---|---|---|
| Reservation repository | `internal/core/repository/reservations.go` | the four tables | `Reserve`, `Release`, `Commit`, `GetReservation` |
| Stock command repository | `internal/core/repository/stock_commands.go` | balances and ledger | `ReceiveStock`, `AdjustOnHand`, `SetSafetyStock` |
| Availability reads | `repository/availability.go`, `logic/v1/availability.go` | none | `BatchGetAvailability`, `CheckAvailability` |
| Admin reads and HTTP API | `repository/admin_reads.go`, `logic/v1/admin.go`, `web/v1/router.go` | none | list balances, movements and reservations; receive and adjust |
| Domain rules | `internal/core/domain` | none | validation, aggregation of lines, canonical hash, statuses |
| Service and gRPC layer | `logic/v1/reservations.go`, `grpc/v1` | metrics only | input checks, error classes to gRPC codes |
| Schema | `db/migrations/sql` | CHECKs, unique keys | migrate |
| Pool | `internal/core/database.go` | connections | `lock_timeout` 3 s, `statement_timeout` 10 s |
| Lifecycle and configuration | `cmd/main.go`, `config/config.go` | readiness flag, servers | start, drain, shut down, `migrate`, `seed` |

The tables are `inventory_balances` (one row per SKU and warehouse: `on_hand`,
`reserved`, `safety_stock`, with the CHECKs `>= 0` and `reserved <= on_hand`),
`inventory_reservations` (id, unique `external_reference`, status, request hash),
`inventory_reservation_lines`, and `inventory_movements` (unique `command_id`).

How the parts interact: handlers share nothing but the tables. A `Reserve`
inserts the header first (`ON CONFLICT (id) DO NOTHING`, the idempotency claim),
picks a warehouse by an unlocked scan, locks that warehouse's rows in SKU order,
checks again, then writes balances, lines and ledger rows and commits. `Release`
and `Commit` lock the header, decide on its status, and move the lines back or
out. A stock command inserts its ledger row first (the idempotency claim on
`command_id`), then updates one balance row.

What is hard, and what would be wrong:

* *Concurrency.* The unlocked scan is stale when used; two requests insert the
  same id, the same order, or the same command id; a settlement races its twin
  or opposite; locks of several rows are taken in a loop and may deadlock.
* *Failure.* Any statement can fail, a COMMIT can take effect without an answer,
  a handler can stop inside a transaction with its locks held.
* *Retries.* A retry may carry the same request, another basket under the same
  id, or another id for the same order; only the first is a replay. A late copy may
  arrive after the caller has moved on.
* *Start and stop.* The process is killed, told to stop with streams open, started with
  half an environment, or started as a Job beside serving replicas.
* *Long sequences.* A write-off or a higher safety stock after a hold must not
  make the hold impossible to honour; a quantity must not overflow a BIGINT.

`PROJECT.json` lists these hazards at their lines, with the properties that
cover each and, where none does, the reason.

The properties that make each part correct: *balances*: the reserved counter is
the sum of the open holds, no hold eats into safety stock, every hold can be
settled; *ledger*: it replays to the balances and records each effect once;
*reservations*: what was acknowledged is never rewritten; *transactions*: they
implement atomic calls, do not deadlock, never rely on the schema's CHECKs to
prevent overselling, answer truthfully, and answer at all; *reads*: what is shown
was true at some moment of the call; *callers*: an order workflow or an operator who
repeats calls ends with a conclusion the tables agree with; *texts*: the hash and the
ledger keys tell apart what differs and nothing else; *lifecycle*: a shutdown ends, cuts
nothing off that it reports as served, and Jobs never become servers.

## 2. Modules

    Stock            data: rows, calls, arithmetic of one balance row, ledger rows
      Inventory      what the service promises: every call is one atomic step
        InventoryProofs   theorems about Inventory
        Reads        the read RPCs, statement by statement, beside Inventory
          ReadsProofs     theorems about Reads
        OrderSaga    order workflows over a lossy network, with Inventory as the server
        AdminCommands     operators over a lossy network, with Inventory as the server
          CallersProofs   theorems about both
      InventoryTx    the SQL transactions, statement by statement
        CallHistory  InventoryTx with history variables
          InventoryTxProofs   theorems about both: InventoryTx implements Inventory
    RequestKeys      validation, canonical hash and ledger keys as texts
      RequestKeysProofs   theorems about RequestKeys
    AdminLists       the paged lists beside committing writers
      AdminListsProofs    theorems about them
    Lifecycle        the serving process from start to exit
      LifecycleProofs     theorems about start and shutdown
    Startup          configuration, dispatch, migrate and seed Jobs on one database
      StartupProofs       theorems about launches and the seed
    MC<module>       values of the constants of the modules that runs use

**Stock** has no state. A balance row is a record with a flag `live` for a row
that does not exist yet (only `ReceiveStock` creates one). SKUs and warehouses
are naturals because the code orders by them. A payload is a model value: it
stands for what the canonical hash of a request identifies, and `Items` gives its
aggregated lines. `ATP`, `LineEffect` and `CommandEffect` are the arithmetic of
the UPDATE statements; `SchemaChecks` is the table's CHECKs plus the range of a
BIGINT, whose upper end is the constant `MaxBigint`. A ledger row carries its
idempotency key: `res:<id>:<sku>`, `rel:..`, `cmt:..` become the triple of
operation, reservation and SKU, and an admin command has its command id. The
stored `by` is actor and reason, the columns a replay compares.

**Inventory** is the abstract service. Its variables are the four tables. Each
action is one call that changes something; replays, refusals and reads leave the
tables alone and are stuttering steps. `Reserve` may choose any active
warehouse that covers the basket, since which one the hint finds depends on what
it read earlier.

**InventoryTx** is the code. Each process serves one request at a time; `pc` is
the next SQL statement, `held` the locks of the open transaction, `todo` the
rows a FOR UPDATE scan or a loop has left, `chosen` the warehouse.

| Label | Statement | Actions |
|---|---|---|
| `claim` | INSERT of the header or of a command's ledger row, ON CONFLICT DO NOTHING | `ClaimId`, `AlreadyClaimed`, `PassArbiter`; `ClaimKey`, `ResolveKey` |
| `claimRef`, `race` | the `external_reference` index entry of that INSERT | `ClaimRef`, `RefTaken`, `BackOut` |
| `replay` | read the stored header and compare | `Replay` |
| `scan` | `activeATPSnapshot`, no locks | `Scan`, `NoneFulfills` |
| `lock` | `lockWarehouseATP`: ORDER BY .. FOR UPDATE, row by row, then the check | `LockRow`, `Revalidate` |
| `classify` | `classifyReservationFailure` | `Classify` |
| `header` | SELECT status .. FOR UPDATE, then `decide` or the lines | `LockHeader`, `Decide` |
| `write` | one UPDATE (or upsert) per row, then COMMIT | `WriteRow`, `RowMissing`, `CheckFails`, `CommitReserve`, `CommitTransition`, `CommitCommand` |
| `done` | the caller has the answer | `Return` |

At READ COMMITTED an uncommitted write is visible to nobody and locks what it
wrote, and each transaction writes a row at most once (lines are aggregated per
SKU). So the model keeps only committed tables, remembers the locks, evaluates a
CHECK when the statement runs, and changes the tables at COMMIT. A statement
that waits and then continues re-reads the row as PostgreSQL does, because its
action is enabled only when the lock is free and reads the tables then.
The statements of COMMIT-only inserts (lines, ledger rows) cannot conflict and are
part of the commit step. `PassArbiter` and `BackOut` are PostgreSQL's speculative insertion:
two inserts of one id can pass the arbiter check together, and the loser then
fails on the order's index instead of on its id. That is the race the comment in
`Reserve` describes (`errOrderRefTaken`), and the reason the code replays outside
the transaction. `LockTimeout` is 55P03; `Fail` is every other way a statement
ends early, a restart of the service included, because nothing survives a
transaction but what it committed. Losing the answer of a COMMIT is the second
disjunct of `Committed`. A caller's retry is a further `BeginCall` with any call.

**CallHistory** adds two history variables to InventoryTx, which no action
reads: the commands that really took effect, and for each running `Reserve` the
warehouses that could have served it ever since it began. They let a property
speak about the whole duration of a call.

**Reads** composes Inventory with a client of the read RPCs. `BatchGetAvailability`
is `BatchATP` and, for SKUs it did not return, `TrackedSKUs`; `CheckAvailability` is
`ActiveWarehouseBalances` and perhaps `TrackedSKUs`; `GetReservation` is `LoadHeader` and
`LoadReservationLines`. None runs in a transaction, so each statement sees another
snapshot, and any step of Inventory may come between two. The writers may be
atomic here because InventoryTx implements Inventory and a reader sees only
committed rows. One reader is enough: readers change nothing and share nothing.
`ActiveWarehouseBalances` is one step for two statements, since the first reads
only warehouse statuses, which are constant. `past` is a history variable: the states of the
tables during the call. `ReadFails` is any failed or cancelled statement
(`failClosed`), and the only way on when a sum does not fit a BIGINT.

**OrderSaga** puts Inventory behind a network that loses, delays, repeats and reorders
requests and loses answers. `Serve` is a gRPC handler: it takes the step of Inventory,
or changes nothing, and answers with a status or with the code that
`reservationError` gives. `net` is the set of requests that may still reach the server: `kept`
leaves a copy there after it was served, `told` says whether the answer arrives. The
workflow is not in this repository. It is modelled from what the comments here require of it:
`Reserve`, then `Commit` or `Release`, each repeated until answered, `Release` also when the
`Reserve` was never answered, and a reconciler that releases a hold whose order is over
(`Reconcile`; the comment in `Release` gives that seam to the order domain). The step `alarm` is an
answer the workflow cannot use.

**AdminCommands** does the same for `POST /receipts` and `POST /adjustments`. `Answers` is the
handler with its HTTP status, `ServePost` its run over the network; `Refusals` is the order in which `run` looks at things, the
ledger row first and the balance after it. A body may name any warehouse and carry any reason: `KeyRefuses` is the foreign key of the
ledger row, and the constant `Column` what the columns of actor and reason keep of a body's texts, `None` when the INSERT fails on
their width. `Written` is the command as it is stored. The model writes 422 for the 409 whose code is
`STOCK_UNAVAILABLE`, to tell it from the 409 of a conflict. A screen is what an operator knows of a
command: it repeats what is unanswered or answered 500, under the same `command_id`.

**RequestKeys** works on texts, as sequences of characters. Requests are accepted or not by the regular expressions of `validate.go`; `CanonicalText` is
what is hashed, with sha256 taken to be injective: `AggregateLines` is the fold of the loop, `Sorted`
any rearrangement that `sort.Slice` may return for its order, `Decimal` what `FormatInt` writes. `Want` is what the request means,
independently of that text: the number of units of each SKU, and where to. `LedgerKey` is the text stored in
`command_id`; the column is `ledger`, the union of the keys of reservations (`moved`) and the ids of
operators' commands (`claimed`). `Reserve`, `Settle` and `Command` only insert keys and headers: what happens to the
stock is Inventory's matter, and there the keys are triples. This module is what
justifies the triples of reservations (`LinesNeverCollide`). That command ids are apart from them is an
abstraction of the other modules, which the code does not enforce: section 6.

**AdminLists** is a list with its filter, as rows that match or not. Writers insert rows whose keys grow but
which may commit in another order (`BIGSERIAL`, `now()`), or at any place for balances;
updates let a row leave the filter or enter it. The screen asks for page after page, and
each request is `Count` and then `Page`, two snapshots; `entered` and `lost` remember whether a row entered or left the result
between them. `Orders` is the set of
sequences that the ORDER BY of the list admits: if its columns did not end in a unique
one, there would be several.

**Lifecycle** is `main` on the serving path. `main.phase` is where the main goroutine is, the
other fields are what it set: readiness flag, gRPC health, servers, pool, drain
clock, outcome, exporter. Requests alternate between running and holding a connection and know
nothing of the shutdown; a client in `Slow` may never let its request end. The HTTP server's
goroutine, the gRPC server's (`GrpcServeFails`, `GrpcFatal`), probes, signals and a kill interleave with
main. net/http, grpc-go and pgxpool are external and modelled by what main relies
on: `Shutdown` and `GracefulStop` wait for handlers, `Stop` cancels them, `Close` waits for connections.
Time is counted only in the drain delay, and `PingEnded` is an assumption about it: the ping of a probe ends with its timeout of one
second, so not later than a second of sleep that began after it. The two shutdown timeouts are choices that may fall at any
moment.

**Startup** is a set of processes on one database, launched with any argument and environment that
its cluster uses; what these are is chosen at first. `Load`, `Valid` and `ValidForSubcommand` are the configuration, `Subcommand` the dispatch, with the
fall-through to serving of an argument it does not know. `booked` is the ledger's sum of `on_hand` changes,
which the seed does not write.

## 3. What is checked

| Run | Instance | States | Shows |
|---|---|---|---|
| `tx_race` | CallHistory; 3 handlers, 1 active warehouse with one unit of each SKU, reservations of one pair beside a receipt and a write-off | 1,020,839 | no deadlock, checks hold until COMMIT, CHECKs never met by a reservation, truthful answers; a replay answer is only given to a command that took effect; "insufficient stock" was true at some moment of the call |
| `tx_stock` | InventoryTx with fairness; 2 handlers, one of which may stop for ever, 2 active warehouses, rows to be created, emptied, overflowed and fenced off | 81,678 | refinement of Inventory by stock commands and reservations; every request of the other handler is answered |
| `reads` | Reads; 3 SKUs, 2 active warehouses and an inactive one, 2 reservation ids, 11 calls | 459,516 | counters, holds and ledger of Inventory agree; holds can be settled; effects happen once; history stays; safety stock is kept; quotes, unknown SKUs, checks and reservations as reported were so at some moment of the call |
| `order_saga` | OrderSaga with fairness; 2 workflows for one order, stock that is short for a while | 3,752 | no usable call is refused, conclusions are true, an answered `Release` is final; workflows and holds end |
| `request_keys` | RequestKeys; 3 ids, 3 SKUs, 2 regions, up to 2 lines of quantity 0, 1 or 10, 2 command ids, one of them the key of a commit | 6,622 | hash and ledger keys identify what they should |
| `admin_commands` | AdminCommands with fairness; 6 posts under three ids, among them an unknown warehouse, a reason too long, one that its column cuts and a body without quantity, one reservation, a row that does not exist at first | 35,325 | conflicts and refusals shown are real; every command that can be booked is answered |
| `admin_lists` | AdminLists; 4 rows, two of one timestamp, pages of 2 | 1,317,100 | a list read to its end misses nothing; page and total of an answer agree |
| `lifecycle` | Lifecycle with fairness; an RPC and a stream, two admin requests, one of them slow, 2 connections | 372,898 | order and report of the shutdown; SIGTERM ends the process; no ready zombie |
| `startup` | Startup; 2 processes, in a real cluster (some environments broken) or one of all kinds | 225,487 | no accidental server; no demo stock in a real cluster; seeds leave existing rows alone |
| `safety_replay`, `two_warehouses`, `out_of_stock` | CallHistory with 1 or 2 handlers, Reads | | three statements of the comments the code does not keep, section 6 |

The properties, in the order a reader may want them:

* `ReservedIsHeld`, `LedgerReplays`, `OnceEffect`: three views of one fact from
  independent tables. A missed or doubled statement in any path breaks one.
* `HoldsCanSettle`, `BackstopUnused`: the UPDATEs of a reservation never meet a
  CHECK or a missing row, so `unavailable` answers of a transition never come
  from data. The first says it of the tables at rest, the second of every moment
  inside a transaction.
* `HoldsLeaveSafetyStock`, `HistoryIsKept`: action properties, what no step may do.
* `Refinement`: every COMMIT is one step of Inventory and nothing else is visible.
  All properties of Inventory carry over to the transactions by it. TLC checks it in `tx_stock`; that it holds
  of any handlers and calls, those of `tx_race` too, is `TransactionsAreAtomic`.
* `NoDeadlock`: no set of handlers waits in a circle. `Blocked` handlers can
  always leave by `LockTimeout`, so TLC's deadlock check alone would see nothing.
* `ChecksHoldUntilCommit`: what a statement read under a lock is still so at COMMIT.
  Strengthened by the exact lock sets it is the core of the refinement's proof.
* `AnswersAreTrue`, `ReplayIsTheSameCommand`, `InsufficientIsReal`: what callers are told.
* `QuotesWereTrue`: the available quantities of a whole batch were true together, since they come from
  one statement; `CheckMatchedReserve`: the whole-basket answer is one `Reserve` would have
  given; `UnknownHadNoRow`: "unknown" is only said of a SKU without a row from
  beginning to end; `ReservationWasReal`: status and lines belong to one moment.
* `CallsAreAnswered`: liveness.
* `NeverRefused`, `SoldIffConfirmed`, `ReleaseIsFinal`: what makes the calls safe to repeat and to
  reorder. The second relates the workflow's conclusion to the tables in both
  directions. The third names the one way to an orphaned hold, and `HoldsEnd` shows the
  reconciler closes it.
* `RefusalsAreTrue`: an operator whose first answer was lost is not told of a
  conflict, a missing row or missing stock caused by the command's own effect. This is
  what claiming the key before the balance statement buys. It does not say that a
  refused command never takes effect: a copy still on the way may find the stock later. It speaks of bodies
  whose texts the columns keep; of the others it is false (section 6).
* `ScreensSettle`: every command is answered with more than a 500 in the end, but for those no attempt can book (`Unbookable`):
  a reason longer than its column, a warehouse that does not exist, a sum beyond a BIGINT. Nothing tests them before the INSERT, so
  the operator's screen gets `respondAdminError`'s 500 each time.
* `ReplayIsSameRequest`, `RetryIsReplay`: the two directions of "the hash identifies the request".
* `LinesNeverCollide`: no reservation takes the ledger key that another line or a later operation needs, and all these keys fit the
  column. It does not say that an operator's command cannot take such a key: it can (section 6), and in the run the command
  `cmt:x:b` does.
* `WalkMissesNothing`: offset paging is safe here because rows are only inserted, newest
  first. It is stated with its two exceptions (a row left the filter, or one entered
  between the count and the page of the last request), both of which TLC shows to be needed.
* `PageFitsTotal`: the total and the page of one answer may disagree, but by no more than what was
  committed between their statements. A count and a page with different filters would break it.
* `GracefulIsTrue`, `PoolOutlivesRpcs`, `CleanExitReported`: the order of the shutdown as others see it.
  An HTTP handler may outlive its timeout and meet the closed pool, but then the report
  does not say graceful; an RPC never may.
* `UnreadyBeforeListenersClose`: the drain delay is at least as long as a probe's ping, for every
  value the setting can have. It fails for a delay of zero.
* `ServesOnlyWhenAsked`, `OnHandIsBooked`, `RowsChangeByLedger`: what a wrong launch may do at worst.

The properties of Inventory are checked in `reads`, where Inventory is the writer; its `TypeOK`
stands for the modules built on it. The `TypeOK` of the other modules gives the ranges of
their variables and is no property of a run. Each property of each passing run has a
mutant in `PROJECT.json`: a change to a modelled definition that a plausible
coding mistake would make, under which TLC finds the property violated.

**Bounds, and why they are enough.** Two SKUs are the least with a lock order and
a loop to interrupt, two warehouses the least with a choice, one unit per row in
the transaction runs the least to compete for, and scarcity is the interesting
case. Three handlers allow a winner, a loser and a third that changes the state
between the loser's read and its retry; the waits-for circle of two rows needs
two. Two reservation ids and two orders give all pairings (same id and other
order, other id and same order). `MaxBigint` is 2 to 6, so that a receipt, or the sum of a batch quote, overflows
within one or two commands. The SKUs of `reads` are one that is stocked, one that only
an inactive warehouse holds and one that is unknown until it is received. Handlers repeat calls without limit; the state space is finite because
ids and command ids are. In `reads` and in the transaction runs a caller may always ask again, so deadlock
is checked. The saga, command, list and key runs stop when all is
settled and read, hence `CHECK_DEADLOCK FALSE` there, and a process of Lifecycle stops when it has exited. Startup never stops, but with
stock at its bound and all processes failed only launches are left.

In `order_saga` two workflows claim one order, and operators write stock off and bring it back, so that
every answer of the handlers occurs; competition of orders for stock is the matter of `tx_race`. `net` is a set, so there are at most two copies of a request at a time, the one served and
the one kept, and any number over time. In `request_keys` ids have up to 3
characters, SKUs up to 4 and regions up to 8, enough for one text to contain another's separators; 10 has two
digits, and sums of 10 and 1 are merged. The theorems of section 4 hold for all limits. `admin_lists` has a page, its successor and a tie on
the first sort column; three pages cover four rows. `lifecycle` has a slow and a quick
client on each server, a pool smaller than the number of requests, and drain settings
below, within and above the range. `admin_commands` has a receipt
that does not fit on top of the other, a write-off that comes before its row or after its stock is held, one
command id used three times, a body that is malformed and two that cannot be stored: each HTTP status occurs, and each of its causes. `startup` has two processes, enough for a Job
beside a pod or beside its own second run.
Symmetry of handlers is used in `tx_race` only; with liveness it would be unsound.

**Fairness.** `FairSpec` assumes weak fairness of the next statement of each
handler that is not `Stalled`, which the Go scheduler and a live connection give,
with the timeout of a lock wait among the statements (`lock_timeout=3s` in the DSN).
The second conjunct says the INSERT cannot go round `PassArbiter` and `BackOut`
for ever: it is one statement, and `statement_timeout=10s` ends it. Nothing is assumed
of the stalled handlers, of new calls, of failures otherwise, or of callers' retries. Without
`LockTimeout` the property fails (its mutant): there is no idle-in-transaction timeout,
so a stuck lock would hold others for ever.

`FairSagaSpec` and `FairAdminSpec` assume that an unanswered caller repeats (weak fairness of `Retry`, `Repeat`,
and of the workflow's own next step), and that a call repeated for ever is once served with its
answer delivered (strong fairness: between two attempts the call is not on the wire). Nothing is
assumed of starting a workflow, of a `Reserve`'s arrival, or of other operators. `Reconcile` is
weakly fair: the reconciler runs periodically. Lifecycle's `FairSpec` assumes that goroutines run, that
statements end (`statement_timeout`) and cancelled handlers return; not that a stream or a slow
client ever ends, nor that a signal comes.

## 4. What is proved

Every theorem below is checked by TLAPS for every value of the constants: any number of
handlers, rows, requests, losses and repetitions. Each is `Spec => []P` (or an action property, or a refinement)
from an inductive invariant that was first checked by TLC on the run of its module. A proof module has one
lemma per action, or per shape of step that several actions share, and one step per conjunct it can disturb.

### The atomic service

`InventoryProofs`:

| Theorem | Property |
|---|---|
| `TypeCorrect` | `[]TypeOK` |
| `ReservedMatchesHolds` | `[]ReservedIsHeld` |
| `HoldsAlwaysSettle` | `[]HoldsCanSettle` |
| `NeverOversold` | `HoldsLeaveSafetyStock` |
| `HistoryNeverRewritten` | `HistoryIsKept` |
| `EffectsHappenOnce` | `[]OnceEffect` |
| `LedgerAlwaysReplays` | `[]LedgerReplays` |

*Assumptions.* `StockAssumption` only: SKUs, warehouses and reservation ids are finite sets (the
first two of naturals), payload quantities and command quantities fit a BIGINT, and
the seeded rows meet the CHECKs with nothing reserved, as the seed and an
empty database do. TLC evaluates it in every run.

*Argument.* `TypeOK` is not inductive: `reserved` and `on_hand` are naturals only if the
CHECKs hold of each row. `Core` adds that (`BalancesOK`) and is inductive: a
reserve adds a quantity within the available stock (`CoveredRow`), the other steps
are guarded by the CHECKs. `ReservedIsHeld` compares a counter with the
cardinality of the set of held units, so that the sum over reservations is a
set and needs no induction: `Held` is `Core` with `ReservedIsHeld`, and its step
is that the units of one reservation come to, or leave, a finite set that has
none of them or all of them (`AddUnits`). `HoldsCanSettle` is not inductive by itself (a write-off could break it); it
follows from `Held`: the units of one line are a subset of the held units, so
their number is at most `reserved`, which the CHECK keeps at most `on_hand`. The
action properties follow from the same invariants, and `OnceEffect` is inductive
beside `Core`, since a reservation leaves the status `reserved` only once.
`LedgerReplays` needs `OnceEffect`: a ledger is a set, so a row inserted twice would
leave no trace in it, and it is `OnceEffect` (for lines) and the guard on the
command id (for commands) that make each inserted row new. `Ledger` is the conjunction
with the finiteness of the ledger, and the step lemma `ReplayStep` relates one balance row to
the one ledger row a call adds for it.

### The transactions

`InventoryTxProofs`, for any number of handlers, of which any may stop:

| Theorem | Property |
|---|---|
| `TransactionsAreAtomic` | `Refinement`: the statements implement Inventory |
| `TransactionsKeepPromises` | `HoldsCanSettle`, `OnceEffect` and `LedgerReplays` of Inventory, of the tables the transactions write |
| `NothingStaleAtCommit` | `[]ChecksHoldUntilCommit` |
| `BackstopNeverUsed` | `[]BackstopUnused` |
| `AnswersStayTrue` | `[]AnswersAreTrue` |
| `NeverDeadlocked` | `[]NoDeadlock` |
| `TxTypeCorrect` | `[]TypeOK` |
| `ReplaysTookEffect` | `[]ReplayIsTheSameCommand` of CallHistory, when no call is a `SetSafetyStock` |
| `ShortagesWereReal` | `[]InsufficientIsReal` of CallHistory, when at most one warehouse is active |

*Assumptions.* `StockAssumption` and `ProcAssumption` (the handlers are finitely many). The hypotheses of the
last two theorems are those under which the claims hold, section 6, and the service as deployed meets both: no
handler calls `SetSafetyStock`, and migration 2 installs one active warehouse.

*Argument.* The code's own: a transaction changes at COMMIT only what it has locked, so what it
checked under its locks is still so at COMMIT, where it is the guard of one step of Inventory.
`ChecksHoldUntilCommit` is not inductive, since it does not say which locks a handler at a given statement has.
`TxInv` does. `LocksOK` is the exact set: index entries first (`EntryLocks`), then the
rows that `todo` no longer has. `Exclusive` says that no two handlers hold one lock. `RowsOK` says that rows are taken in ORDER BY
order, `FoundOK` what each statement has found, `ShapeOK` which statements an operation runs. `AnswerOK` is
the truth of answers already given, and `Tables` is the invariant `Held` of InventoryProofs,
taken over the committed tables by instantiation.

The steps come in two shapes. One that leaves the tables alone can only disturb the handler that takes it
(`LocalStep`). A COMMIT is `Disciplined`: whatever it changes, its handler has locked; and `OthersKeep` shows
that such a step disturbs neither what others found (`FoundIsKept`) nor what was answered
(`AnswerIsKept`). Both are proved once, and the 26 actions cite them. `TxImplements` then maps a COMMIT to its call
and every other step to a stutter, and `Tables` is preserved because Inventory's steps preserve it. This is
how a theorem about the atomic service becomes one about the SQL.

`NoDeadlock`: what a handler waits for is above everything it holds (`WaitsUpwards`), in the order ids and
command ids, then the order index, then rows by warehouse and SKU. A circle would climb for ever, but the last row that anybody in it waits for
has none above it (`LastRow`).

The history theorems need to know who says what (`WhatIsSaid`): only `ResolveKey` answers `replayed`, only `Classify`
answers `insufficient`. `Booked` says that each command row of the ledger was written by a command that
took effect; `MoveTells` that the row of a receipt or an adjustment determines the command. `ShortOnce`
says that a reserve that goes to `classify` has been unable to use any warehouse at one moment: with one
active warehouse the scan, or the check under locks, has just found that one short.

### The reads

`ReadsProofs`, for any writers, any set of warehouses and any request:

| Theorem | Property |
|---|---|
| `QuotesWereAlwaysTrue` | `[]QuotesWereTrue` |
| `UnknownNeverHadRow` | `[]UnknownHadNoRow` |
| `ChecksMatchReserve` | `[]CheckMatchedReserve` |
| `ReservationsWereReal` | `[]ReservationWasReal` |

*Assumptions.* `StockAssumption` and `ReadsAssumption` (what clients ask is a request the handlers accept).

*Argument.* `ReadsInv` remembers of what moment the first statement spoke (`SeenStock`, `SeenHeader`) and relates every moment of the
call to now (`MomentsOK`): no balance row disappears, so a SKU that has none at the second statement had
none before; and the lines of a reservation that is there never change, so lines read later belong to a
header read earlier. `EmptyHeaders` is needed because `header # NoHeader` and a status other than `none` are two ways to say that a row is there.
A quote is a sum over the rows of a SKU, a fold. `SumIsCount` shows that it is the
cardinality of the set of units it counts: among the subsets on which it were not, a smallest one
(`WFMin` over strict inclusion) would be neither empty nor one element larger than one on which it is. That replaces an
induction over the set, which the provers cannot instantiate.

### The callers

`CallersProofs`, for any number of workflows, operators, losses and duplicates:

| Theorem | Property |
|---|---|
| `RetriesNeverRefused` | `[]NeverRefused` |
| `ConfirmedIsSold` | `[]SoldIffConfirmed` |
| `ReleaseStaysFinal` | `[]ReleaseIsFinal` |
| `RetriesCanSucceed` | `[]HoldsCanSettle`, with workflows and reconciler as callers |
| `RefusalsAreAlwaysTrue` | `RefusalsAreTrue` |
| `PostsKeepHolds` | `[]HoldsCanSettle`, with operators' posts as callers |

*Assumptions.* `StockAssumption`; `SagaAssumption` (a workflow uses one reservation id for one request);
`PostsAssumption` (the bodies have the fields their handlers decode; a stored text may differ from the one sent). `RefusalsAreTrue` itself speaks
only of bodies whose texts the columns keep.

*Argument.* `SagaInv` adds two things to `Held`. `WorkflowOK` says which statuses a reservation can have while its workflow is at a given step,
with the room that late requests need: at `releasing` the row may be missing, held or released, but not
committed. `NetOK` says why: a workflow that decided to commit never sent a `Release`, nor the other
way round, so no copy of the wrong one is on its way. `AdminInv` adds `CommandIdsUnique`: no two ledger rows
have one command id. A refusal then is never about the command's own row: the key is looked at first, so a row with
this key exists and is another command's, or none exists.

### The lists

`AdminListsProofs`, for every set of rows and page size:

| Theorem | Property |
|---|---|
| `WalkNeverMisses` | `[]WalkMissesNothing` |
| `PageAlwaysFitsTotal` | `[]PageFitsTotal` |

*Assumption.* `AdminListsAssumption` (the rows are finitely many, a page is not empty).

*Argument.* In a strict order the place of a row is the number of rows shown before it (`Place`, a bijection).
`NonePassedBy` says that a row the walk owes is either shown or has at least `Offset` rows ahead of it. An insertion can only add to these, and a
page shows every row that has fewer than `Offset + Limit` (`PageShows`). `TotalOK` relates the total to the rows there are when the page is read:
at least as many until a row enters, at most as many until one leaves. The first half says that at the last page no
row is left. With the length of a page (`PageLength`: it ends after `Limit` rows or at the last one) both
halves together give `PageFitsTotal`.

### The process

`LifecycleProofs`, for any set of requests, pool size and drain setting, and `StartupProofs`, for any processes and cluster:

| Theorem | Property |
|---|---|
| `GracefulIsAlwaysTrue` | `[]GracefulIsTrue` |
| `PoolAlwaysOutlivesRpcs` | `[]PoolOutlivesRpcs` |
| `UnreadyFirst` | `[]UnreadyBeforeListenersClose` |
| `CleanExitAlwaysReported` | `[]CleanExitReported` |
| `NeverServesUnasked` | `[]ServesOnlyWhenAsked` |
| `OnHandAlwaysBooked` | `[]OnHandIsBooked` |
| `ExistingRowsAreBooked` | `RowsChangeByLedger` |

*Assumptions.* `LifecycleAssumption` (two disjoint finite sets of requests, a pool of at least one connection, an
integer setting), `StartupAssumption` (a finite stock to seed, within bounds).

*Argument.* `LifecycleInv` has a part per promise: `DrainOK` (flag, then clock, then listener), `ServersOK` (when
the pool closes the gRPC server is down and its handlers are back), `OutcomeOK` (while the outcome is still
`graceful` nothing was cut, and what each drain waited for stays answered), `EndOK` (one report, at the end). `StartupInv` remembers of a
running process which checks it has passed (`LaunchOK`), and that no more is booked than a row holds.

### Texts

`RequestKeysProofs`, for every alphabet, limit and set of texts:

| Theorem | Says |
|---|---|
| `LedgerKeysDiffer` | two ledger keys are equal only if operation, id and SKU are |
| `LedgerKeysFit` | a ledger key of a valid id and SKU fits its column |
| `LinesNeverMeet` | `[]LinesNeverCollide` |
| `HashTellsRequests` | two accepted requests have one canonical text exactly if they want the same |
| `ReplayIsAlwaysTheSameRequest` | `[]ReplayIsSameRequest` |
| `RetryIsAlwaysAReplay` | `[]RetryIsReplay` |
| `StoredTexts` | `[]TypeOK` |

*Assumptions.* `KeysAssumption` (the separators are no letters of a name, letters of the fixed words and
digits are, texts are over the alphabet, SKUs have an order). Nothing is assumed of command ids.

*Ledger keys.* An id may contain the separator, so a key cannot be read from the left; but a
SKU has none, so the last separator is the one before the SKU (`SplitOnce`), and
the prefix has a fixed length. That gives `LedgerKeysDiffer`. The invariant `KeysInv` then says that
headers come from accepted requests and that every key in `moved` was
written by a reservation whose status explains it. A line about to be
written therefore does not find its key there: had a reservation written it, it would be
the same reservation and the same operation, which its status excludes. Only `claimed` can hold it.

*The canonical text.* It is made by a fold over the lines, a sort, a concatenation and a recursion over digits, and the
library's induction theorems cannot be used here. Two devices replace them. A recursive definition
is shown to satisfy its equation by `Recursion`: one that calls itself only on arguments of smaller rank has a
solution. And what would be an induction is an argument from a least counterexample (`Least`), once per fact:
`DecimalTells`, `LinesTextTells`, `AggregateMerges`, `RisingOnce`. With these:

1. *The text can be read back.* Different quantities have different digits (`DecimalTells`). A pair ends in `|`,
   which neither SKU nor digits contain, and has one `:`, so the last pair of a text is the same in two equal
   texts, and so are the texts before it (`LastLine`, `PairTells`): equal texts have equal lines
   (`LinesTextTells`). The region has no separator either, and its text follows the last one (`RegionApart`). `CanonicalTells`
   is both together.
2. *Merging keeps the units.* Each line adds its units to one SKU (`UnitsStep`, `MergeStep`), so that the merged list has each SKU
   once, with the number of units the request asks for (`AggregateMerges`, `SumOf`).
3. *The order is unique.* A list with different SKUs has a rising order (`OrderExists`: the place of a line is the number of
   lines before it), so `Sorted` finds one, and two rising lists of the same lines are equal (`RisingOnce`).

1 gives one direction of `HashTellsRequests`, 2 and 3 the other. `RequestInv` adds to `KeysInv` that each header
stands for a request that was accepted (`HeadersTell`), and the two properties compare the hash of a new request with
the hash of that one.

## 5. What is only model-checked, and what is not modelled

Only model-checked:

* *Liveness*: `CallsAreAnswered`, `SagasSettle`, `HoldsEnd`, `ScreensSettle`, `TermEnds`, `NoReadyZombie`. The prover does
  not reason about `ENABLED`, so neither about fairness.

All other properties of the passing runs are theorems too.

Not modelled:

* *Warehouse status changes.* `Active` is constant: nothing under `src/` changes a warehouse's
  status; an operator would, by SQL.
* *Foreign keys*, but for the one on a command's warehouse (AdminCommands), and *row deletion*: no code path deletes a row. The other
  modules send commands to warehouses that exist. The fail-closed
  branches for a vanished balance row or reservation line are in the model
  (`RowMissing`) but unreachable, which `BackstopUnused` shows.
* *`expired`* is in the schema's status list, but no code sets it.
* *The text of a DSN, the optional pool durations, profiling settings*: handed to libraries.
* *SHUTDOWN_TIMEOUT* has the same limits as the drain delay (`getEnvDurationSeconds`); its timeout
  may fall at any moment, so its value does not matter.
* *Operators' command ids of the shape of a ledger key*, outside RequestKeys: in Inventory, InventoryTx and OrderSaga keys are
  triples, so `HoldsCanSettle` speaks of rows and CHECKs, `NoDeadlock` and `HoldsEnd` of workflows whose keys nobody else claims.
* *Waiting for a connection* in InventoryTx: a stalled handler keeps locks there, but does not exhaust the pool. Lifecycle has
  the pool's limit, without the tables.
* *The actor backfill of migration 3* for ledger rows written before it.
* *Token checks* (`authmw`): a library; the models start from a verified subject.
* *Metrics, traces, logs, TLS, password rotation*: no effect on stock.

## 6. Where code and comments disagree

* `safety_replay`: `SetSafetyStock` stores zero deltas in its ledger row, so a second command
  with the same id and another quantity equals the first in every column
  `claimCommand` compares, and is reported as an idempotent replay. The comment on
  `claimCommand` promises `ErrCommandConflict` for a different command.
* `two_warehouses`: when the locked check finds the hinted warehouse short, `Reserve`
  answers `ErrInsufficientStock` without trying another active one; the comments
  on `Reserve` and on the error say no active warehouse could serve it. With one
  active warehouse, as migrated today, the claim holds (`tx_race`).
* `out_of_stock`: `BatchGetAvailability` reads the quantities and the tracked SKUs in two
  snapshots. A SKU whose first row is received between them is answered OUT_OF_STOCK; it was
  unknown before and in stock after, while the comment on `StatusUnknown` says
  an unknown SKU is never fabricated into OUT_OF_STOCK.

Met while modelling, without a run of their own:

* `Commit` writes its ledger row under `cmt:<id>:<sku>` in the unique column that also holds the command ids of
  operators, and `StockCommand.Validate` accepts any text of up to 255 bytes. A command under such an id makes every `Commit` of that
  reservation fail (`Release` and `Reserve`, with `rel:` and `res:`, likewise). The comment in migration 2 says that `command_id` is the key
  of admin commands and that reservation-driven movements use `reference_type` and `reference_id`. Between reservations no such
  collision exists (`LinesNeverMeet`); in `request_keys` the operator's command `cmt:x:b` is posted, and the hold of `x` on SKU `b`
  can then only be released.
* A reason is stored in a VARCHAR(64), and nothing bounds or trims it. PostgreSQL drops blanks beyond the width
  without an error, and `claimCommand` compares what it stored with what was sent: a retry of the applied command is told that its
  id was used with a different payload, where the comments promise that a lost response can be retried. Any other excess fails the
  INSERT, so nothing is booked; the operator is answered 500 each time, see `ScreensSettle`. Both bodies are in `admin_commands`.
* The admin views show `on_hand - reserved` as ATP (`admin_reads.go:78`), the reservation path also
  subtracts the safety stock; `BalanceView`'s comment calls it the same arithmetic.
* The lists count and read in two snapshots (`admin_reads.go:71`), so page and total may disagree; `PageFitsTotal` says by how much.
* An unset `ENV` counts as `development` (`config.go:143`), so a seed Job that is given `DB_*` alone seeds, while the
  comment in `runSubcommand` says that only an explicitly-development environment may. `OnHandIsBooked`
  therefore asks that every launch names its environment.

## 7. What could be added

All components but Observability are modelled, every hazard in `PROJECT.json` has a property but for two that the code does fall into (section 6),
and every safety property of the passing runs is proved for all values of the constants. The claims that fail are not theorems: each
is refuted by its run or described in section 6. What a next step would be:

1. When warehouses get a status that the service changes, `Active` becomes a variable, and `two_warehouses` the run to start from.
2. The liveness properties, if the prover learns to reason about `ENABLED`. Their invariant parts are proved: `NeverDeadlocked` and `LifecycleInv`.
3. The parts of the configuration and of the pool that section 5 lists, once a request's outcome depends on them.

# Verification of the FX engine

TLA+ models of the FX engine under `src/` (FastAPI, asyncpg on PostgreSQL, a
rate provider with a Redis cache, events over RabbitMQ), the TLC runs that check
them, and TLAPS proofs about them. Paths below are relative to `src/`, those of
the program to `src/fx_engine/`.

## Inventory

| Component | State | Operations | What is hard | What makes it correct |
|---|---|---|---|---|
| Quote execution, `app/engine/fx.py:152-409` | `idempotency_keys`, `quotes.status`, `balances`, `ledger_entries`, `transactions` | `execute_quote` | Any number of calls interleave statement by statement at READ COMMITTED; they wait for rows and for unique index entries; any statement may fail, any worker may die, any answer may be lost and asked for again; the quote may expire meanwhile | At most one transaction per quote and per key, both legs or none, never below zero, every balance the sum of its ledger, a retry answered with its transaction, no circle of waits |
| Quote generation, `app/engine/fx.py:72-149` | `quotes` | `generate_quote` | The rate may be stale; amounts are rounded to 2 places and to the columns' 8 | The terms never change; the rate is fresh and carries the spread |
| Funding, `app/routes/customers.py:126-177` | `balances`, `ledger_entries` | `credit_balance` | Races with executions for the row, existing or not | As for execution |
| Customers, KYC, `app/routes/customers.py:31-99` | `customers` | create, list, get, `update_kyc_status` | Two creations with one email | One customer per email |
| Rate provider, `app/providers/rates.py`, and cache, `app/services/cache.py` | `_mids`, `_fetched_at`, `_lock` per worker; one Redis key with a TTL; `rate_snapshots` | `start`, background loop, `refresh`, reads | Upstream, Redis and PostgreSQL fail independently, workers restart, several workers share the key | No quote from rates older than the threshold; a failed refresh keeps the old rates |
| Events, `app/services/events.py` | connection, exchange | `connect_events`, `publish`, `close_events` | Dropped messages, messages about transactions that roll back, an await with a connection in hand | No message about something that did not happen |
| Database pool, `app/services/database.py` | the pool | `get_pool`, `get_connection`, `close_pool` | 20 connections, waiting calls hold one each; the pool is created by whoever comes first | One pool; every call ends, and so does every wait of the refresh |
| Lifecycle and errors, `app/main.py` | start order | `lifespan`, handlers, middleware | Partial start; the loop is cancelled in the middle of a refresh and not awaited | Dependencies exist before they are used; a worker told to stop ends, and leaves no pool and no connection behind |
| Schema, `db/versions/` | the tables, CHECKs, unique indexes, the ledger trigger | five migrations in a chain | Constraints are the last defence of the engine | The engine never runs into them |
| Read routes, health, metrics | none | SELECTs, probes | Each holds a connection | As for the pool |
| `planted_bugs/` | three SQLite tables, `_execute_lock` | `generate_quote`, `execute_quote` | A deliberately faulty baseline (`REVIEW.md`): threads, a lock that does not cover what it should, a commit after the lock | What it keeps in spite of its faults: keys, answers, flags |

A client calls `POST /quotes`, which asks the rate provider for a rate and
inserts a quote, then `POST /quotes/{id}/execute` with an `Idempotency-Key`. All
coordination is in PostgreSQL: one transaction per execution, no locks in the
workers. Events are sent after the commit, except for `quote.expired`. Within a
worker, all routes and the rate provider share one connection pool, which the
lifespan opens first and closes last. The
hazards of this code, each at its line, are in `PROJECT.json`.

## Modules

| Module | Models | Used by |
|---|---|---|
| `FxData` | The rows and constants all modules share, and sums over the ledger | `FxLedger`, `FxExecute` |
| `FxLedger` | The promise: quotes are issued, customers funded, quotes executed in one atomic step each | `FxExecute` (as `Abs`) |
| `FxExecute` | The code: `execute_quote`, `generate_quote` and `credit_balance`, one SQL statement per action | |
| `RateProvider` | The rate provider of every worker and the Redis key they share | |
| `QuoteMath` | The arithmetic of a quote and its roundings | |
| `FxService` | One worker from start to stop: lifespan, pool, refreshes and calls, each reduced to what it holds and waits for | |
| `PlantedFx` | The faulty baseline in `planted_bugs/` | |
| `FxLedgerProofs`, `FxExecuteProofs`, `RateProviderProofs`, `QuoteMathProofs`, `FxServiceProofs`, `PlantedFxProofs` | Theorems about the module they are named after, checked by TLAPS | |
| `FxDeadlockProofs` | The theorem that calls of `FxExecute` never wait in a circle | |
| `MCLedger`, `MCExecute`, `MCQuote` | Constants for TLC | |

### FxExecute

A *session* is one call of a route with its database transaction: the members of
`Requests` call `/execute`, those of `Credits` call `/credit`. `pc[s]` is the
statement it runs next, `locks[s]` the rows and unique values it holds,
`wrote[s]` what it has written and not committed. One action is one awaited
statement, because that is where asyncio and PostgreSQL may switch; `Commit`
moves everything in `wrote` to the tables at once, `Abort` drops it.

| Action | Code |
|---|---|
| `Lookup` | `fx.py:178-205`: the header, the SELECT of the key, its hash |
| `Replay` | `fx.py:194-201`: the second SELECT, for the stored transaction |
| `Reserve` | `fx.py:207-217`, waits for an uncommitted insert of the same key, then skips its own |
| `LockQuote`, `CheckQuote` | `fx.py:219-244`, the expiry before the status |
| `Expire`, `PublishExpired`, `RaiseExpired` | `fx.py:233-241` |
| `Upsert` (twice), `LockBalances` (twice), `CheckFunds` | `fx.py:252-280`, in alphabetical order |
| `MarkExecuted`, `Record`, `Debit`, `Credit`, `Complete` | `fx.py:282-382` |
| `Commit`, `PublishExecuted`, `Lost` | the end of the transaction, and what may follow it |
| `AddFunds`, `EnterFunds`, `CommitFunds` | `customers.py:146-177` |
| `CreateQuote` | the INSERT of `generate_quote` |
| `Fail` | any statement fails, the two SELECTs of the lookup included, times out after 30 s, or its worker dies |

PostgreSQL is modelled from how the code uses it: READ COMMITTED, row locks held
to the end of the transaction, inserters of one unique value waiting for each
other, CHECK and UNIQUE constraints that refuse a statement. A debit and its
ledger entry, and a credit and its entry, are one action each: between the two
statements the session holds every lock that either needs. The published messages
are a bag, so that a message sent twice is seen. Reads outside of locks other than
the lookup, the audit columns, request logging and metrics are left out.

### RateProvider

Rates are `[src, age]`: where they came from and how many ticks ago upstream was
asked. `task[w][t]` is where a coroutine of worker `w` stands: `start()`, the
background loop, or a caller of `/rates/refresh`; `lock[w]` is `_lock`. A step is
what happens between two awaits. The fetch may be answered or not, the write to
Redis may succeed or not, a worker may crash and boot, Redis may lose the key.
`start()` that has no answer reads Redis (`Load`) and takes what it was given some
time later (`Fallback`): `cached` is the reply on its way, and ages there.
`Tick` lets time pass unless a call of upstream or Redis, or the end of a sleep, is
due. `rate_snapshots` is never read back, so only the time of writing it counts,
and that has no bound: it waits for a connection without a timeout and then runs
twelve statements, with `_lock` in hand. `slow` is a history variable that says
that the snapshot of the last fetch has taken more than a call (`Late`).

### QuoteMath

A rate is an exact fraction. `Generate` rounds as `generate_quote` and the
columns do, `Execute` moves the money, `due` and `slack` are history variables.
Decimal's 28 digits and amounts above NUMERIC(20,8) are not modelled.

### FxService

The composition of what the other modules look at one by one. A *task* is a
coroutine: `Main` (the lifespan), `Loop` (the background refresh) or a client's
call. `pc[t]` is what it awaits, and three things are held and waited for: `conn`
(a connection of the pool), `lock` (`_lock` of the rate provider) and `row` (the
row all writes want). An execution is here a row lock within a connection;
`FxExecute` has its statements. A quote may find the rates stale at any time:
`RateProvider` says when they are. One `query` stands for all that holds a
connection for a statement and nothing else.

| Action | Code |
|---|---|
| `Boot`, `NoDatabase`, `Connect` | `main.py:56-65`: pool, Redis, RabbitMQ, then the rate provider |
| `GetPool`, `CreatePool`, `Acquire`, `ClosePool` | `database.py:12-47` |
| `Ask`, `Answered`, `NotAnswered`, `Wake` | `rates.py:83-200`; the snapshot is `GetPool`, `Acquire`, `Finish` with `_lock` in hand |
| `Call` | A route begins: `query` (reads, customers, KYC, `/readyz`), `quote`, `write` (`/execute`, `/credit`) or `refresh` |
| `ReadRates`, `Insert` | `fx.py:90-148`: the customer is read and the rates, which may refuse the call, then the quote is stored |
| `LockRow`, `Write` | `fx.py:219-241` and the commit; `publish` follows with the connection in hand, `quote.expired` with the row as well |
| `Query`, `Finish`, `Fail` | The rows are there, the last await returns; a statement fails or exceeds `command_timeout`. `Leave` gives back all that is held |
| `Terminate`, `Stop`, `Unwind`, `ClosePool` | SIGTERM: uvicorn waits for the calls; `stop()` cancels the loop and does not wait for it; the loop unwinds before or after the pool is closed, which waits for connections only; `asyncio.run()` lets no process end, and so no next one boot, before the loop has ended |

### PlantedFx

The baseline's threads, statement by statement: `mutex` is `_execute_lock`,
`writer` whose connection has SQLite's write lock, from its first UPDATE to its
commit or close. What is not committed is seen by nobody, so `Commit` writes all
of it. The baseline is allowed its faults: two threads may both read the quote as
open and both execute it (bug 1 of `REVIEW.md`). The run asks what remains true:
only overlapping calls execute twice, a key pays once (its primary key rolls the
others back), an answer names a committed transaction, the flag follows the
transactions, and no thread waits forever with a lock in hand. `seen` is a
history variable: the executions a call could see when it read its quote.

## Runs

| Run | Question | Bounds |
|---|---|---|
| `ledger` | Does the promise itself make sense: balances are sums, two legs, once | 2 quotes of three possible terms, 3 calls, 2 keys, 2 credits of 0, 1 or 3 |
| `retry` | What can a client be told that calls for a quote again, in any way? Are its answers committed, its key kept exactly with its transaction, its retry replayed (or told of an internal error), and does all that implement `FxLedger`? | One quote, whose bought amount may be rounded to nothing; three calls that each pick the same key, another key, another customer or no key; a late credit that pays for two executions, or is rounded to nothing |
| `opposite` | Is the balance that was checked the balance that is debited, whatever else moves it? | Two quotes in the same or in opposite directions, three calls that share two keys, two credits |
| `ring` | Can calls wait for each other in a circle, or forever? | Three currencies, three quotes around them, a credit |
| `expiry` | What if the quote expires before, between and during calls that wait for its row? Is `quote.executed` sent for commits only, and once? | Three calls, `TTL` 1, `MaxClock` 2 |
| `worker` | Are fetched rates fresh, cached rates of bounded age, is a stale worker one whose fetch failed or whose snapshot was slow, does the cache never go back, does a worker recover? | One worker with restarts, its loop, one caller; `Interval` 1, `Stale` 5, `Buffer` 1, `Latency` 1 |
| `quote` | What does rounding cost, over any chain of conversions? | Three currencies, two sets of rates, eight amounts, four quotes |
| `service` | Do calls, refreshes and the shutdown end, whatever fills the pool? Do their waits never close into a circle? Is there one pool, and is it closed for good when the worker is down? | Three clients that call again and again, with the loop and the lifespan; a pool of 2 |
| `planted` | What does the faulty baseline keep? | Three calls, each for either of two quotes, with one key or none |
| `claim_*` | See below | |

Three calls are enough for the hazards of the execution path: two that race for
a row and one that comes late, or a circle of three. All locks are on rows of
one quote, one key or one customer's accounts, so another customer or another
quote only adds sessions that never wait for these. In the `Ring` instance every
pair of calls shares an account; the order of currencies is the one thing that
keeps them from a circle, and the run fails when it is replaced by the quote's
own order. `TTL = 0` and `MaxClock = 0` mean that no time passes in the runs that
do not ask about time. The rate runs keep the proportions of the configuration
that matter: `rate_refresh_interval_seconds` (300) with the calls of a refresh
fits into `rate_stale_seconds` (600), `4 * Latency + Interval <= Stale`; ages
above `Old`, and a snapshot's time above its share, are not told apart. One worker suffices for `worker`: the others only
write the same key, with rates no older than a fetch takes.
In `service` up to four tasks want one of two connections, so the pool is full with
one writer that waits for the row of another while a third waits for a connection,
with a refresh that waits for one with `_lock` in hand and with a quote in the
making; a call begins anew once it is answered, so the three clients stand for any
sequence of calls. `planted` needs
three calls for a race and a late one, and a second quote for a key that is used
again for another.
`CHECK_DEADLOCK FALSE` stands where the system may really stop: all calls have
been made and the clock has stopped, or a worker is down that nobody starts
again. That the tasks themselves are not stuck is what `RequestsEnd`, `CallsEnd`
and `StopsInTheEnd` say.

Every property has a mutant of the code, defined next to what it replaces, that
makes its run fail: the quote or the balances not locked, locked in the order of
the quote, a key not completed, the rollback that keeps its locks, `_lock` not
taken, the loop that dies of an exception, ROUND_DOWN for ROUND_HALF_UP, ...

### Fairness

`FxExecute`: a session that has begun its transaction goes on when PostgreSQL
lets it (weak fairness of `Execution` and of the later steps of a credit). The
code has no wait of its own and `command_timeout` ends any other. It assumes that
`publish()` returns. Nobody is obliged to call, to fail or to let time pass.

`RateProvider`: time passes, the loop wakes up, every call of a refresh returns in
the end, and upstream answers at some time if it is asked again and again (strong
fairness of `Answered`). That a snapshot ends follows from `CallsEnd` and
`RefreshesGoOn` of `FxService`, whose calls all give back their connections.
The bounds on ages rest on more than fairness: that one call of upstream or Redis
takes no longer than `Latency`. This is an assumption about the environment, for
the timeout of httpx (`timeout=10.0`) holds for each operation of a request and not
for the whole of it, and the Redis client has none. Nothing is assumed of the
duration of a snapshot.

`FxService`: every task goes on when it may, with strong fairness, because the
three lines it may wait in are served in order: the pool's `asyncio` queue,
`asyncio.Lock`, and PostgreSQL's row locks; so a task that is let through again
and again is let through in the end. Statements end by `command_timeout`, a fetch
by its timeout of 10 s. That `publish()` and the Redis calls return is an
assumption. Nobody is obliged to call, to boot, to fail or to stop the worker.
Strong fairness is asked of what a task may do as a whole: a client that could
only choose failure is not obliged to.

`PlantedFx`: a thread that has a call goes on with it when it may (strong
fairness, for the two locks). An SQLite wait ends after five seconds in any case
(`Busy`).

## What is proved

All theorems hold for any values of the constants that satisfy the assumptions
of the modules: any number of customers, quotes, keys, calls, workers or clients,
any amounts and any timing. `[]P` below is `Spec => []P`. Each component has one
inductive invariant (`LedgerInv` of `FxLedger`, `IInv` of the others), which TLC
checked on the instances of the runs before it was proved. Where many sessions,
workers or tasks run at once, a *frame* lemma says that a step of one leaves alone
what the invariant says of the others. Every safety property a run
expects to hold, action properties included, has its theorem.

| Module | Theorems |
|---|---|
| `FxLedgerProofs` | `TypeCorrect`, `BalancesFollowLedger`, `ExecutesOnce`, `EveryExecutionHasTwoLegs` |
| `FxExecuteProofs` | `TypeCorrect`, `LockSerialisesCallers` (`[]BackstopsSilent`), `AnswersCommitted` (`[]AnswersAreCommitted`), `KeysFollowTransactions` (`[]KeyRecordsItsTransaction`), `FundsStayChecked` (`[]CheckedBalanceIsCurrent`), `StatusTellsExecution` (`[]StatusFollowsTransactions`), `NeverLockedTooLate` (`[]LockedInTime`), `EventsFollowCommits` (`[]ExecutedEventsAreCommitted`), `RetriesAreReplayed` (the action property `RetryIsReplayed`), `Refinement` (`ImplementsLedger`), `LedgerPromisesHold` |
| `FxDeadlockProofs` | `DeadlockFree` (`[]NoDeadlock`) |
| `RateProviderProofs` | `TypeCorrect`, `FreshWhileOwn` (`[]OwnRatesAreFresh`), `BoundedFromCache` (`[]CachedRatesAreBounded`), `StaleIsCaused` (`[]StaleHasACause`), `KeyMovesForward` (the action property `CacheNeverGoesBack`) |
| `QuoteMathProofs` | `TypeCorrect`, `RevenueFromSpread` (`[]RevenueIsTheSpread`) |
| `FxServiceProofs` | `TypeCorrect`, `PoolIsUnique` (`[]OnePool`), `DownIsClosed` (`[]ClosedForGood`), `NeverStalls` (`[]NoStall`) |
| `PlantedFxProofs` | `TypeCorrect`, `DoublesOverlap` (`[]DoubleOnlyByOverlap`), `KeysPayOnce` (`[]KeyPaysOnce`), `AnswersCommitted` (`[]AnswersAreCommitted`), `FlagsAgree` (`[]FlagFollowsTransactions`) |

**FxLedger.** The sum of ledger amounts is the cardinality of a set of units
(`FxData!Units`), so that no recursion is involved: `TotalOfAdded` shows that a new
entry adds its amount. An entry must be new for that, and the sums must be finite,
hence `LedgerInv == TypeOK /\ Countable /\ Referenced /\ LedgerBalances`:
`Referenced` says that entries of a call come with its transaction, so a call
without one has no entry yet.

**FxExecute.** The argument is the code's own: what a call has learnt of a row
stays true while it holds the lock on it. `IInv` says of each call, by the
statement it is at, which rows it has locked and what it knows of them
(`KeyInv`, `QuoteInv`, `FundsInv`), what it has written and not committed
(`WritesInv`) and what it has been told (`AnswerInv`); of all, that locks exclude
each other, that a transactions row was committed by the call it names, and the
four properties that only stay true together. Without `FundsInv`, say,
`Debit` could overdraw an account; without `WritesInv`, `Commit` could leave a
leg behind. Two frame lemmas carry the proof: a step that commits nothing
(`QuietStep`) changes no table, so only the session that takes it has to be looked
at, and a commit (`CommitFrame`) changes only rows its session has locked.
`RetriesAreReplayed` says of each of the two SELECTs of a retry what may come of it:
the next one, the answer of the commit, or an internal error if it fails, and
nothing else. `EventsFollowCommits` counts messages: a call publishes at one
statement, which it leaves, and no two calls execute one quote.

**The refinement.** `CreateQuote` is `FxLedger`'s `Issue`, `Commit` its `Execute`,
`CommitFunds` its `Fund`, and every other step, a failure or a rollback among them,
leaves the four mapped tables alone. `CommitView` has the guards of `Execute` from
`IInv`: the quote has no transaction yet, nor has the key, and the balance
suffices. `LedgerPromisesHold` then carries the theorems of `FxLedgerProofs` over to
the statements.

**No deadlock.** Every lock a call holds was taken at a statement it is past
(`HoldersInv`, inductive with `IInv`). So a call waits only for one at a later
statement, or, among those that insert or lock balances, for one that itself wants
the row of a currency of higher rank (`WaiterOf`, `HolderOf`). In a set of calls that
all wait for one of the set, no one can be at the last statement, nor want the
last currency (`Acyclic`, by a well-founded order), so the set is empty. This is
where the alphabetical order of `fx.py:253` is needed, and that there are finitely
many currencies.

**RateProvider.** Of each worker: who refreshes holds its lock (`LockedBy`), where
its coroutines may be in each phase of its life (`PhaseInv`), how long a refresh has
taken (`FlightInv`), and that rates are at most `Latency` older than
`_fetched_at` says if they were fetched, `TTL + 3 * Latency` if they came from Redis
(`AgeInv`). The latter needs `KeyInv`, that the key is at most `2 * Latency` older
than the part of its life that is gone (the fetch and the write), and `CachedInv`,
that a reply ages on its way no longer than `start()` waits (the read). `RecentInv`
bounds how long ago the last fetch was unless it failed or its snapshot was slow.
`StaleIsCaused` assumes `4 * Latency + Interval <= Stale`: a cycle of the loop fits
into the threshold, as 300 s, 600 s and calls of some 10 s do. A snapshot that keeps
`_lock` longer is then a cause of staleness of its own, with no fetch that failed.
`KeyMovesForward` assumes one worker, because two may go back (see below); it adds
`QueueInv`: the lock lets a worker ask for rates only after it last wrote the key.

**QuoteMath.** An open quote gives away the value of what is sold less the spread, up
to half a cent of what is bought and half a step of what is sold: `QuoteInv`, which
follows from the bounds of ROUND_HALF_UP (`HalfUpFacts`, `Conversion`).
`RevenueIsTheSpread` is inductive only with it, for `Execute` moves what `Generate`
has rounded. Two facts about the library's folds are needed besides: an exchange
changes the value of a wallet by its two balances (`ValueOfExchange`), and
`usd[c] * Worth(c)` is the same for every currency (`WorthFacts`). Both say that a
fold may take any element first (`FoldTakes`). Instead of an induction over
sets, the proof looks at a smallest set for which a fold does not exist or is not
unique (`SmallestSet`): it is not empty, and without one element it is no
counterexample, so neither is it.

**FxService.** What a task holds follows from what it awaits (`HoldInv`, `RowInv`), a
task of each kind comes to certain awaits only (`MainInv`, `LoopInv`, `ClientInv`),
and each phase of `lifespan()` says whether there is a pool, whether the loop runs
and whether clients are served (`LifeInv`). `OnePool` is inductive because of
the order of `lifespan()`: nobody else runs while it awaits `create_pool`.
`DownIsClosed` does not need that the loop has ended: from `LifeInv`, the loop is by
then cancelled, so it comes to no `get_pool()` any more, and the pool is closed
only when the connection of a snapshot is back. `NeverStalls` follows the waits:
who holds the row waits for nothing, who has a connection waits at most for the
row, who has `_lock` at most for a connection; so of the holders that a waiting
task depends on, one can go on.

**PlantedFx.** From its first UPDATE on, a thread has SQLite's write lock, so what it
has read of the key's row, by inserting it, stays true until it commits (`CallInv`);
and an execution under way has seen no other of its quote. Hence the
primary key of `idempotency` is all that keeps a key from paying twice.

Assumptions, named in the modules and evaluated by TLC in the runs: ranks of
currencies differ, and currencies are finitely many (`providers/rates.py:42` lists
them); terms, deposits and request bodies are of their types, and a quote is between
two currencies (`fx.py:87`); no call is both an execution and a credit; dollar rates
and amounts are positive, spreads lie strictly between 0 and 1; `Interval` and
`Stale` are positive, and a pool has a connection. The rest says that names of
nothing (`NoKey`, `NoQuote`, `NoRow`, `None`) and the fixed coroutines are none of
the things they are told apart from. The two hypotheses beyond these, about times
and about one worker, are those of the `RateProvider` theorems above.

Only model-checked: liveness (`RequestsEnd`, `WorkersRecover`, `CallsEnd`,
`RefreshesGoOn`, `StopsInTheEnd`). It needs ENABLED, which the provers do not handle.

## Where the code and its documents differ

Each has a run that ends in a counterexample.

| Run | Document | Code |
|---|---|---|
| `claim_key_reuse` | `SPEC.md:165`: the same key with another hash is a 409 | Two racing calls: `ON CONFLICT DO NOTHING` (`fx.py:208`) waits, then goes on without comparing hashes; the index on `transactions` answers with a 500 |
| `claim_expiry_instant` | `SPEC.md:137`: `expires_at > now()` is required | `fx.py:232` refuses only what is past its expiry, so a quote is executed at that very instant; `LockedInTime` is what holds |
| `claim_stale` | `providers/rates.py:72`: rates older than the threshold give 503 | Rates from Redis count as fetched when read (`rates.py:94`) |

Seen while modelling, without a run of their own:

- A second call after the TTL for an executed quote is told that it expired, and
  `quote.expired` is published for it (`fx.py:232` tests the time before the
  status), against `services/events.py:12`.
- The UPDATE to `expired` is rolled back by the exception raised after it
  (`fx.py:233-241`), so no quote ever has that status, against `SPEC.md:99`; its
  event is published inside the transaction, against `DECISIONS.md:124`.
- After a failed fetch the loop logs the failure and sleeps (`rates.py:172`); only
  `start()` reads Redis, against `DECISIONS.md:109`.
- A retry that overlaps its first call is told `quote_already_executed` and not
  replayed, against `DECISIONS.md:213`.
- Rounding half up outweighs the spread of small amounts (`fx.py:100`), against
  `SPEC.md:44`; a quote rounded to nothing fails with a 500 on
  `ledger_entries_amount_positive`.
- Two workers may overwrite the Redis key with older rates, with a full TTL.
- `services/events.py:5` promises that publishing never blocks; it is awaited with
  a pooled connection in hand, and with the quote's row lock for `quote.expired`.
  `CallsEnd` holds because `publish()` is assumed to return.
- If RabbitMQ is away at startup, `connect_events` is not tried again, and
  `publish` drops every event without the log line its header promises.
- `GET /quotes` shows a quote before `quote.created` is published, so
  `quote.executed` may precede it.
- The baseline replays a key's response for any quote it is sent with
  (`planted_bugs/fx.py:104-110`), and executes a quote twice (`planted_bugs/fx.py:112`).

## Not modelled

- Customers and KYC beyond the connection they hold: one autocommitted statement
  each; two creations with one email are told apart by the unique index alone, and
  no money or quote depends on the KYC status.
- The skew of the workers' clocks: it lengthens or shortens the life of a quote by
  as much, and nothing else depends on it.
- What the read routes format, the metrics and the log: nothing reads them back.
- The AMQP connection and its reconnects: inside `aio_pika`.
- The migration chain beyond the constraints it leaves behind: a straight line of
  DDL that Alembic runs once.
- The baseline's rate arithmetic and stub rates (bugs of a single expression, which
  a unit test shows), the monitoring and container configuration.

## Plan

Modelled, checked and proved in this order: `FxLedger` and `FxExecute` with its
refinement, `RateProvider`, `QuoteMath`, `FxService`, `PlantedFx`. What is left:

1. `KeyMovesForward` for more than one worker is false, as said above. How far
   overlapping refreshes can take the key back at most is to be stated and proved.
2. `RequestsEnd` without fairness: the safety half of it, that a call which waits has
   a holder that can go on, from `FxDeadlockProofs`.
3. `QuoteMath` with Decimal's 28 digits: one more rounding in `QuoteInv`.

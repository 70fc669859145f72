# A verification project for TallySync

TallySync is an agent that copies the accounting data of a TallyPrime
installation into PostgreSQL. It asks Tally for XML exports over HTTP, parses
them, and stores each entity three times: in a normalised table, in an archive
of its latest XML, and in an append-only history of XML versions. It decides
what to store by an AlterID checkpoint and by a hash of each record.

This directory holds TLA+ modules translated from the Python source, the
configurations that check them with TLC, and proofs checked by TLAPS.
`PROJECT.json` lists the runs, the mutants, the lines each definition
translates, the hazards and the findings; this file explains them.

## 1. The system

### 1.1 Components

| Component (under `src/app/`) | State | Operations | Talks to |
|---|---|---|---|
| TallyPrime, `tallysync_exports.tdl` (external) | collections of objects with GUID, name, AlterID, computed fields | save, delete, export, fire an event at each save | the agent, by HTTP both ways |
| `client/tally_client.py` | a `requests.Session`, opened on first use | `request` (retries), `stream_request`, `is_alive`, `close` | Tally |
| `sync/streaming.py` `IteratorIO` | `_buf`, the chunk in hand | `readinto` | between `stream_request` and the parser |
| `parser/*`, `models/domain/*` | none (frozen records) | element to record, record with its raw bytes | the services |
| `services/base.py` `BaseSyncService` and ten subclasses | locals of `sync()` only (`_is_full_sync`, `_last_synced_at` are written and never read) | `sync(company, full)` | client, parser, repositories |
| `repositories/postgres/*`, `database/bulk.py` | the tables | upserts, hash query, checkpoint, run rows | PostgreSQL |
| `database/session.py`, `engine.py` | a transaction per sync, the connection pool | commit, rollback, close | PostgreSQL |
| `sync/engine.py` `SyncEngine` | none | `sync` (all entities in order), `sync_entity` | the services |
| `scheduler/scheduler.py` | two jobs | interval job (incremental), cron job (full) | the engine |
| `api/routes/sync.py` | background tasks | one entity, all entities, blocking run | the engine |
| `agent.py` | stop event, scheduler, API thread | `start`, `stop` | everything above |
| `windows_service/service.py` | service event | `SvcDoRun`, `SvcStop` | the agent |
| `client/tally_health.py`, `api/routes/status.py` | a cached result | `check`, `invalidate` | Tally, the tables |
| `config/settings.py` | the settings of the process | `from_yaml` at each start | environment, `.env`, `config.yaml`, keyring |
| `models/db/*`, `database/migrations/*` | revision, tables | `upgrade`, `downgrade` of three revisions | PostgreSQL |
| `logging/`, `main.py` | – | log sinks, commands | – |

### 1.2 What is hard

- **Threads.** The interval job, the cron job, the start-up sync and the tasks
  of the control API may run the sync of the same entity at the same time.
  Nothing locks an entity. Each sync reads the checkpoint, waits for Tally for
  up to minutes, reads the hashes, and only then writes.
- **A moving source.** Tally's user saves, renames and deletes between any two
  of these steps. Some exported fields change with no new AlterID.
- **Two filters.** The AlterID filter drops records unseen, the hash filter
  skips writes; each is right only if the tables are what it takes them for.
- **Failure.** Tally does not answer, answers with an error (which a stream
  does not notice), or sends a damaged export (which the parser repairs by
  leaving records out). The database refuses a statement or ends a transaction
  to break a deadlock. The process dies anywhere.
- **One database for all.** Ten services share an archive, a history and a
  checkpoint table among all entities and companies. Migrations drop some of
  the tables a sync takes for one, and leave the others.
- **Settings from five places**, any of which may be missing, and some of which
  end the agent while the service goes on.
- **Limits.** The connection pool, the retries, the sizes of chunks and reads.
- **Lifecycle.** `stop()` may come at any point of `start()`, and may raise.

### 1.3 What makes each part correct

- *Sync*: everything in the tables is explained by the history; the checkpoint
  never passes a save that is not stored; a record is skipped only when it is
  stored; the archive does not go back; in the end the tables show Tally.
- *Vouchers*: header and entries are always of the same save; a batch is stored
  whole; concurrent stores end; every voucher whose date has come gets stored.
- *Client*: a call that returns has given a whole answer, after a bounded number
  of posts; one that cannot raises.
- *Health*: no result is older than the cache's lifetime, or than the last
  `invalidate`, however long a probe takes.
- *Schema*: every way up and down ends in the tables of the revision, and the
  newest has the unique columns each upsert names.
- *Database*: nothing the hash filter skips is missing from its table, a full
  sync restores what incremental ones skip, no sync touches foreign rows, and
  the counts of a run are true.
- *Agent*: connections come back, a failing entity does not keep others from
  being synced, lost events are made up for, whatever the settings' sources are;
  a stop ends the service.

## 2. The modules

| Module | Models | Composition |
|---|---|---|
| `Dicts` | dict update, ON CONFLICT DO UPDATE, what a loop picks from a list | used by all |
| `TallySource` | one collection of Tally (external) | – |
| `SyncService` | `BaseSyncService.sync` for one entity, any number of threads | extends `TallySource` |
| `Replica` | abstract: look at the source, later copy what was seen | – |
| `SyncReplica` | the refinement mapping from `SyncService` to `Replica` | extends `SyncService`, instantiates `Replica` |
| `VoucherSync` | the voucher services: period, stream without error check, days | extends `SyncService` |
| `VoucherStore` | `upsert_batch` of vouchers in concurrent transactions | instantiates `VoucherTable` |
| `VoucherTable` | abstract: batches are stored whole, at once, or not at all | – |
| `TallyFetch` | `TallyClient.request`, `stream_request`, `IteratorIO` | – |
| `TallyHealth` | `TallyHealthChecker` and its cache | extends `TallyFetch` |
| `TallyExport` | the reports of the TDL, the extractors and parsers of `parser/` | – |
| `Schema` | the migrations and the ORM models | – |
| `Database` | all services over one migrated database | extends `Schema` |
| `Settings` | `Settings.from_yaml` | – |
| `Agent` | service, agent, scheduler, API, engine, connection pool | extends `Settings` |
| `SyncServiceProofs` | theorems for any threads, vouchers' included | extends `VoucherSync` |
| `SyncSerialProofs` | theorems for syncs that do not overlap | extends `SyncReplica`, `SyncServiceProofs` |
| `VoucherStoreProofs`, `TallyClientProofs`, `AgentProofs`, `DatabaseProofs`, `TallyExportProofs` | theorems | extend `VoucherStore`, `TallyHealth`, `Agent`, `Database`, `TallyExport` |
| `LoopTheorems` | lemmas about the code's loops, which are recursive functions here | extended by the last three |
| `MC...` | constants for TLC | – |

Definitions named `X_Something` are defective variants of the definition `X`
that follows them: what a plausible mistake in that code would make of it. No
specification uses them; each property is checked to fail when `X` is replaced
by one of them, which shows that the property depends on that code.

### 2.1 `TallySource` and `SyncService`

A record is `[name, alter_id, closing]`: what the user's save determines
(`Edit`) and one computed field. The raw XML and its SHA-256 are the record
itself, since ALTERID is exported inside the element. Every save takes the next
AlterID. Names are unique among live objects at each moment, as Tally keeps
them for masters.

`SyncService` has one variable per table (`archive`, `entity`, `versions`,
`checkpoint`, `runs`) and one per local of `sync()` (`since`, `response`,
`stored`, ...), as a function of the thread. Its steps are those at which
another thread's commit can matter:

| Action | Code |
|---|---|
| `Begin` | `start_run` and the checkpoint query (`base.py:55-64`) |
| `Fetch` | the request, the answer, the parser (`base.py:231-243`) |
| `Compare` | `get_latest_hashes` (`raw_archive.py:39-60`) |
| `Commit` | entity upsert, archive of changed records, versions, archive of unchanged records, checkpoint, `finish_run`, commit (`base.py:66-197`) |
| `Reject` | the archive statement fails on two rows of one guid |
| `Fail` | any exception: `finish_run(failure)`, rollback |
| `Crash` | the process ends, PostgreSQL rolls back |

Writes and commit are one step: PostgreSQL shows them to others only at the
commit, the locks they take are held until then, and after the hash query the
transaction reads nothing more. Where two transactions write the same rows in
pieces (vouchers), `VoucherStore` has the pieces.

`runs` holds only the statuses of committed run rows; `ended` records what the
callers saw and exists for the property about the audit log.

### 2.2 `VoucherSync`

The request has a period that ends today; the answer holds the vouchers dated
in it. `FetchError` is the answer of a stream that holds an error or nothing:
it parses to no records and the sync goes on. Days pass.

`PassedIsKept` is what the services do promise: what the checkpoint passes is
kept, if it is in the period that was *asked for*. A request built before
midnight asks for the day before, so an answer given after midnight lacks a
voucher of the new day, and the checkpoint may still pass it: the same gap as
`PostDated` (3.1), for a day that began in between.

### 2.3 `VoucherStore`

Statements of `upsert_batch` in their order (`Following`): the header upsert,
row by row in the order of the export, each row waiting for the transaction
that holds it; the delete of the entries, which sees what is committed when it
starts; the insert; the commit. What a thread wrote appears in `headers` and
`entries` at its commit. A transaction may fail at any step, and the database
ends a transaction that is in a cycle of waiting ones.

A row of `entries` stands for the entries of one record in all three child
tables, and carries the transaction that inserted it, so that two inserts of
the same record are two rows, as in the tables.

### 2.4 `TallyFetch`

One thread's calls. A body is a sequence of units (bytes); `NextChunk` and
`Read` are the two halves of `readinto`; chunk and read sizes are free. Waiting
times are left out.

A body may be cut short after any unit, in two ways (`Cuts`). If nothing more
comes in time, requests raises its `ConnectionError`: `stream_request` makes a
`TallyConnectionError` of it, and `request` posts again. If the connection breaks
or the body is incomplete, requests raises its `ChunkedEncodingError`, which
neither of them catches (3.1). After either the generator is at its end, and a
reader that asked once more would get the end of the stream, which the parser,
told to recover, would take for the end of a shorter export. `ReturnsWhole` says
that no call ends so. What was parsed before is on a list in the frame the
exception leaves (`services/voucher.py:51-58`), and ends with it. A body with
neither a length nor chunks that ends early looks complete to requests; that is
the damaged answer of 2.6.

`TallyHealth` runs a health checker beside it, as another thread with a client
of its own. `Check` reads the clock, `Hit` and `Probe` are the two ways it ends;
`Tick` may happen any number of times in between. A cached result is known by
the time its check began, which is what the property needs of it.

### 2.5 `TallyExport`

`Enter` puts an object into Tally, `Ask` exports a report of what there is, in a
form: amounts with a sign or with Dr and Cr, zeros shown or not, dates with two
or four digits for the year or as YYYYMMDD. One turn of `iter_collection_with_raw`
is three steps, for the generator and its caller take turns on one element of
the tree: `Capture` takes the bytes, `Receive` is the caller, which builds the
record and puts it on the list with the bytes it was given, `Resume` clears the
element. `answer` is the tree, `raw` what the generator has taken and not yet
done with. The bytes are the element with the white space after it, if that had
arrived by then. A text is the sequence of its words, so `decimal_amount`,
`rate` and `tally_date` are modelled by what they do with the words.

Fields that are treated alike are one field: a voucher has one flag, a ledger
one amount. One report stands for units, stock groups, godowns and voucher
types. `ExportAssumption` names what the code needs of the data: years from 1969
to 2068, which two digits can tell apart, and no unit named Dr, which
`quantity` would take for a debit. The parsers leave out the lines of a voucher
that have no name, and so does `Meant`, what a record should say.

### 2.6 `Schema` and `Database`

A migration is a sequence of steps on tables; a table is its unique columns, the
table its foreign key points to, and the columns a later revision adds.
`Possible` is what PostgreSQL lets pass, and one impossible step fails the whole
migration, since alembic runs all of them in a transaction. The ORM models are
the same records, translated from their own source, so that `SchemaServes`
compares two independent translations.

`Database` puts rows into these tables. `Repository` has the table and the
conflict columns of each of the ten services, `Serves` what PostgreSQL demands
of an upsert; `Sync` is a whole successful sync of one entity of one company:
`Batch` (the AlterID filter), `Changed` and `Skipped` (the hash filter), the
chunks of the archive's statements, the checkpoint and the counts of the run.
The syncs are one step here, which is the complement of `SyncService`: there one
entity with all interleavings, here all tables with none. A failed sync changes
nothing and is no step. `Exports` are the whole exports; `Answers` are what a sync
may be given: also what the parser makes of a damaged one, any part of it, and
the nothing it makes of an error in a stream. `FullSyncShowsTally` is about full
syncs given a whole export. Where an answer holds a record twice, it is an
exact repetition; exports with an *earlier* save of a record are in 3.1.

### 2.7 `Settings` and `Agent`

`Settings` merges the sources key by key, with `@@` for "comes before"; it keeps
the keys that the agent's control depends on and those with a validator.
`Agent` loads them in `Boot`, which is not possible when they are rejected. A
cron expression without five fields ends the agent's thread in `CronRejected`,
and the service goes on without it. The API may fail to get its port.

`main` follows the thread that runs `Agent.start` statement by statement;
`SvcStop` may happen between any two. `todo[r]` is what is left of thread `r`'s
walk over the configured entities; `Checkout` takes a connection, `Succeed` and
`Raise` end the sync of one entity. `dirty` is the set of entities with a save
no sync has brought over; a sync clears its entity only if no save came after it
took its connection. Requests of the API are lost while it does not listen; one that
is accepted may name another company, and then its sync does nothing for the
configured one.
The service process ends when `SvcDoRun` has returned and no scheduler job
runs: the interpreter joins the scheduler's pool threads and no daemon threads.

## 3. What is checked

Bounds are constants named in each `.cfg`. Symmetry is used only in runs
without liveness.

| Run | Shows | Bounds |
|---|---|---|
| `SyncSerial` | `SkipsOnlyArchived`, `EntityFollowsArchive`, `ArchiveNeverOlder`, and that the sync implements `Replica` | 1 thread, 2 objects, 2 names, 4 saves, 1 drift |
| `SyncConcurrent` | `HistoryComplete`, `NoSaveMissed`, the inductive invariant, with statements that the database rejects | 2 threads, 3 objects (one with a GUID of its own, two without), 3 saves |
| `VoucherLive` | `PassedIsKept`, `DueConverges` | 1 thread, 2 vouchers of which one post-dated, 2 saves, 1 drift, 2 days |
| `VoucherStore` | `EntriesMatchHeader`, `StoreInv`, implements `VoucherTable`, `EveryTransactionEnds` | 2 transactions, 2 keys, 2 AlterIDs, all batches and orders |
| `Agent` | `ConnectionsReturned`, `EverySaveSynced`, `StopEnds` | 4 threads, 5 configurations (complete, no file, no company, a short cron expression, rejected), 2 connections in the complete one, 2 entities (one may fail for ever), 2 saves, 2 stops or crashes |
| `Exports` | `RecordsAreTheObjects`, `RawReparses` | books of up to 3 of 8 objects, all 6 reports, all 12 forms, every order of entering, asking, capturing, building and clearing |
| `TallyClient` | `NothingLostOrRepeated`, `ReturnsWhole`, `RetriesOnlySilence`, `HealthIsFresh`, `CallsEnd` | 7 kinds of answer, 12 units, reads of up to 5, 3 attempts; a cache of 2 and a clock up to 5 |
| `Database` | `SchemaServes`, `SkippedIsStored`, `FullSyncShowsTally`, `OthersUntouched`, `CountsTrue` | 2 companies, in one of them 2 orders that may share a number, in the other 1 order, 2 company objects; whole, damaged and empty answers; 2 saves in one company and 1 in the other, 3 migrations, chunks of 2 |

Why the bounds are enough. Two objects and two names allow renames, swaps of
names after a delete and a shared GUID; a third save is what an old response
needs to be older than what another thread stored and still above its own
checkpoint. Two threads suffice for a stale response, a stale hash and a stale
checkpoint, since each anomaly is between two syncs; the proofs cover any
number. Two keys are the least for a deadlock, two AlterIDs for a duplicate in
an export. Two connections for four threads make the pool run dry while another
sync goes on. The eight objects have both signs and zero, both
centuries, no due date, registrations without a code, and several lines; three
of them make the selection and the order of a report matter. Three migrations
are an upgrade, a downgrade and an upgrade, which is what it takes to lose a
table below a checkpoint; two saves in one company make an order be renumbered,
or two orders share a number; a chunk of two holds or splits a repetition in an
answer of three. A clock of 5 outlives two cache
lifetimes, so that a probe may take longer than one. Of the configurations each
reaches another end: an agent that runs, on a pool that runs dry or on the
default one, an agent with nothing it can sync but companies, one that dies
after it has made its scheduler, one that never starts.

Deadlock is checked except where the system may really stop: in `Database`
below revision 3 with the bounds used up no sync is possible, and in `Agent` a
service with a dead agent, or rejected settings, does nothing more once the
stops are used up.

### 3.1 Disagreements of the code with what it says

Each is a run that TLC must find violated; `PROJECT.json` quotes the lines.

- `SkipsUnchanged`: with two threads, a late commit of an early fetch puts an
  older record over a newer one below the checkpoint. Incremental syncs then
  skip a record that is *not* unchanged, until the next full sync. (It is in
  the history: `NoSaveMissed` holds and is proved.)
- `Audit`: a failed attempt leaves no row in `sync_runs`.
- `SharedGuid`: two objects without a GUID make every sync of the entity fail.
- `PostDated`: incremental syncs never show a voucher that was post-dated when
  the checkpoint passed it.

More disagreements were met while reading; no run shows them, since they are of
one line each or of data the models leave out:

- `config/settings.py:17-19` says that the keyring is asked when the variable of
  the environment is absent; lines 239-243 let it replace the variable
  (`FromKeyring` has what the code does). `migrations/env.py:20` takes the variable
  first, so a migration and the agent may work on different databases, where
  line 3 promises "a single source of truth".
- `config/settings.py:3-7`: sections are `BaseSettings` themselves, so variables
  without prefix (`HOST`, `URL`, `LEVEL`) come before the defaults (`bare`).
- `config.yaml:12` "leave blank to auto-detect first company": nothing does; all
  requests but that for companies raise (`xml/template_engine.py:96-99`). The
  section `retry` and `pool_timeout` are never read.
- `migrations/env.py:31` "Import all ORM models": not those of purchase orders, so
  autogenerate takes their two tables for dropped ones.
- `database/bulk.py:41-43` and 52-53: an export may hold a record twice, the newer
  one last. A full sync finds one of them unchanged and the other changed, and
  the archive gets the unchanged one last (`base.py:159-193`): it may go back.
- `repositories/postgres/checkpoint.py:29` "last successful sync": a sync that
  finds no change does not touch it. `models/db/sync_state.py:15` "alter_id == 0
  means no sync has been run": a full sync of an empty collection stores 0.
- `repositories/postgres/raw_archive.py:12`: a hash that comes back after another
  one adds no row, by the unique constraint of the next sentence.
- `api/routes/status.py:46`: every request makes its own checker, whose cache is
  always empty (`client/tally_health.py:1`).
- `client/tally_client.py:164-165` promises `TallyConnectionError` for a
  "network-level failure during streaming", and lines 117-120 list what `request`
  raises. A body that breaks or is incomplete is requests' `ChunkedEncodingError`,
  which is neither of the exceptions of lines 132 and 182: it reaches the caller
  as itself, and `request` does not try again. `Break` and `Result` have what the
  code does. The sync fails either way, so that nothing is lost.
- `main.py:7-8` lists `sync` and `status`, which are no commands. `install.ps1:47`
  "if not already present" follows the removal of the whole directory.

### 3.2 Fairness

- `SyncService!Fairness` (used by `SharedGuid`): both jobs fire again and again,
  so each mode is begun again and again; strong fairness of fetch, compare and
  commit *per mode* says that Tally and the database do not fail all attempts.
- `VoucherSync!VoucherFairness`: an attempt does not hang (requests and pool have
  timeouts), and not every attempt of a mode is answered with an error or fails
  after vouchers were given. Nothing is assumed of the user.
- `VoucherStore!Fairness`: a thread keeps running its statements and gets a row
  that is released again and again (PostgreSQL queues waiters); deadlocks are
  detected. Failures are never required.
- `Agent!Fairness`: threads run; the service is started again; a sync and a wait
  for a connection end; the interval job fires; of its turns at a *reliable*
  entity not all find the pool empty and not all fail. Nothing is assumed of the
  other entities, of the cron job, the API or the start-up sync. A rejected cron
  expression does end the thread; nothing restarts it but a stop or a crash.
- `TallyHealth!ClientSpec`: posts and reads end; that a connection breaks is never
  required. Nothing is assumed of the health checker.

## 4. What is proved

TLAPS checks, for every value of the constants that the `ASSUME`s allow, all
safety invariants and action properties that the passing runs check. Each
invariant proof has the same parts: the inductive invariant, one lemma per
action, and lemmas about the operators the actions use.

**Syncs that overlap** (`SyncServiceProofs`; any number of threads, shared GUIDs).

- `TypeCorrect`, `TypesHold`: the types, of the tables and of each thread's locals.
- `HistoryIsComplete`: `HistoryComplete`, damaged exports or not. The strengthening
  says that the hashes a thread holds (`stored`) are rows of the history as well:
  a record that is skipped as unchanged is archived again from the thread's
  response, and only because its hash was *once* in the archive is it known to be
  in the history.
- `SyncInvHolds`, `NoSaveIsMissed`: assume `Truncating = FALSE`. The invariant
  relates each thread's locals to what Tally has become since: an object that a
  response does not show as it is now was saved after everything the response does
  show (`ResponsesCurrent`), and each thread's own `since` is covered too
  (`CoveredUpTo(since[w])`), because a thread may commit a checkpoint computed with
  an old `since`. The checkpoint may go back when two syncs commit in the other
  order; coverage survives that. Without the assumption the theorem is false: a
  repaired export can lack a record whose AlterID is below the checkpoint the rest
  of it sets.
- `VoucherHistoryIsComplete`: `HistoryComplete` of `VoucherSpec`. Every voucher step
  is a step of `SyncService` or the receipt of some part of what Tally shows
  (`Receive`), and the history does not depend on which part.
- `PassedVouchersAreKept`: `PassedIsKept`, where the run has one thread and the
  theorem any number. The invariant `PeriodsCurrent` is `ResponsesCurrent` within
  the period of each thread's request: a voucher of the period that the response
  does not show as it is was saved after everything the response does show. An
  answer that parses to no records has no highest AlterID, and passes nothing.
  Assumes `Truncating = FALSE`, for the reason above.

**Syncs that do not overlap** (`SyncSerialProofs`). All assume `Serial`: one thread,
a GUID of its own for each object, whole exports. That is what the run `SyncSerial`
has, and `SkipsUnchanged` and `SharedGuid` show that the first two are needed.

- `SkipsUnchanged`, `EntityKeepsUp`, `ArchiveGrowsNewer`: `SkipsOnlyArchived`,
  `EntityFollowsArchive` and `ArchiveNeverOlder`. The invariant `SerialInv` says that
  what a response does not show as it is was saved after everything in the
  *archive* (`Shown`), that no archive row is newer than the record it is of
  (`NotAhead`), and that names differ in a response as they did in Tally, without
  which an upsert by name could put one object's row over another's.
- `SyncIsReplica`: `Spec => ReplicaSpec`. A fetch is the abstract `Look`, a commit
  `Copy`, and every other way out `Forget`: checkpoint, hashes, archive and rollback
  together do what a plain copy of everything would.

**Vouchers** (`VoucherStoreProofs`; any number of transactions).

- `StoreInvHolds`: a thread past the header upsert holds the rows of all keys of
  its batch (`HeadersFirst`); therefore nobody else commits entries of those
  vouchers, what it deleted is still all there is (`RemovedAll`), and what it
  inserts is one row for each record kept (`AddedAll`). `KeptOne` (of each key of a
  batch exactly one record is kept) is where the deduplication matters, by the
  well-foundedness of the naturals. `EntriesMatch` follows.
- `StoresBatches`: `VoucherStore` implements `VoucherTable`. A commit is the abstract
  `Store`, the end of any other transaction `Drop`, its beginning `Ask`; the
  statements in between stutter.

**Client and health checker** (`TallyClientProofs`; answers, chunks and reads of any
length).

- `StreamKeepsOrder`, `CallsReturnWhole`: what the reader was given, the buffer and
  what is still on the wire are the answer. That a read gives a prefix and keeps
  the rest is one lemma on sequences; a stream returns only when buffer and
  wire are empty and nothing cut it short, a request only with the last answer.
- `OnlySilenceIsRetried`: each post but the last got no answer, or half of one.
- `HealthStaysFresh`: the cached result is that of a probe which began at the
  cache's time, not before the last `invalidate()` (`CachedInv`); the check in
  progress began after both (`CheckingInv`), so what it writes to the cache is never
  older than what it finds there.

**Agent** (`AgentProofs`).

- `ConnectionsHold`: the invariant adds to the sum of free and busy connections
  that a thread which holds one still has an entity to do, so that each way out of
  a sync finds the connection it returns, and that the pool is there whenever the
  scheduler is. It needs `AgentAssumption`: `pool_size` is positive and
  `max_overflow` not negative (to SQLAlchemy, 0 and -1 mean "no limit", which is no
  pool that can run dry), the tasks are finitely many, and the types that pydantic
  enforces.

**Database** (`DatabaseProofs`; any companies, objects, saves, syncs, migrations).
All five follow from one invariant, `DatabaseInv`, the last with `Revised` beside it:

- `Typed`; `Placed`: an entity's table has rows of that entity only, keyed by the
  company they are of; `Archived`: the archive exists exactly at the newest revision,
  has only AlterIDs that Tally has given, and only contents that the history has too;
  `Stored`: `SkippedIsStored` at every revision.
  `Archived` is why a downgrade does no harm: the archive goes before any table that
  it speaks of, and comes back empty (`ArchiveDropped`, `ArchiveCreated`); `Lasts`
  says that the steps in between do not bring it back.
- `SkippedAreStored`, `OthersAreUntouched`, `FullSyncCatchesUp` and `CountsAreTrue`.
  The sync's statements go through chunks and repetitions: `BatchIs`, `UpsertTwice`
  and `ArchiveAfter` say what is left of them, for any answer; `ExportsHave` says
  that a whole export has every object of the scope, which is what a full sync
  needs to catch up. `IsFiniteSet(Objects)` is assumed, for the counts.
- `SchemaAlwaysServes`: `SchemaServes`, after any number of migrations up and down.
  `Revised` says that the tables are declared as those of the revision. What a
  migration does to rows depends on the rows, but what it does to declarations does
  not: its steps are a *walk* over declarations (`Walks`), and `WalkServes` says that
  a walk over declarations is never refused and ends where it should, whatever rows
  there are. `CreatesWalk` and `DropsWalk` are the walks of a group of tables,
  `WalkOn` joins two, and `PathWalks` puts those of the three revisions together for
  every path. `NewestServes` compares the newest revision with the ORM models and
  with the conflict columns of the ten repositories.

**Exports** (`TallyExportProofs`; any objects, codes, lines, reports).

- Each extractor takes back what the report makes of a value (`AmountBack`,
  `QuantityBack`, `RateBack`, `DateBack`, ...), so each parser takes back an element
  (`BuildMeans`); `AmongMapped` says that the parser's loop over the elements of the
  lines picks those of the lines that have a name. `ExportInv` says that the answer
  is the elements not parsed yet after the cleared ones, that bytes taken and not
  yet done with are those of the first element that is not cleared, and that each
  row is the record and the bytes of its object. `RecordsMeanObjects` and
  `RawGivesObject` follow.

The loops of the code are recursive functions. `LoopTheorems` proves, from the
well-foundedness of the naturals, that such a function exists (`LoopExists`) and
that what its first turn has and every turn keeps holds of the last one
(`LoopKeeps`); this takes the place of induction over data.

## 5. What is only model-checked

All liveness (`DueConverges`, `EveryTransactionEnds`, `EverySaveSynced`,
`StopEnds`, `CallsEnd`): liveness under fairness, and `ENABLED` with it, is out of
the prover's reach. The four properties of 3.1 are violated, and TLC shows how.

## 6. What is not modelled, and why

- In the parsers: `integer`, `text_list`, e-mail and address, the unknown tags, GST
  details (the parser reads them, no report exports them), the encoding of bytes.
- The order of contents in the history: a content that comes back is no new version
  (`uq` constraint, on purpose).
- The status route: it reads two tables, and its checker has an empty cache.
- The legacy pipeline (`base.py:199-221`): no service reaches it.
- Deletions in `Database`: no code removes a row when an object is deleted in
  Tally; `SyncService` has them, since names become free. An object that appears
  twice in an export in different states is in 3.1.
- What the white space after an element does to its hash: it is part of the raw
  bytes (`parser/base.py:77`; `tail` in `TallyExport`) and depends on the element's
  place in the answer. At worst a record counts as changed once more.
- The name of a company is put into a request unescaped (`tally_sdk/builder.py:48`):
  what Tally makes of it is external.
- Waits of the back-off, timeouts as numbers, XML, hashing.
- Vouchers that share a number and type while both live: Tally allows it when
  told to; `VoucherStore` has them within a batch and `Database` among orders,
  `SyncService` has unique names.
- What a `requests.Session` shared by threads does (`tally_client.py:12-13`
  forbids it, `agent.py:55-75` does it): code of a library.
- Other exceptions in `Agent.start` than that of the cron expression (a database
  driver that is not installed, an API whose modules do not load): they end as
  that one does.
- Columns, types and indexes that no upsert names; PostgreSQL's own checks of data.
- Logging, the commands, the installer, the scripts: I/O without state of the
  system.

## 7. Plan

Done: the core (`SyncService`, `VoucherSync`, `VoucherStore`), the client with its
health checker, the reports and parsers, the agent with its settings, the schema
and the shared database; the theorems of section 4.

Left: a composition of `VoucherSync` with `VoucherStore`, the archive, the
checkpoint and the pieces of the vouchers in one transaction. It would relate
`EntriesMatch` and `PassedIsKept`, each of which is proved of its own module.

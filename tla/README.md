# RollbackKit in TLA+

RollbackKit lets an application run *actions* that can be undone. It records
every run of an action in an audit trail, together with the snapshots the undo
restores from, the side effects the action had and the conflicts that refuse
its undo. This directory holds TLA+ modules translated from the source, TLC
configurations that check them on small instances, and proofs that TLAPS
checks. `PROJECT.json` lists the components, the runs, the source lines of every
definition, the hazards of the code and the theorems.

- [The system](#the-system)
- [Modules](#modules)
- [Runs](#runs)
- [Bounds](#bounds)
- [Fairness](#fairness)
- [What disagrees with the documentation](#what-disagrees-with-the-documentation)
- [Proofs](#proofs)
- [Not modelled](#not-modelled)

Run `tlc -config MemorySafety.cfg MCMemoryRuntime.tla` to check an instance, and
`tlapm PostgresRuntimeProofs.tla` to check proofs.

## The system

| Component | State it keeps | Operations | Correct when |
|---|---|---|---|
| Core runtime (`packages/core/src/runtime`) | none between calls; per call a run, a transaction, conflicts kept in memory | `execute`, `undo`, `preview`, reads | each run is executed once and undone at most once; a failed step leaves only its mark; audit and product agree |
| Idempotency keys (`idempotency.ts`) | none; the claim is in the store | canonical input, hash, comparison with the claimed run | one run for one name, actor, tenant and key; a different input under the same key is refused |
| Memory store (`memory-storage.ts`) | four maps, one identifier counter, a promise chain that serialises writes, per-run locks | create, claim, update, record, read, `withTransaction`, `withActionRunLock` | a rollback removes exactly the writes of its own transaction; no writer starves |
| PostgreSQL store (`packages/postgres/src/store.ts`) | four tables, row locks, one connection per call | the same interface, in SQL | the same, with connections that fail between any two statements |
| Migration runner (`migration-runner.ts`) | a table of applied migrations and checksums, an advisory lock | `migrate`, `getMigrationStatus`, `getAppliedMigrations` | the schema grows by whole releases, each applied once and recorded as it ran |
| History queries (`queryActionRuns`) | none; a cursor held by the client | filtered, ordered pages | both stores give one page; following cursors shows each run once and misses none |
| Registry, input, target, authorization | the registered actions | refuse a request before anything is written | a refused request changes nothing |
| Demo actions (`apps/demo-next/lib/server/actions`) | rows with versions | execute, checkConflicts, undo | an undo never overwrites a newer change |
| Demo pages, dialogs and server functions | a page of rows and runs to undo, for each control a dialog with a preview and one idempotency key | open, preview, confirm, retry, close, undo, render again | one opening makes one run; an answer reaches the dialog that asked; a dialog that finishes has taken effect |
| Command line, page layout, docs tooling | none | argument parsing, rendering | presentation only |

How they interact. `execute` claims a run in the store, and only the call that
created the run goes on: inside `withTransaction` it marks the run `running`, lets
the handler of the action write snapshots, side effects and product data, and
marks it `completed`. If anything throws, the transaction is rolled back and the
run is marked `failed` *after* it, in a write of its own. `undo` takes the lock of
the run, checks that it is `completed`, undoable and inside its window, commits
`undo_running`, and then opens a second transaction that reads the conflicts and
side effects of the run, calls `checkConflicts` and the undo handler, and marks
the run `undone`. If anything throws there, the run is marked `undo_failed` and
the conflicts recorded meanwhile, kept in memory because the transaction that
surrounds them is rolled back, are written one by one.

What is hard. Every status is written by an unconditional `UPDATE ... WHERE id`,
so its correctness rests on who may be about to write it. Calls interleave at
every `await` (memory) or statement (PostgreSQL). Between the committed
`undo_running` and its settlement nothing holds the run. A rollback in the memory
store replaces the *whole* store by a captured one. A lost connection can leave a
run without its mark, and a lost answer to `COMMIT` leaves its caller without the
outcome. Deployments of different releases migrate one database at once, each
with its own idea of the list of migrations, and what one records another reads as
evidence. The demo's handlers read rows, save a snapshot and write by what they
read, while other transactions and other clients write the same rows; their undos come
minutes later. A page shows what was true when it was rendered, and a dialog opened on
it keeps its key and its preview while answers get lost, calls are retried and the page
under it is rendered again. `PROJECT.json` lists these under `hazards`, each at its line.

## Modules

| Module | Models | Source |
|---|---|---|
| `LifecycleRules` | the fields and statuses of a run, and the decisions that read one run: undoable now, tenant matches, same claim, same request, undo deadline | `runtime-errors.ts`, `lifecycle-helpers.ts`, `lifecycle.ts`, `idempotency.ts` |
| `MemoryStorage` | the maps of the memory adapter and the body of each operation, as functions from a store to a store | `memory-storage.ts` |
| `MemoryRuntime` | `execute` and `undo` over that store, for concurrent calls in one process | `rollbackkit.ts`, `snapshot-bindings.ts`, `memory-storage.ts` |
| `PostgresRuntime` | `execute` and `undo` over tables, transactions and row locks, with connections that may be lost | `rollbackkit.ts`, `store.ts`, the migrations' tables |
| `ActionLifecycle` | the abstract specification: what the audit trail promises, whatever stores it | the `StorageAdapter` interface and the lifecycle types |
| `MigrationRunner` | runners with a connection and a bundle each: the advisory lock, the table of records, the legacy backfill, the transaction that migrates | `migration-runner.ts`, `database.ts` |
| `MigrationHistory` | the abstract specification: a schema brought up to date by whole releases | `migration-runner.ts` |
| `ActionHistory` | the history of an audit trail that moves as `ActionLifecycle` says, read page by page from either store | `memory-storage.ts`, `store.ts`, `storage/types.ts` |
| `DemoActions` | the demo's three actions and their undos, statement by statement on the product tables, with row locks, unique indexes, foreign keys and other clients | `actions/*.action.ts`, `repositories/*.ts`, `schema.sql` of `apps/demo-next` |
| `DemoClient` | the demo's pages, dialogs and undo buttons in several tabs, and the server functions they call, over `ActionLifecycle` | `demo-dashboard.tsx`, `use-previewable-demo-action.ts`, `app/actions/*.ts`, `*-control.tsx`, `demo-action-service.ts` of `apps/demo-next` |
| `MCMemoryRuntime`, `MCPostgresRuntime`, `MCMigrationRunner`, `MCActionHistory`, `MCDemoActions`, `MCDemoClient` | values of constants for TLC, and the refinement mappings to the abstract specifications | |
| `ActionLifecycleProofs`, `LifecycleRulesProofs`, `MemoryRuntimeProofs`, `PostgresRuntimeProofs`, `MigrationRunnerProofs`, `ActionHistoryProofs`, `DemoActionsProofs`, `DemoClientProofs` | theorems and proofs | |

`MemoryRuntime` and `PostgresRuntime` have the same shape. `stage[c]` says what
call `c` does next, so an action is the code between two awaits (memory) or one
statement (PostgreSQL), and its name is that of the code or of what it does:

| Code | MemoryRuntime | PostgresRuntime |
|---|---|---|
| checks before the first write | `RequestExecute`, `RequestUndo`, `RejectRequest` | the same |
| `createActionRun`, `claimActionRun`, comparison of the request | `ClaimActionRun` | `InsertActionRun`, `SelectExistingRun` |
| `withTransaction` and `running` | `Enqueue`, `BeginExecute` | `BeginExecute` |
| the execute handler | `HandlerRecords` | `HandlerRecords`, `HandlerApplies` |
| `completed` | `ExecuteReturns` | `ExecuteReturns`, `CommitExecute` |
| the catch of `execute` | `ExecuteThrows`, `MarkFailed` | the same |
| `withActionRunLock` | `LockAndClaimUndo` | `LockActionRun`, `CommitLock`, `LockThrows` |
| the checks of stored conflicts and effects | `BeginUndo` | `BeginUndo` |
| `checkConflicts` and the undo handler | `DeferConflict`, `EnterUndoHandler` | the same, `HandlerReverts` |
| `undone` | `UndoReturns` | `UndoReturns`, `CommitUndo` |
| the catch of `undo` | `UndoThrows`, `MarkUndoFailed`, `FlushConflict` | the same |
| a conflict the application records itself | `RequestReport`, `ReportConflict` | the same |
| the process or connection dies; the answer to `COMMIT` is lost | | `LoseConnection`, `LoseCommitAnswer` |

What stands for what. A field that may be `undefined` is a set of at most one
element, so that `===` is equality of sets. An input stands for its canonical JSON,
so two equal inputs are two inputs with the same hash and text. A transaction of
the memory store is the captured store in `saved`; a place in the promise chain
`#transactionLock` is a place in `queue`, and the code's `withTransaction` within a
transaction joins it, which is why writes of a handler need no place of their own.
In PostgreSQL, `pending[c]` holds what the open transaction of `c` has written and
`rowLock` who holds a row; a conflict is inserted with a foreign key to its run, so
it waits for `FOR UPDATE` and not for an update of the status. `product` stands for
the tables of the product that handlers change on the same connection.

`ActionLifecycle` does not know `running`: an execution that throws takes the row
back to `created` before it is marked `failed`, and both are the phase `pending`.

In `MigrationRunner` a step is one statement too. Every operation takes the advisory
lock of its session (`AdvisoryLock`, or `AdvisoryLockTimesOut` with
`advisoryLockTimeoutMs`) and gives it back (`Unlock`); an unlock that fails is swallowed
(`UnlockFails`), and then a connection that lives on keeps the lock, once for every
time, as PostgreSQL counts. Between them `migrate` makes the table and its checksum
column and stamps legacy rows (`CreateTable`, `AddChecksumColumn`,
`ReadLegacyChecksums`, `Backfill`, `SetNotNull`), reads the rows, and if something is
pending opens a transaction that locks the table, reads the rows again, runs the
pending migrations and commits (`Begin` to `CommitMigrations`). `log` is the committed
table, `schema` the migrations whose SQL took effect. A migration is an id and a
checksum, and `compatible` are the checksums of earlier texts it accepts. The order
of ids stands for that of the texts the code sorts by.

`DemoActions` looks inside what the runtime modules call the product. A call executes
an action or undoes a run, in one `READ COMMITTED` transaction: it sees the committed
`rows` under what it wrote itself (`View`), and a statement waits for the rows it matches
(`Write`, `Free`) and then looks at them again. A row carries its `xmin` as `revision`:
the call or edit that wrote it. The handlers of one action are its definitions
`Read...`, `Check...`, and those named for the repository function or handler; `Refuse`
is a handler that throws, with the conflicts it recorded flushed at once, and what
happens around handlers (claims, locks of runs, lost connections) is left to
`PostgresRuntime`. Other clients run one statement at a time: a role, an owner (or
the same owner again, which only renews the revision), a deleted project, a new member.

`ActionHistory` extends `ActionLifecycle` by a clock reading for each run and by a client
that follows cursors. `ReadMemory` is `queryActionRuns` of the memory store: sort what
matches, find the cursor, cut there. In PostgreSQL the query reads the run of the cursor
first (`ReadCursor`) and selects by its time and identifier in a second statement
(`SelectPage`), and runs move in between. A cursor that does not exist, or whose run no
longer matches the filter, is ignored in both. An identifier is a number for the place of
its text: the model takes the order of `localeCompare` and that of the database's
collation to be one. Bound: what happens after the last page is left out.

`DemoClient` puts a user in front of the lifecycle. `page[t]` is what tab `t` shows,
`dialog[t][c]` the dialog of a control (its key, its preview, whether it shows an error),
`calls` and `undos` what was asked of the server. A run is named by the key it was claimed
with. A call is `sent`, then `working` on the run it claimed (`Claim`), then answered `ok`
or `error`; `ReturnExistingRun` is the answer to a key that is there already, and every
error, a lost connection and a row that is gone among them, is the same answer to the
dialog. `Kept` is the key a dialog sends, `Asks` what a control asks for when the page
shows a value, `Refresh` a page rendered again. A call that is not `heard` was made by a
page or row that is gone. The calls of a tab are independent, of which the queue of
Next.js is one order; several dialogs may be open at once, because the backdrop stops a
pointer and not the keyboard. A page is read in one step. The product is one value for
each row; what happens inside an action is `DemoActions`.

Operators whose comment starts with *Fault* are deliberately wrong versions of the
definition that follows them. No specification uses them; each documents a bug the
properties tell apart from the code.

## Runs

| Run | Question | Properties |
|---|---|---|
| `history` | do the two stores give the same page, is a client that pages through a moving history shown every run once, does every page lead on and paging end, and does the lifecycle underneath keep what is settled? | `StoresAgree`, `NoRunTwice`, `NothingMissed`, `HistoryIsKept`, `PagingGoesOn`, `PagingEnds` |
| `memory_safety` | can two calls settle one run, can a rollback take back an outcome or a record of another call, do an undo and a report of a conflict get in each other's way, do requests that share a key make one run, and is every step a step of the lifecycle? | `TypeOK`, `OpenRunsHaveOneOwner`, `AcknowledgedIsKept`, `FailedRunLeavesNothing`, `UndoSeesNoConflict`, `AuditIsAppendOnly`, `ImplementsLifecycle` |
| `memory_liveness` | does every call end, and are deferred conflicts all stored? | `EveryCallReturns`, `ConflictsReachTheAudit` |
| `postgres_safety` | do the audit and the product agree through lost connections, lost answers and lock timeouts, and is every step a step of the lifecycle? | `TypeOK`, `AuditMatchesProduct`, `OneOwnerPerRun`, `AcknowledgedIsKept`, `RecordsFollowCompletion`, `ImplementsLifecycle` |
| `postgres_liveness` | though a connection may be lost, does every call end, does every other run get its mark and every other conflict its row? | `EveryCallReturns`, `EveryRunIsMarked`, `ConflictsReachTheAudit` |
| `migration` | whichever release migrates first, and whatever fails, does the schema grow by whole releases, do its records tell what ran, is a successor ever refused, does every operation end? | `TypeOK`, `LogMatchesSchema`, `ReadsStayCurrent`, `SuccessorIsAccepted`, `MigratedStays`, `RecordsAreKept`, `ImplementsHistory`, `EveryCallReturns` |
| `demo` | does a snapshot describe the rows that are replaced, does an undo overwrite nothing newer, and can changes be undone in reverse order, while other calls and clients write the same rows? | `TypeOK`, `SnapshotIsTrue`, `UndoTakesBack`, `ReverseOrderUndoSucceeds` |
| `demo_client` | does one opening of a dialog make one run, does an answer reach the dialog that asked, has a dialog that finishes taken effect, through lost answers, retries, reloads and pages rendered again? | `TypeOK`, `OneRunPerOpening`, `AnswersMeetTheirDialog`, `FinishedHasTakenEffect` |
| `memory_handler_conflict`, `demo_unrecorded`, `demo_client_preview`, `demo_client_retry` | what the documentation says and the code does not do (below) | one each |

The refinements matter most. `ImplementsLifecycle` says that every interleaving
of calls over either store looks, in the audit trail, like single steps of
`ActionLifecycle`. So the invariants of `ActionLifecycle`, which are proved, hold of
both stores: the runs show it on these instances, the proofs for all.

`postgres_safety` covers a disagreement no unit test would meet: the handler's
product change and the row `completed` are in one transaction, and so are the
restoration and `undone`, while `failed`, `undo_running` and `undo_failed` are written
outside it. `AuditMatchesProduct` says that a reader of the committed row knows
whether the change is there, whichever statement a connection was lost at. That one key
makes one run is part of the refinement (`Claim` of `ActionLifecycle`), and so is whether
the insertion looks at the right rows (`FaultyClaimed`); that the two partial indexes
decide it among concurrent insertions is PostgreSQL's, and `InsertActionRun` takes it so.

In `migration`, `ImplementsHistory` says that three deployments, one of which bundles
its migrations in a way the others exclude, never mix: each step of the schema is the
rest of one bundle, from exactly where the database stands. `SuccessorIsAccepted` is
what a team that deploys the next release relies on: the order of `applied_at`, which
the code insists on for ever, is the order of ids because the advisory lock is taken
before the clock is read.

`history` checks a cursor that is a run and not a position. `NoRunTwice` has one exception,
which is in the code: a client that filters by status and whose cursor moves on to another
status gets the first page again. `NothingMissed` says that even this client is shown every
run that matched all the time. `PagingGoesOn` says what each page does, however many come:
it leads on to older runs, unless the run of its cursor has left the status, and no run
sends a client back twice. So the client may be sent back for as long as runs come and move,
which nothing in the code limits, and `PagingEnds` excepts a client that again and again is.

In `demo`, `SnapshotIsTrue` is where the three comparisons of `member.remove` meet: the
snapshot is read in three statements before anything is locked, and what makes it true
at the commit is the count of cleared links, the comparison with `xmin`, and the foreign
key that refuses the deletion while an unseen link exists. `ReverseOrderUndoSucceeds` is
the other half of `UndoTakesBack`: refusing everything would be safe. Its exception is
real: archive a project, remove its owner, undo the removal, and the archive cannot be
undone, because clearing and restoring the link renewed the revision of the project.

In `demo_client`, `FinishedHasTakenEffect` is about the retry. The dialog keeps its key, and
a run that is there is the answer whatever became of it. So a confirmation repeated after an
error may be answered by a run that failed or was stranded, and the dialog closes as if all
went well. The property says that this happens to no dialog that has not shown an error.

## Bounds

- *Calls*: 3 (2 where a run is to be violated). Two calls meet on a run only after a
  third has executed it, so three calls are the smallest number in which two undos, or
  an undo and a report, compete.
- *Inputs, keys, tenants*: one key, and the choice to have none. `memory_safety` has two
  inputs, so that one key comes with another request; `postgres_safety` has an optional
  tenant, because each case has an index of its own.
- *MaxTime* 1 with a window of one tick in the liveness runs: an undo can be requested,
  queued or locked before its deadline and reached at it. The safety runs have no
  window: no safety property reads the clock.
- *MaxRecords* 1 (memory): one snapshot and one side effect distinguish a run with
  records from one without. `Effects` holds one effect that is completed and not
  undoable, the only kind that changes what the runtime does.
- *MaxDeferred* 1, and 2 for liveness, where the flush must write the second too.
- *MaxLost* 1: a lost connection ends its call, and the others meet what it left.
- *MaxId* bounds the identifiers of the refinement mapping by what the calls of an
  instance can use up.
- *Runners* 3, with one bundle that extends another, with a corrected text that accepts
  the former one, and one that skips a migration. One has `advisoryLockTimeoutMs`, one
  the unsafe backfill, one a connection that ends with its call. *Origins* are a fresh
  database and two from before checksums.
- *MaxCalls* 3 (of all runners together) lets each runner migrate once, or one of them
  come back to what another left; *MaxFaults* 1 is one failed unlock or one lost
  connection, and statements may fail without a bound; *MaxTime* 1 separates the
  clocks of two transactions. The clock is the server's and is taken never to go back:
  `SuccessorIsAccepted` rests on it, because the order of `applied_at` is then that in
  which the lock was held.
- *The demo's workspace*: one project and one document of one admin, and a second member
  who is there or not, so that an email is free to be taken. There are four calls, which is
  two runs and two undos, and one edit (*MaxEdits*); *MaxWork* allows four of both together,
  so that either an edit or the fourth call is there. With one row in a table, a statement
  on several rows is one on that row.
- *History*: three runs, two times and two scopes, so that runs share a millisecond and a
  filter leaves one out, and three queries with a limit of one, of two and none: a client
  needs three runs to stand between two of them. Each run can be lost as a cursor once, so
  in an instance a client is sent back three times at most, the exception of `PagingEnds`
  never comes true and every client reaches the end. With runs that keep coming it can, and
  then nothing is said of the client. A client that is not sent back for ever ends in the
  code because `PagingGoesOn`, which is proved for any number of runs, leads it to older
  runs page by page, and because runs are created with the time of day: those older than
  its cursor do not go on growing. In the instance `Times` and `Identifiers` stand for the
  latter, so a clock that stands still for ever is outside it. The phase
  `pending` is the status `created` to other connections of PostgreSQL; in memory it is
  `running` as well, between which a rollback moves a run back, and a client that filters
  by one of these two can be sent back by one run more than once.
- *The client*: one tab, one member with two controls, of which one turns a role to and fro
  and one removes the row, and two keys: two dialogs, or one opened twice. The proofs need
  no such bound.
- *MaxLost* 1, *MaxTime* 1 and *MaxDeferred* 1 in `postgres_liveness`: a call is stranded
  while another waits for its row.

Calls are interchangeable, and so are inputs: `SYMMETRY` permutes them in the safety
runs of the runtimes and of the demo; the other runs do without it.
`CHECK_DEADLOCK FALSE` is set where calls end and nothing else can happen in an
instance; `EveryCallReturns` says that no call stops before its end. The demo's runs
check for deadlock instead (`Settled` is the only way to stop): removals and their undos
lock members and things in opposite orders, and never wait for each other in a circle.

## Fairness

`FairSpec` adds `WF_vars(Advance(c))` for each call: once a call has begun, it goes on
as long as it can. In the memory runtime that is the event loop, which runs every
settled promise, and the handlers of the application, which are assumed to settle.
Over PostgreSQL it is the server answering statements and granting a row lock once
it is free: weak fairness is enough, because a transaction that holds a lock ends
and nobody can take the lock of one run for ever. For the migration runner it is the
same of statements and the advisory lock; that an instance has finitely many requests
keeps the lock from being taken by others for ever, as PostgreSQL's queue of waiters
does. `FairHistorySpec` has the client read on, and nothing else: no run need ever be
created or settled, and none need ever stop. That a client with a status filter reaches the
end is not a matter of fairness, because traffic may send it back each time, and
`PagingEnds` does not claim it. Requests, ticks, failed statements and lost connections are
never fair: no property relies on them. `EveryCallReturns` excepts a runner without a timeout that
waits for a lock leaked by a failed unlock on a connection that lives on (`Blocked`): it
waits until that connection ends.

## What disagrees with the documentation

1. `SECURITY.md:101` says RollbackKit "refuses undo after conflict records are created,
   even if the conflict check does not throw." `undo` looks at the recorded conflicts
   once, before the undo handler (`rollbackkit.ts:365`). A conflict that the handler
   records neither refuses the undo nor is stored (`memory_handler_conflict`).
   Over PostgreSQL there is a second way, which reading `BeginUndo` and `ReportConflict`
   together shows: another connection may insert a conflict after the only read of the
   table and before the handler. The memory store serialises such a write, and
   `UndoSeesNoConflict` holds there.
2. `SECURITY.md:215` says the demo "records conflicts when undo would be unsafe." Two of
   its undos can refuse without recording one (`demo_unrecorded`): that of a role, when
   the member is gone or its role changes after the check, and that of an archived
   project whenever its revision changed, which the check does not compare.
3. `DEMO_APP.md:27` says a user should understand "what action is about to happen". The
   dialog keeps the preview it was opened with, and confirms what its control asks for now:
   if the page is rendered again in between, these are two things (`demo_client_preview`).
4. `CORE_LIFECYCLE.md:52` says "A retry with the same action, actor, tenant, key, input and
   target returns the existing action run." `execute` resolves the target before it looks at
   the key, so a retry of `member.remove`, whose target it removed, throws instead
   (`demo_client_retry`).

Some things need no run to be seen. When a connection is lost a run may stay `created` or
`undo_running` for good: nothing marks it later, a retry with its key returns it as it is,
and only a `completed` run can be undone. `EveryRunIsMarked` says that this is the only way.
`TROUBLESHOOTING.md:111` says recent builds backfill the checksums of bundled migrations;
`migrate` does so only with `unsafeAllowLegacyChecksumBackfill`, which the command line
that the guide advises to rerun cannot set (`ReadLegacyChecksums`).

## Proofs

All theorems hold for every value of the constants that meets their assumptions:
`DefinitionsAssumption` of the runtimes (undoable actions are actions, windows are natural
numbers), `BundleAssumption` of the runners (`assertUniqueMigrationIds`, of every bundle
and of what ran before), `HistoryAssumption` of the history (types; a client asks for one
run at least), `ClientAssumption` of the demo's pages (types) and `SeedsAssumption` of the
demo's tables: a row is of one table, and those there to begin with are older than all calls
and have emails of their own, as the unique index demands.

`ActionLifecycleProofs` proves type correctness, that a claim stands for one run,
that what was undone was undoable, and that settled runs never move. The invariants
are inductive as they stand, and the last one is a property of every step.

`MemoryRuntimeProofs` proves the invariants and the action property of `memory_safety`,
and its refinement. None of the invariants is inductive: a rollback brings back a whole
earlier store, so what the captured stores hold matters as much as the current one.
`IInv` adds this:

- `LockInv`: a store is captured exactly while the handler of the call at the head of the
  queue runs, and a call that waits has captured nothing;
- `StoresInv`: what holds of the records of the current store holds of the captured one;
- `OwnerInv`: a call works on a run that exists and has the status of its stage, a run has
  one such call, and an open run has one;
- `SavedInv`: the captured store and the current one differ by the status and the records
  of the one run whose handler runs, so a rollback takes back nothing else.

`Initially` and `Inductive` give `Spec => []IInv`; the proof has a lemma for each
operation of the adapter, and for each part of `IInv` one per kind of action. The refinement maps each step to a
step of `ActionLifecycle` on `AuditRuns` or to a stutter: beginning a transaction,
records, conflicts and the rollback of `running` to `created` are stutters, and a claim
that finds its run is one. What `ActionLifecycleProofs` proves then holds of the stored
runs (`StoredRunsKeepThePromises`).

`PostgresRuntimeProofs` proves type correctness. It is inductive only together with
`FlushIsPending`: a call that is flushing has a conflict left to write, or else its
counter would drop below zero.

The other invariants of `postgres_safety` are not inductive either: that the committed row agrees with
the product after a `COMMIT` depends on what the transaction has written, and that on
which stage its call is in. `IInv` adds this:

- `RunsExist`: a call works on a run that exists, and a run that does not has left
  nothing in any table;
- `ExecutorsOwn`: until an execution is settled its run is `created` and belongs to the
  call that inserted it;
- `UndoersOwn`: until an undo is settled its run is `undo_running` and belongs to the
  one call whose transaction committed that status;
- `LockersHold`: between its check and its `COMMIT`, `withActionRunLock` holds the row and
  the row is `completed`, which is why two undos cannot both commit `undo_running`;
- `PendingMatchesStage`: what the open transaction of each stage will commit.

The proof splits `IInv` into `RowInv` (committed rows) and `TransactionInv` (open
transactions). Most actions are *quiet*: they change neither the rows nor any stage
the invariant reads, and one lemma covers each kind. The rest are the insertion of a
run, the choice of one, the three `COMMIT`s, the two marks outside a transaction and
the rollback; each has a lemma.

The same module proves that the committed rows implement `ActionLifecycle`: the
three `COMMIT`s (whose answer may be lost), the two marks and the insertion are its steps,
every other statement a stutter. `IInv` does not say what an undo found when it looked at
the side effects, so `EffectsInv` adds that it stays true until its `COMMIT`, that an undo
writes no side effects, and that a locked row is undoable. `LifecycleRulesProofs` has the
lemmas on claims and phases that this refinement shares with that of the memory runtime.

`MigrationRunnerProofs` proves the invariants and the action property of `migration`, and its
refinement. `IInv` adds to four of the invariants `OneHolder` (two sessions never hold the advisory lock) and, for each runner,
that it holds the lock wherever it reads or writes the table and that what its transaction
has applied, and has yet to apply, is unrecorded and has no id twice (`RunnerInv`,
`Unrecorded`). Hence a runner that writes is alone (`Alone`), no other relies on what it
changes (`OthersRely`), and its `COMMIT` adds to the rows exactly what it adds to the schema
(`RecordsAdd`, `CommitKeepsRecords`). `SuccessorsAreAccepted` needs the order of time as
well: `TimeInv` says that a transaction began no earlier than any row, because it began
under the lock, and `Position` counts the ids up to one, which is how
`assertAppliedMigrationsAreBundledPrefix` compares rows and bundle.

`BundlesStay` and `RunnersImplementHistory` have one hypothesis more, `Ordered`: bundles,
and what ran before there were checksums, are in the order of their ids, as those of every
release are. Without it both are false, because nothing checks it: a bundle that is not is
applied in its own order, and a sorted one with the same migrations then finds nothing to do
on another schema than its own. `OrderInv` says that the schema stays in order and that a
transaction has run the migrations that come next in its bundle (`Continues`). Its base is
`AcceptedGoesOn`: the code compares a *set* of rows with its bundle, by their rank, and this
lemma says that rows which pass are those of a schema that the bundle goes on from. A
`COMMIT`, answered or not, is then one `Deploy` of `MigrationHistory` (`CommitDeploys`).

`DemoClientProofs` proves the invariants of `demo_client`, for any number of tabs, rows,
controls and keys. `ClientInv` says what tabs, dialogs and calls know of each other: a
control waits for one answer at most, a key is that of one dialog, and the calls with that
key are its own. `RunInv` says what they know of the audit trail. Its heart is `RunsAreKnown`: an open dialog whose key names a run
either waits for the answer of the call that made it or has shown an error. A confirmation
that finds its run is therefore a second one, made by a dialog that has shown an error.

`ActionHistoryProofs` begins with lists. `NewestFirst` chooses the list of a finite set, and
the proofs need to know that there is one and only one: a run has as its place the number
of runs up to it (`Ranks`), which orders any finite set, whatever its size. What is left of
the memory store's list after the cursor, and what PostgreSQL selects below the bound, are
then one set (`StoresGiveTheSamePages`). For the client, `HistoryInv` adds to `NoRunTwice`
and `NothingMissed` that everything shown is as new as the cursor or newer (`ShownInv`),
and that what is expected and was not shown is older (`ExpectedInv`). `LeftInv` says that a
run that was shown matches still or has left the status for good, because phases only go on
(`Order`); that is why the same run never sends a client back twice. `HistoryRefines` drops clock and client, so that what is proved of
`ActionLifecycle` holds of the history that is read.

`DemoActionsProofs` proves the invariant and the action properties of `demo`, for any
number of calls, rows and edits. `TypeOK` alone says little of the tables, because what a
call writes reaches them only at its `COMMIT`, after other calls and clients have written. `IInv` adds this:

- `Roled`, `RowsFit`: at each statement, the rows a call has written are those `Written`
  says, and each is what `Effect` makes of the row that is *committed* under it. The lock of
  the row keeps this true while others write; it is why a snapshot read before the lock is
  right when the call commits, and why an undo reverts the row it leaves behind;
- `RevisionTells`: a project whose revision is that of a snapshot, or of the run that
  archived it, is still as it was then. It rests on `Revisions`: no committed row has the
  revision of a call that has not committed;
- `LinksAreCleared`: a member about to be deleted owns only what the call has cleared;
- `Exclusive`, `EmailsDiffer`: no two calls hold a row or undo a run, and no two members
  have an email, committed or not.

From these, `SnapshotTellsTheRows` and `UndosTakeBack` need one step. That the last
standing change is never refused its undo does not follow from what any call knows: changes
that were undone in between may have touched the same rows. `Stands` says that there is a
history of tables, one for each change that stands, in which each run has done its action
to the tables before it, and the last of which are the committed ones but for the revisions
that undos gave them (`Like`). A change that is committed, an undo out of order among them,
adds tables at the end; the undo of the last change takes its tables off again, because what
it leaves is like the tables before it (`UndidLeadsBack`). So the undo of the last change
finds the rows its run left, which is what its checks ask for, and the exception of
`ReverseOrderUndoSucceeds` is exactly a revision an undo gave.

| Theorem | Says |
|---|---|
| `ActionLifecycleProofs!TypeCorrect`, `ClaimsAreUnique`, `UndoneIsUndoable`, `HistoryKept` | the abstract audit trail |
| `MemoryRuntimeProofs!TypeCorrect`, `OneOwnerPerRun`, `AcknowledgedStays`, `FailedLeavesNothing`, `UndoIsAlone` | the invariants of `memory_safety` |
| `AuditOnlyGrows` | its action property |
| `MemoryImplementsLifecycle`, `StoredRunsKeepThePromises` | the refinement of `ActionLifecycle`, and what follows from it |
| `PostgresRuntimeProofs!TypeCorrect` | type correctness |
| `StagesTellTheRows` | `[]IInv` |
| `ProductIsAudited`, `OutcomesAreKept`, `FailureLeavesNothing`, `OwnersAreUnique` | the invariants of `postgres_safety` |
| `PostgresImplementsLifecycle`, `CommittedRowsKeepThePromises` | the refinement of `ActionLifecycle`, and what follows from it |
| `MigrationRunnerProofs!TypeCorrect`, `ReadsAreCurrent`, `RecordsTellTheSchema`, `SuccessorsAreAccepted` | invariants of `migration` |
| `RecordsAreNeverRewritten` | its action property |
| `BundlesStay`, `RunnersImplementHistory` | its invariant `MigratedStays` and the refinement of `MigrationHistory`, for bundles in the order of ids |
| `DemoClientProofs!TypeCorrect`, `OpeningsMakeOneRun`, `AnswersAreMet`, `FinishedDialogs` | the invariants of `demo_client` |
| `ActionHistoryProofs!StoresGiveTheSamePages`, `NoRunIsShownTwice`, `NothingIsMissed` | the invariants of `history` |
| `PagesLeadOn` | its action property `PagingGoesOn` |
| `HistoryRefines`, `HistoryIsKeptWhilePaging` | the history is an `ActionLifecycle`, and keeps its action property |
| `DemoActionsProofs!TablesAreTyped` | type correctness |
| `InvariantHolds`, `ChangesStand` | `[]IInv`, `[]Stands` |
| `SnapshotTellsTheRows`, `UndosTakeBack`, `ReverseOrderIsNotRefused` | the action properties of `demo` |

Only model-checked: liveness, because the prover does not reason about fairness
(`EveryCallReturns`, `EveryRunIsMarked`, `ConflictsReachTheAudit`, `PagingEnds`), and the
four properties that the code violates. Every other
property of a run is a theorem (a refinement under the mapping of its MC module).

## Not modelled

- What application code can do with an adapter it owns: nested `withTransaction` (joined
  in memory, a second `BEGIN` in PostgreSQL), writes that a handler did not await, one
  PostgreSQL connection shared by two calls, `withActionRunLock` nested on one run. The
  runtime does none of these, and nothing says what they should do.
- Canonical JSON (`idempotency.ts`): an input stands for its canonical text, so two inputs
  differ exactly when their texts do.
- The `STORAGE_ERROR` of a claim whose existing run is not found (`store.ts:132`): rows of
  runs are never deleted, so `SelectExistingRun` always finds one.
- The undo window: which clock it should start from is open, so no property reads the
  deadline except the liveness runs, which let it pass.
- `preview` of the core and the reads of one run (they change nothing; the preview of the
  demo is a call of `DemoClient`), row mappers and SQL text (pure conversion), the command
  line (one call of the runner and formatting), page layout and the documentation tooling.

# Verification of revisium-engine

TLA+ models of the engine's core, TLC runs over small instances, and proofs
checked by TLAPS. The code is the reference: each definition is translated from
the lines that the `map` of `PROJECT.json` names, and paths below are relative to
`src/src`.

revisium-engine is the versioned store behind Revisium: a library of NestJS
modules over PostgreSQL (through Prisma) that keeps tables of JSON rows in
projects, branches and revisions, much as Git keeps files. Clients edit the draft
of a branch, commit it, revert it, fork branches, migrate a table's rows to a new
schema, and refer to files kept in an object store.

## 1. Inventory

| Component | State | Operations | Interacts with |
| --- | --- | --- | --- |
| Versioned store (`features/draft-revision`, `features/branch`, `infrastructure/database/cleanup.service.ts`) | `Branch`, `Revision` (head, draft, start, parent, hasChanges), `Table` and `Row` versions (readonly, createdId, id), two join tables | create/rename/remove table; create/update/rename/remove rows; commit; revert; commit and revert to a target; create and delete branch; delete orphan tables, then orphan rows | everything below writes through it |
| Asynchronous row migration (`features/migration`) | `TableMigration`: status, lease (`lockedBy`, `lockedAt`, `heartbeatAt`), checkpoint, retries; a shadow table; leases held in each process | start; claim, renew, release; begin copy, copy batch, begin swap, swap; retry, fail; cancel stalled, take over a stalled swap; abort; cancelled by a revert | locks the draft against writes; its swap edits the draft, schema row and ledger |
| File usage (`features/file-usage`) | `FileBlob` (deletedAt), links to rows, `ProjectFileUsage.fileBytes` | register the files of written rows; sweep orphans (in general or of a project); remove a project's usage; validate and restore counters; list and confirm storage deletions; backfill | every row write registers; the row cleanup triggers a sweep; the consumer deletes the objects |
| Transactions, retries, branch fences (`infrastructure/database`) | escalation slots, advisory locks, the connection pool, deadlines | serializable attempts with retries; escalation under a fence; operations with a deadline | wraps every write of a draft, commit, revert and partial change |
| Draft API handlers (`features/draft`) | none of their own; a context per request | about thirty `Api*` commands: admission (fence, then migration lock), validation, system tables, delegation to the store, notification | store, migration lock, file usage, schema ledger, views |
| Partial changes (`features/partial-changes`) | none; a plan and its fingerprint per request | catalogue of units; closure of a selection; assembly and validation of the target; commit or revert it | store (commit and revert to a target), ledger |
| Schema ledger (`features/share/ledger*`, `features/migration`) | rows of the migration system table: patches in an order of ids | record, replay, scan over branches, plan and apply a repair | written with each schema change |
| Revision differences (`features/share/diff.service.ts`, `features/revision-changes`) | none | whether, and where, two revisions differ | commit, revert, hasChanges |
| Previous row states (`features/row/previous-row-states`) | none | pages of a row's earlier versions along its ancestry, by bisection | reads the store |
| Foreign keys (`features/share/foreign-key*`) | none | who refers to a row or table; what a write may refer to; rewriting on rename | draft API, partial changes |
| Schemas, plugins, views (`features/plugin`, `features/views`, ...) | none; views are rows of a system table | computed columns, formulas, migrations of stored views | draft API, swap |
| Queries (`features/row`, `table`, `revision`, `sub-schema`) | none | lists, filters, sorting, pagination | read the store |
| Storage, engine facade | the object store is the consumer's | upload on a write; delegation | file usage |

### What is hard, and what makes each component correct

*Versioned store.* Revisions share versions; a `readonly` flag decides between
copying and editing in place. One wrong flag after a long sequence of forks,
commits, reverts, renames and cleanups rewrites history. Correct means: committed
revisions never change, an editable version has one owner, names are unique up
to case, `hasChanges` is exact, each branch has one head and a draft on it,
ancestry is never cut; in all, that sharing cannot be observed.

*Asynchronous migration.* Any number of processes drive one record by leases that
expire; a driver may be suspended past its lease, die between any two
transactions, or commit late; meanwhile users abort, revert, commit, delete the
branch, and the cleanup deletes unlinked tables. Correct means: no row is copied
twice or skipped, the swap finds what it prepared for, the head is never touched,
readers of the draft see a single change of schema, and a migration ends.

*File usage.* The sweep is a series of separate statements beside writes, other
sweeps and the consumer. Correct means: counters equal the active bytes when no
sweep runs, never fall below them, drift is repaired, orphans are tombstoned, and
what a reachable row refers to is never tombstoned.

*Transactions.* Two levels of locks, a bounded pool from which an escalated
attempt needs two connections, waits that each may expire. Correct means: an
escalated attempt runs alone, nobody waits for ever, nothing is leaked, an
operation that lost twice commits.

*Partial changes.* A client picks any units of a difference; six checks look for
what the choice would break, in rows and tables nobody changed too, and name the
unit that mends it. Correct means: every difference belongs to one unit; whatever
is picked, the closure ends in a choice that leaves head and draft both valid,
and no single unit is out of reach; an operation settles exactly what it applied;
a fingerprint pins what a confirmed commit publishes.

*Schema ledger.* Migrations name tables by public ids, which tables give up and
take over; a partial commit cuts the draft's ledger in two. Correct means: the
ledger of each revision replays to its schemas, a published ledger is only ever
continued, every pending migration goes with one unit.

*Previous row states.* A client asks for one page after another while branches are
committed, forked and deleted, and each page is found by bisection or by a scan,
whichever suits the number of versions at the time. Correct means: both find
exactly the commits that changed the row, pages join up, and nothing a client may
do makes the history of a revision that exists refuse.

*The others.* Draft API: references resolve and schemas name existing tables
after every edit.

`PROJECT.json` lists every hazard at its line with the properties that would catch
it, and a note where none does yet.

## 2. Modules

| Module | Models | Kind |
| --- | --- | --- |
| `Versioning` | the versioned store, one action per handler | detailed |
| `BranchHistory` | commits that hold copies, drafts edited in isolation | abstract |
| `TargetVersioning` | which versions partial commits and reverts link, copy, edit and lock; extends `Versioning` | composition |
| `VersioningProofs` | types, locks and immutability of `Versioning`; heads and drafts; copy-on-write, names and `hasChanges`; that it implements `BranchHistory` | proofs |
| `TargetVersioningProofs` | partial operations: all of these again, and that they reach their target; extends `VersioningProofs` | proofs |
| `AsyncMigration` | the record, its drivers, the draft it locks | detailed |
| `SchemaChange` | a change of schema in one step, with a lock on the draft | abstract |
| `AsyncMigrationProofs` | checkpoints, swaps, the head, and that `AsyncMigration` implements `SchemaChange` | proofs |
| `FileUsage` | contents, links, counters, sweeps, the consumer | detailed |
| `FileUsageProofs` | counters under any number of sweeps, and without one | proofs |
| `BranchFence` | retries, slots, pool, fence | detailed |
| `BranchFenceProofs` | slots, fence, and an escalated attempt's company | proofs |
| `DraftContent` | what the draft API writes: tables, schemas, rows, references | detailed |
| `PartialChanges` | units, closure, assembly, commit and revert of a selection; extends `DraftContent`; `ContentSpec`, the same without a closure | detailed, abstract |
| `PartialChangesProofs` | heads and drafts that hold together, units, fingerprints and closures; that `PartialChanges` implements `ContentSpec` | proofs |
| `LedgerReplay` | replaying a ledger of migrations, as operators | algorithm |
| `SchemaLedger` | the ledgers of head and draft under native and partial operations; extends `PartialChanges`, instantiates `LedgerReplay` | composition |
| `SchemaLedgerProofs` | ledgers that are continued; that `SchemaLedger` implements `ContentSpec` | proofs |
| `RowHistory` | the earlier states of a row, read page by page beside commits, forks and deletions | detailed |
| `RowHistoryProofs` | histories are complete and their pages join up | proofs |
| `MC...` | constants, symmetry and views of the instances, one per model | model checking |

### Versioning

The state is the database: `revision`, `table`, `row` are the relations, by id or
version id, `tablesOf` and `rowsOf` the join tables. Handlers run in one
serializable transaction each, so each is one action with all it does: clone what
is readonly, write, relink, compare and set `hasChanges`. Checks that throw are
guards. The cleanup is the exception: its two deletes commit separately and are
two actions. A revision's `parent` chain, the cascade of a branch's deletion and
the reuse of ids are kept; contents of rows are two values, names two values,
`Folded` is the case folding that `ensureTableNotExists` compares with.
`Snapshot(r)` is what a reader of revision `r` sees, down to version ids and data.
`ImplementsBranchHistory` maps commits and drafts to their snapshots (`CommitsSaid`,
`HeadsThere`, `DraftsSaid`).

### TargetVersioning

`Versioning` with the two operations of `draft-revision-target-api`, from the
choice of parts to the locked head, as one more action. `Pairs` puts the versions
of head and draft side by side, `Parts` is where they differ, a request takes some
(`Requests`: none without the rest of its unit, and only with one table and one row
to a name afterwards; what else parts need of each other is the subject of
`PartialChanges`). `TablePlan` follows `outcome-rules.ts` and the assembler: link
the version of one side, or mix a new one out of both, edited in place where the
draft's is mutable. `Written` and `RowsToLockFor` are the writer's statements,
`CommitToTarget` and `RevertToTarget` the handlers, with the relink of a table
that has come to equal the head's (`VersionToLink`). `applied` holds the request of
the last step for the properties. `Target(q)` says, from contents alone, what a
request asks for, part by part; `OperationsReachTheirTarget` compares with it what
a reader finds after the versions have been written. Left out: the renumbered
rows of the ledger's table (`SchemaLedger`), rows that a structure changes
(`PartialChanges`), and revisions with two versions of one logical table, of which
the code keeps whichever the database returns last (see "Met while modelling").

### AsyncMigration

One draft with one table is enough: the record is unique for a draft and table,
and what a driver touches are that table's versions, links and schema row. `record`
is the row of `TableMigration` with time reduced to two flags: `expired` (the
lease's heartbeat is older than the lock timeout) and `late` (no progress within
the stall timeout). `worker[w]` is what a driver holds in memory between its
transactions: the token of its lease, the record as it read it, the batch it
loaded. Each transaction or statement is an action, so that every other may come
between. Workers crash and restart, are suspended past their lease, and fail
transiently or for good. `Versions` may be reused once unreferenced; `Tokens`
are new relative to what other drivers still remember. A lease that is lost
never comes back, so a driver that stops has nothing to release in the model.
A commit carries a record that has ended along; the model drops it there. Left
out: records of an older payload and their disposal, imports with a ledger id,
stored views, notification, and several records in a draft. A table is a number of
copies of each row, so that a row copied twice shows; `CountRows` is what the code
asks of the database by `count`. Readers of the draft are mapped to `SchemaChange`
by `SeenRows`, `SeenSchema` and `SeenPhase`.

### FileUsage

A write registers in its own serializable transaction (one action); a sweep runs
statement by statement (`SweepFind`, `SweepMark`, `SweepReadMarked`,
`SweepDecrement`, `SweepReconcile`, `SweepClamp`, `SweepReport`), and so does the
restoration of a counter (`RestoreRead`, `RestoreSum`, `RestoreSet`). Nothing in the engine calls the sweep, so a deployment may schedule it or not:
`Never` is a sweeper that is never called, and `WritesKeepFilesExact` says what
holds where all are (`NeverSwept`). A sweep's
timestamp is the sweep's own mark: two sweeps that stamp within one millisecond
are a hazard that is listed, not modelled. A backfill, for rows from before file
usage existed (`LegacyInit`), reads row after row into a plan (`BackfillScan`), then
creates, finds, revives and links one planned content after the other
(`BackfillCreate` to `BackfillLink`), each statement on its own beside writes and
sweeps, and may end half-way at any of them (`BackfillFail`); the counter is
restored last. `Bytes` counts the positions in contents, so that sizes may be any
numbers. The consumer runs one repair at a time. A row that projects share
after a fork is left out there. Rows of removed revisions stay until
the cleanup deletes them, which is when their links go.

### BranchFence

A run is a writer (`TransactionPrismaService`) or an operation
(`EscalatingTransactionRunner`). `at` follows an attempt from its slot through
its connections to its fence, its work and the return of each. `queue` is
PostgreSQL's queue of requests for the advisory lock, `shared` and `holder` who
has it; connections in use follow from `at` and `holder`. `rival[p]` tells that
the branch has changed since `p`'s snapshot, which for a writer is taken by the
very statement that waits for the fence, and for an escalated attempt only after
the fence is held. Each wait may expire, each attempt may fail, a holder may be
lost (`Disturb`). The pool has two connections or more: from one, an escalated
attempt can only wait until its limit. Left out: the deadline of `OperationTransactionRunner`, and
conflicts that PostgreSQL finds between branches because its predicate locks are
coarse.

### DraftContent

Head and draft as contents: tables by identity (`createdId`) with their public id
and schema, rows by identity with table, public id, one value and one reference.
A schema is abstracted to its foreign-key field: whether it has one, and the
public id of the table it names. Each handler of `features/draft` is one action
that admits the edit as the code does (unique ids, known tables, references that
resolve, nobody left who refers to what goes) and rewrites what has to follow: the
schemas of referring tables on a table's rename, the rows that store the id on a
row's rename, all rows of a table whose schema gains or loses the field. A field
that is added gives every row the default `''` (`Blank`), which resolves nowhere;
`Admits` refuses it in later writes like the code does. `recorded` is what the
draft has noted of a schema since the head: a pending migration or a patch of the
schema's history (`"structure"`), and an update of the field itself
(`"reference"`); a rename rewrites referring schemas without either.

### PartialChanges

`Units(s)` is the catalogue of a snapshot: units of structure, of a row's
existence, of its id, its value and its reference. `Target(p)` assembles what a
plan describes, side by side for tables (`StructureSide`) and rows (`LoadedRow`,
`MovedRow`, `MergedRow`). `Findings(p)` is the union of the six checks of
`closure/`, each an operator that names the unit it requires, or `None` for what
no unit mends; `Closure` adds required units until nothing changes. `Apply` writes
the target of an unblocked plan (`Write`) as the head's or the draft's content.
`ContentSpec` is what this comes down to without a closure: at any time, some units
of the difference are moved together into a target without findings. Plan and
write are one step because the code runs both in one serializable transaction;
what a client saw before is compared by `Fingerprint`. Requests that exclude
units, or do not accept required ones, apply nothing but what some other
selection applies, and are not told apart. Left out: stored views and shared
schemas (two further kinds of units), the columns beside a row's data (`meta`,
`publishedAt`, `schemaHash`), the limits that refuse a plan as too large, the
scope that reads fewer tables, and refused tables whose head schema cannot be read.
Which versions a target links is in `TargetVersioning`.

### LedgerReplay and SchemaLedger

A ledger is a set of migrations `[id, op, table, to]`, the rows of the migration
table, read in the order of their ids (`InOrder`). The replay follows
slots: a table that the ledger opens, from name to name, broken when a migration
means a table that is not there or takes an id that is held (`Follow`), with the
schema and the failures `ledger-replay.ts` keeps (`AfterMigration`). `Timeline` is
the table ids after each migration. `SchemaLedger` adds a migration in every
native change of a table, and extends the partial operations with the ledger:
which unit a pending migration belongs to (`Owners`, `TransientUnit`), the two
ledgers a plan writes (`TargetLedger`, `Remaining`, `Renumbered`), the check that
asks for the units a moved migration depends on (`LedgerFindings`) and the
validation that refuses a target whose ledger does not replay to it
(`Reproduces`). Ids are numbers here and times in the code; in both the next is
greater than all before. Left out: migrations that a replica imports under given
ids, rows stored under an id not their own, ledgers that fail to reproduce their
schemas from the start (`LedgersReproduceSchemas` shows that these operations
produce none) and their repair.

### RowHistory

One logical row: `commits` has each committed revision, by its sequence, with its
branch, its parent and the version of the row linked there. Drafts are not read, so
whatever a draft did to the row happens with its commit (`Edited`). The ancestry is
a set of intervals of branches (`Lineage`); `Bisected` halves them where their ends
differ and looks at the seams between them, `Scanned` looks at every revision, and
`Introductions` dates each version to its oldest revision. Versions become events
(`IntroducedBy`; a clone that changed nothing is none), events pages (`Rest`,
`CursorValid`). The code scans for rows of more than 100 versions; the model takes
either way for each page. `reader` is a client between its pages: the revision may
be deleted between two of them, or between the two statements of one (`FindGone`).
`PreviousChanges`, which the pages are compared with, walks from parent to parent.
Left out: cycles, ancestries across projects, two versions of one table or row in
a revision; the query refuses each.

## 3. Runs

| Run | Module | Shows | Bounds |
| --- | --- | --- | --- |
| `Drafts` | MCTargetVersioning | types; copy-on-write locks (`CommittedIsReadonly`, `MutableIsUnshared`); `NamesAreUnique`; `HasChangesIsExact`; `CommittedNeverChanges`; `OperationsReachTheirTarget` | one branch, 4 revisions (two commits), 3 table and 3 row versions, 2 names each; partial operations from states without orphans and with one logical table or one logical row (`IsSmall`) |
| `Branches` | MCVersioning | `NamesAreUnique` with names that differ in case; `DraftFollowsHead`; `ImplementsBranchHistory` | three branches, 7 revisions, 2 table and 2 row versions, 2 table names that differ in case, and a third while there are no rows and at most 4 revisions (`OtherNameIsEarly`) |
| `DraftOnlyTables` | MCVersioning | **violation** of `DraftOnlyNeverAutoReverted` | one branch, 4 revisions, 3 table and 3 row versions, 2 names each |
| `MigrationRaces` | MCAsyncMigration | `ShadowHoldsCheckpoint`, `SwapFindsItsSource`, `HeadNeverChanges`, `ImplementsSchemaChange` | two drivers, 1 row, 3 versions, 1 retry, 2 schemas |
| `MigrationEnds` | MCAsyncMigration | `ShadowHoldsCheckpoint` over two batches; `EveryMigrationEnds` | one driver that dies and restarts, 2 rows, 1 retry |
| `Files` | MCFileUsage | `CounterCoversActive`; without a sweep `WritesKeepFilesExact` (`CounterIsExact`, `ReferencedIsActive`) | two sweeps or none, 2 projects (of which one is deleted where sweeps run), 2 contents, 2 rows |
| `FileRepair` | MCFileUsage | `OrphanIsEventuallyTombstoned`, `RepairsConverge` | one sweep, 1 content, 2 rows, which may be older than file usage |
| `FileSweepRace` | MCFileUsage | **violation** of `ReferencedIsActive` | one sweep, 1 content, 1 row |
| `Fence` | MCBranchFence | `EscalatedRunsAlone`, `SlotsAreConserved`, `FenceIsReleased`, `EveryOperationCommits` | two operations, one writer, one branch, pools of 2 and of 4, 3 attempts |
| `PartialChanges` | MCPartialChanges | `TypeOK` (rows conform to their schema), `RevisionsHoldTogether`, `EveryDifferenceHasAUnit`, `EveryUnitCanBeApplied`, `AppliedUnitsAreSettled`, `FingerprintPinsTheHead` | 3 tables and 3 rows of which 2 exist, joined by a foreign key; 3 ids each; 3 native edits, any number of partial operations, commits and reverts |
| `SchemaLedger` | MCSchemaLedger | `LedgerTypeOK`, `LedgersReproduceSchemas`, `HeadLedgerOnlyGrows`, `EveryMigrationHasAUnit`, `EveryUnitCanBeMoved`, `MovedUnitsAreSettled` | 3 tables of which 2 exist, joined by a foreign key; 3 ids; 3 native changes of tables, any number of partial operations, commits and reverts |
| `RowHistory` | MCRowHistory | `HistoryIsComplete`, `PagesJoinUp` | 3 branches, 7 sequences (a commit takes one, a fork two), 4 versions of the row, 2 ids, 2 hashes, pages of one |

Why these bounds are enough. A leak through copy-on-write needs a version shared
by two revisions and a clone of it: two commits and three versions have that,
with a second table or row to confuse it with. A partial operation decides table by
table, and row by row in a table: `IsSmall` lets two rows of a table, or two tables
with a row's versions, meet in one request, with every other action unbounded and
before and after it. Forks of forks need three
branches. A migration's races are between an owner and one that replaced it: two
drivers; skipping or repeating a row needs two batches: two rows. A double
decrement needs two sweeps and contents of unequal size; a file that is shared
needs two rows, and one that two projects count two projects, which the part
without sweeps has. Escalations can block
each other only with at least two of them; a pool of two is the smallest that
admits one, and with four both may be escalated at once. A partial
operation goes wrong where two units meet: two tables, one referring to the other,
and a third identity and id free to be taken; two edits already make every pair of
units (an id freed and taken, a row renamed and referred to), and a third one
makes chains of three, or an edit after a partial operation. Ledgers need the same
for names: a swap of two ids takes three renames through the third. A bisection
goes wrong at odd lengths, seams and repeated versions: seven sequences make a
branch of seven revisions, or forks of forks with commits between them. Bounds on
versions and revisions are bounds on what is live at once, not on the length of
a history: ids are free again once deleted.

`CHECK_DEADLOCK FALSE` stands in the migration's configurations, where once the
branch is deleted and its record has ended the system of that record has stopped,
and in those of `PartialChanges` and `SchemaLedger`, whose behaviours end when the
`MaxEdits` native edits are used up and nothing differs. The latter two and `Drafts` also have a
`VIEW` without `applied`, what the last step applied: no action and no
invariant reads it, and the action properties that read its next value are
evaluated on every step, whether or not it leads to a new state. Symmetry is used where no liveness is checked: names, contents, schemas,
workers and sweepers are only compared.

For each property of a passing run `PROJECT.json` names a mutant: a definition
with a plausible bug in it (marked "Mutated" in the module) under which TLC finds
the property violated.

### What the violations show

*`DraftOnlyTables`.* After a row removal `recomputeHasChanges` finds the table
without differences from the head when it has none there by `createdId`, and
relinks the head's table **by name**. A draft that replaced a head table by a new
one of the same name, and adds and removes a row, gets the old table back.
`docs/versioning.md` promises the opposite.

*`FileSweepRace`.* The sweep selects orphans and stamps them in a later statement
that looks only at `deletedAt`. A write that links one in between changes nothing
that the sweep looks at, and a content in use is tombstoned, subtracted and
offered for deletion. `docs/file-usage.md` argues that either the sweep or the
write comes first; this order is neither.

### Met while modelling, without a run

- `docs/migration.md` says that a failed migration blocks the next until it is
  aborted; `start-async-migration.handler.ts` deletes the failed record when it
  starts the next, and so does `Start` in `AsyncMigration`.
- `table-id-collisions.ts` compares table ids exactly, every native operation
  without case. A draft that renames the head's `a` and creates `A` can have its
  creation committed alone; the new head then has `a` and `A`, while
  `draft-revision-create-table.handler.spec.ts:99` expects a table that differs
  from another in case alone to be refused. TLC finds `NamesAreUnique` violated in
  `TargetVersioning` with such names: create `a`, commit, remove it, create `A`,
  commit the creation alone. `Drafts` has names that differ in more than case.
- Adding a foreign-key field natively to a table with rows leaves references `''`
  in them that resolve nowhere. A partial operation that would move such a row is
  refused until it is filled, so `EveryUnitCanBeApplied` is stated for contents
  without such defaults.
- A draft that renames the head's table and creates a new one of its old name, with
  a row it adds and removes, gets the head's table relinked by name (as in
  `DraftOnlyTables`) beside the renamed one. Committed, the revision holds two
  versions of one logical table, and the histories of its rows are refused from
  then on (`duplicateTable`, `previous-row-states.result.ts:91`). `RowHistory`
  leaves such revisions out, and so does `TargetVersioning`: `table-pairs.ts` keeps
  one of the two versions, and a partial revert may bring the pair back.

## 4. Fairness

Safety is checked without any. The liveness runs assume only what the code or its
deployment schedules:

- `FileRepair`: the consumer calls the sweep and the restoration regularly, and
  repeats a backfill that failed, as `docs/file-usage.md` and `docs/integration.md`
  prescribe (a backfill is idempotent); writes need not happen. The backfill's
  fairness is strong, since restorations come and go between its steps.
  `RepairsConverge` is stated for when only repairs run.
- `MigrationEnds`: a lease that nobody renews expires; each process sweeps on a
  timer and claims what it can; a dead process is restarted; a driver that runs
  takes its next step. Stall deadlines and takeovers are not needed for an end
  and are not assumed. Disturbances (death, suspension, a failure that cannot be
  recorded) must cease, since a batch that kills its process each time is claimed
  for ever: a claim in COPYING counts no retry.
- `Fence`: what runs takes its next step (weak), and the pool serves those that
  wait for a connection in order, so that nobody is passed over for ever (strong,
  as connections are free again and again). Writers never have to stop.

## 5. Proofs

Each theorem is proved for every value of the constants under the assumptions that
the module it is about states; TLC evaluates them in every run of that module. The
two tools group prefix operators differently (`SUBSET S \ {{}}` is
`(SUBSET S) \ {{}}` to TLC and `SUBSET (S \ {{}})` to TLAPS), so the modules
parenthesise them: both read the same specification.

| Module | Theorem | States |
| --- | --- | --- |
| `VersioningProofs` | `TypeCorrect` | `TypeOK` |
| | `CommittedStaysReadonly` | `CommittedIsReadonly` |
| | `CommittedIsImmutable` | `CommittedNeverChanges` |
| | `DraftsFollowHeads` | `DraftFollowsHead` |
| | `ParentsStayInBranch` | only a branch's start has a parent elsewhere, and no deletion cuts an ancestry (no run has it) |
| | `MutableStaysUnshared` | `MutableIsUnshared` |
| | `NamesStayUnique` | `NamesAreUnique` |
| | `HasChangesStaysExact` | `HasChangesIsExact` |
| | `StoreImplementsHistory` | `ImplementsBranchHistory` |
| `TargetVersioningProofs` | `TargetTypeCorrect` | `TypeOK` |
| | `TargetCommittedStaysReadonly` | `CommittedIsReadonly` |
| | `TargetCommittedIsImmutable` | `CommittedNeverChanges` |
| | `TargetDraftsFollowHeads` | `DraftFollowsHead` |
| | `TargetMutableStaysUnshared` | `MutableIsUnshared` |
| | `TargetHasChangesStaysExact` | `HasChangesIsExact` |
| | `IdentitiesAlwaysHold` | a logical row stays in its table, once in each version of it (no run has it) |
| | `TargetNamesStayUnique` | `NamesAreUnique`, where no two names differ in case only |
| | `TargetIsReached` | `OperationsReachTheirTarget` |
| `PartialChangesProofs` | `Inductive` | the inductive invariant (no run has it) |
| | `ContentIsTyped` | `TypeOK` |
| | `RevisionsAlwaysHoldTogether` | `RevisionsHoldTogether` |
| | `EveryDifferenceAlwaysHasAUnit` | `EveryDifferenceHasAUnit` |
| | `AppliedUnitsAreAlwaysSettled` | `AppliedUnitsAreSettled` |
| | `FingerprintAlwaysPinsTheHead` | `FingerprintPinsTheHead` |
| | `EveryUnitCanAlwaysBeApplied` | `EveryUnitCanBeApplied` |
| | `ContentHoldsTogether` | `RevisionsHoldTogether`, `EveryDifferenceHasAUnit`, of `ContentSpec` |
| | `SelectionsImplementContent` | `Spec` implements `ContentSpec` |
| `SchemaLedgerProofs` | `LedgerInductive` | the inductive invariant (no run has it) |
| | `LedgersAreTyped` | `LedgerTypeOK` |
| | `HeadLedgersContinue` | `HeadLedgerOnlyGrows` |
| | `LedgerImplementsContent` | `LedgerSpec` implements `ContentSpec` |
| | `LedgerHoldsTogether` | `RevisionsHoldTogether`, `EveryDifferenceHasAUnit`, with ledgers |
| | `LedgerSettlesUnits` | `AppliedUnitsAreSettled`, with ledgers |
| `BranchFenceProofs` | `FenceTypeCorrect` | `TypeOK` |
| | `SlotsStayConserved` | `SlotsAreConserved` |
| | `FenceIsGivenBack` | `FenceIsReleased` |
| | `EscalationIsAlone` | `EscalatedRunsAlone` |
| `AsyncMigrationProofs` | `MigrationTypeCorrect` | `TypeOK` |
| | `ShadowsHoldCheckpoints` | `ShadowHoldsCheckpoint` |
| | `SwapsFindTheirSource` | `SwapFindsItsSource` |
| | `HeadsNeverChange` | `HeadNeverChanges` |
| | `MigrationsImplementSchemaChange` | `ImplementsSchemaChange` |
| `FileUsageProofs` | `FilesTypeCorrect` | `TypeOK` (no run has it) |
| | `CountersCoverActive` | `CounterCoversActive` |
| | `WritesKeepExact` | `WritesKeepFilesExact` |
| `RowHistoryProofs` | `HistoriesAreComplete` | `HistoryIsComplete` |
| | `PagesAlwaysJoinUp` | `PagesJoinUp` |
| | `AncestryStaysWhole` | every commit leads, parent by parent, to the root's first (no run has it) |
| | `VersionsNeverReturn` | a replaced version is not linked again (no run has it) |

Assumptions: the root's two revisions differ and `Folded` is defined for every name
(`Versioning`); `None` is no version (`VersionAssumption` in `TargetVersioning`); head
and draft begin with contents that conform to their schemas and hold together
(`InitialAssumption` in `DraftContent`, without which no engine could have written
them); tables and rows are finitely many (`UnitAssumption` in `PartialChanges`); row ids, tokens and table versions are numbers, row ids finitely
many, since their length is bounded, and a batch holds at least one
(`AsyncMigration`); there are finitely many hashes and sweepers, and sizes are
numbers (`FileUsage`); the pool has two connections or more, and an operation three
attempts or more, without which it never escalates (`BranchFence`). A branch
exists from the start, a project's root, and a client asks for at least one state at a
time (`RowHistory`). `None` is in each
module something no record is. One theorem assumes more than its module:
`TargetNamesStayUnique` is for names of which no two are one name without case
(`NamesHaveOneSpelling`), because partial operations compare names exactly. What
they do otherwise is under "Met while modelling".

### The versioned store

The invariant of locks is `IInv == TypeOK /\ HeadsAreCommitted /\ CommittedIsReadonly`.
`CommittedIsReadonly` is not inductive alone: a commit retires the head and
promotes the draft, and a head that were a draft would become committed without
its tables having been locked. `HeadsAreCommitted` excludes it. There is one
lemma per action; each shows that it keeps `IInv` and `KeepsCommitted`, which
says that surviving committed revisions keep their table links, those tables
their rows and records, and those rows their contents. From the latter
`SameSnapshot` concludes that the snapshot is the same. Lemmas on fresh ids and
on "touching" (`DraftTableFacts`, `SaveTableKeeps`, `SaveRowsFacts`) carry the
copy-on-write argument: what is written is either new or mutable, and what is
committed is neither.

`BInv == DraftFollowsHead /\ ParentsInBranch` is the shape of a project's history.
Neither part stands alone: a revert and a removal read the draft's parent without
asking for its branch, and a deletion of a branch is safe because only starts have
parents elsewhere.

`MutableIsUnshared` is inductive beside `IInv`. What edits of a table have in common is
`TableEdit`: the draft gives up a version for its draft version or for the head's
table, and writes only rows that are mutable or new. Once every operation on rows is
one (`EditRowsIsEdit`), `EditIsIsolated` says that no other revision, committed or
not, sees it. Names and `hasChanges` then need one argument about the draft
itself per operation. For names the ones with substance are touching (several rows are
cloned and renamed in one request, and may swap names) and the relink of the head's
table by name. For `hasChanges` they are the joins of the two SQL files
(`JoinFindsDifferences`, `JoinFindsNoOther`): a difference is always
found, and none is made up as long as the head links one version of each logical
table. `HasChangesIsExact` is stated so: where a relink by name has made a second
version and a commit has published it, the join pairs the two and `hasChanges` may be
set without a difference (see "Met while modelling").

`StoreImplementsHistory` adds no invariant of the store. `MappingIs` says what the
refinement mapping reads off a database; then each operation is matched with a step of
`BranchHistory`: an edit with the edit of one draft, a commit, revert, fork and
deletion with theirs, the cleanup with no step. `BranchHistory` takes its contents
from all that snapshots can be (`Contents`).

### Partial operations on versions

`TargetInv` is `IInv`, `BInv`, `MutableIsUnshared`, `HasChangesIsExact` and
`IdentitiesHold`: a logical row is in one logical table, and a version of a table has
one version of it. Without the last, head and draft cannot be read side by side
(`RowIn` takes the one version with an identity), and a target that takes a row's
version from the other side could get a second version of it.

A commit or revert of parts is a plan per table and then several statements. The
proof separates what is written from where it is linked. `AfterOf` says what the
database holds once the writer is through: each version that a plan names
is one of a side, or new, or the draft's own where that is mutable; and each of its
rows comes from head or draft (`Fate`, `Comes`). `CommitOf` and `RevertOf` say which
revision links which tables then. Locks and sharing follow from these alone, much as
for native edits: what is edited in place was mutable, hence linked by the draft
alone; what the new head takes from the draft is locked before the next draft
links it, and `lockRowsMissingIn` locks the rows that the old draft's table gives up
to the head's.

For `TargetIsReached`, a plan's outcome is compared with the target row by row: a
mixture has of each row the version that has the content that the target
has (`Mixture`, `GoesSays`), whether it keeps a version, takes the other side's, or
copies one with some columns of the other; and a table that is linked whole, without a
look at its rows, says what the target says because all of its parts were taken, or
none. A draft's version that gives way to the head's says the same
(`LinksSayTheSame`), and after a request for every difference each does so, so that
both sides link the same versions (`WholeDraftLinks`) and `hasChanges` is false.

### Partial changes

`IInv` says of head and draft that they are well formed, conform to their schemas
and hold together, that a row that both have is in one table (`RowsStay`), and that
only a table on both sides has a history of its schema to record
(`OnlyHistoriesAreRecorded`). Safety does not depend on what the closure of a selection
is: `Apply` writes a target only if its plan has no findings (`IsClear`), so these
theorems are about any set of units whatever that has none. For each check of `closure/`
there is a lemma that says what its silence means for the target, and `TargetHolds` puts
these together: ids are unique, schemas name tables that are there, references resolve,
rows conform. `UnitsAfter` follows each kind of unit into the next pair of sides: those
applied are gone, and every other is there as it was, for the same tables and rows, also
where the structure around it has been settled.

`EveryUnitCanBeApplied` is about the closure. `RequiresNothing` is what it ends in, a
choice whose findings are units it has, or `None`; `NothingBlocks` says that there are
no such findings. Not because `None` is never found: on the way it is, and only a unit
found with it, once taken, makes it go. What is proved is that whatever is missing in
the target is found as a unit not taken yet. A table id is held twice, or names no
table, because one structure was taken and another was not (`NoTableIdCollides`,
`MeantTableIsThere`). A reference that does not resolve was taken from a side where it
did, so its row is missing because a unit of the other side's has not been taken: the
structure or the unit of the referring row, or the unit that brings the row it names
(`LoadedRowIsRestored`, `UnloadedRowIsRestored`, `LostRowCanBeBrought`). This is where a
default would be an exception, for no side resolves it. `ClosureEnds` shows that the
recursion ends, by a least counterexample over the number of units left out: each
round takes one more of finitely many.

An earlier `FingerprintPinsTheHead` was false, and the proof of it failed on that: it
compared targets of any units with one fingerprint, also of selections that are not
closed. A created row that a plan moves into the head's structure, without the draft's
change of the foreign-key field, takes a default there, and its reference where the
draft has not changed the field; which of the two is not in the fingerprint of a plan
that leaves the structure out. The checks refuse such plans, so nothing is ever
published for them; the property now asks for equal targets where neither plan is
refused. `NoMovedDefault` is the lemma that rules the case out.

### Ledgers

`LedgerInv` is `IInv`, that each ledger has finitely many migrations under ids of their
own, and that the draft's continues the head's (`Continues`): it has every migration of
the head, and those it adds come after them. The last is what a partial commit could
break, for it takes migrations from anywhere in the draft's part. `TargetLedgerIs`: only
a pending migration has an owner (`OwnersAre`), so a plan moves none that is published;
`CommittedLedgers`: what remains and would not follow is renumbered, in its order, after
the last of what is published (`RenumberedFollows`, from `RanksIncrease`). What the
ledgers replay to is left open here: to which unit a migration belongs and what the
checks of the ledgers report is arbitrary, except that an owner, and what a check
requires, is a unit (`AllFindingsAreUnits`). That suffices for the content as well. There
are finitely many units, so the closure ends in units (`ClosureWithLedgerIs`); transient
units move no content; and what is written has no findings, so that a step of
`LedgerSpec` is one of `ContentSpec`, and what is proved of the latter holds here too.

### Fences

`FInv` has besides `TypeOK` and `SlotsAreConserved` what a run owns where it stands
(`Underway`), that who holds the advisory lock holds it alone (`FenceExcludes`), and
that who is in a line waits there (`LinesAreWaiting`); lines have no repetitions,
which needs facts on sequences that the library does not have (`AppendWaiter`,
`TailOfWaiters`, and one for a wait that is given up in the midst of a line).

The first attempt to prove `EscalatedRunsAlone` failed for a good reason. It said
that an escalated attempt with its fence meets nobody. With a pool of four two
attempts can be escalated, one may lose its holder and go on, and the other is then
granted the fence while the first is still at work. Pools of two and three, which
the run had, have one slot and cannot show it. The property now says what the code
gives: nobody but such attempts, and no harm but by a commit of one. The run has a
pool of four.

### Migrations

`AInv` has two halves. `StoreState` is about the database: what a record's status
says of its columns; that the shadow is linked nowhere, has the new schema, and as
many rows as the checkpoint counts; that while the draft exists its table, schema
and rows are those the record began with; and that the shadow's rows are those of
the source up to the checkpoint, each once. `DriverState` is about what drivers
remember: no two hold the same token, who holds the record's token has read the
record as it is (so no other has written it since), and the batch of such a driver
is the next one. A driver that has lost its lease may remember anything, and every
statement it has left compares tokens. A batch is cut off by its size in the
order of ids; that it has a last row, to which the checkpoint moves, is shown by
well-founded induction over sets of numbers. The swap links all rows because the
checkpoint equals the total, and a subset of as many rows is the set. Refinement:
`SeenRows` and `SeenSchema` change only in the swap, a revert and a draft's own
writes, and the latter only while no record is active.

### File usage

The counter is read and written by statements of several sweeps at once, so what
holds between them is a debt: bytes that a sweep has taken out of what is active
and not yet out of the counter. `Claim(r, B, s, p)` is the blobs of project `p` that
sweep `s` has stamped with its own mark and will pay for; `Debt` counts their
bytes, once for each sweep that claims them. `FilesCovered` says that each project is
deleted with nothing active left, or has a counter that covers what is active and
all debts. A mark makes a blob inactive and a debt in one statement; a decrement pays;
a revival makes the blob active and adds to the counter, and once the sweep has read
back its stamps the debt remains, which is why debts count a blob that is active
again. `SweepsFit` says that where a
sweep stands and what it holds agree, in particular that nothing it has found carries
its mark before it stamps. `UnsweptExact` is the equality where no sweep is called.

Counting is by `Cardinality` of sets of bytes, positions in contents
(`BytesOf`), because induction over a sum is not available; lemmas on disjoint
unions carry it.

### Row history

The invariant has two parts, `StoreInv` about commits and `ReaderFits` about the client.
In the first, `AncestryHolds` says how each commit follows its parent (the commit
before it in its branch or, for a branch's first, a commit of another branch with the
same row), `DraftsAreAhead` that a draft's sequence is above its branch's commits and
is nobody else's, without which a commit could overwrite one, and `VersionsHold` that
one version is one state, linked from the commit that introduced it on. A deletion
keeps the first because a branch with a child is not deleted; an edit keeps the last
because its version is new. `ReaderFits` says that the revision being read was
committed once: its sequence is no draft's and none to come, so that if it is gone it
stays gone.

The properties compare two algorithms with a third, all recursive: `Lineage` goes from
branch to branch, `Steps` halves intervals, `Path` goes from parent to parent.
A recursive function is defined in TLA+ as some function that satisfies its equation, so
first there must be one. `Collected` shows it for any relation: sets collected along
it are a least fixed point. What such functions contain is then shown by a least
counterexample (`PathByBranch`, `LineageCovers`, `StepsAreChanges`), which needs no
induction theorem but only that a set of numbers has a least one. Three
facts make the algorithms agree. The intervals of a lineage are the path, cut at forks
(`LineageIs`, `LineageSeams`). Two ends of an interval with the same version have it
everywhere between (`VersionWithin`, from `VersionsHold`), so that the halves bisection
does not look at hold no change (`StepsOfLineage`). And a version's oldest commit on the
path is where it differs from its parent (`IntroductionsAre`), to which the
scan dates it directly. `NotRefused` excludes each reason to refuse a history, and
`PageFits` that a page is anything but the next part of the stream. What stays when
commits are added or deleted beside a tip is its path (`PathStays`, `HistoryStays`), so
what a client holds from earlier pages remains a prefix.

To be proved about, `RowHistory` gives events in order of their rank (`Newest`) and a
rest of the stream by its first position (`From`), where a sort and a filter of the
library's would each be a recursion.

### Only model-checked

- Liveness under fairness, which the prover does not reach:
  `OrphanIsEventuallyTombstoned`, `RepairsConverge`, `EveryMigrationEnds`,
  `EveryOperationCommits`.
- What ledgers replay to, a recursion over a sequence of which the proofs would need
  every intermediate state: `LedgersReproduceSchemas`, `EveryMigrationHasAUnit`,
  `EveryUnitCanBeMoved`, and `MovedUnitsAreSettled` for the units of tables that came
  and went. (The recursions of `RowHistory` collect sets, and that of `PartialChanges`
  takes units until none is required; of both, enough can be shown by a least
  counterexample.)
- `ImplementsBranchHistory` for partial operations: it is stated and proved of
  `Versioning`, and `BranchHistory` has no step that publishes a part of a draft. What
  takes its place is `OperationsReachTheirTarget` with `CommittedNeverChanges`.
- `NamesAreUnique` of `Versioning` is proved for any `Folded`; with partial
  operations and two spellings of a name it is false.
- `FileUsage` with repairs (`RepairingNext`): the theorems are about `Spec`.

## 6. Plan

1. Done: `Versioning` with `BranchHistory`, `TargetVersioning`, `FileUsage`,
   `AsyncMigration` with `SchemaChange`, `BranchFence`, `DraftContent` with
   `PartialChanges`, `LedgerReplay` with `SchemaLedger`, `RowHistory`; and the
   proofs of section 5.
2. Open: an abstract specification that publishes parts of a draft, for
   `TargetVersioning` to implement as `Versioning` implements `BranchHistory`; the
   theorems of `FileUsageProofs` for `RepairingNext`.

### Not modelled

- *Partial operations on revisions with two versions of one logical table*: what
  the code makes of them depends on the order in which the database returns them.
- *Ledger repair and imports*: for databases whose ledgers do not reproduce their
  schemas, and for replicas, neither of which the modelled operations produce.
- *Computed columns, formulas, stored views, shared schemas*: transformations of
  JSON documents by libraries outside the repository, without state of their own.
- *Queries*: lists, filters and sorting read one snapshot.
- *Engine facade*: delegates every call. *Endpoint notification*: delivery to other
  services, with no state here. *Generated Prisma client* (about 14,000 of the
  implementation's lines): follows from `schema.prisma`, which the models' variables
  are taken from.

## 7. Running

    tlc -workers 2 -config Drafts.cfg MCTargetVersioning
    tlapm VersioningProofs.tla

Each run takes from seconds to about three minutes. From scratch,
`TargetVersioningProofs` and `PartialChangesProofs` take three to four minutes,
`AsyncMigrationProofs` about two, each other module of proofs about one or less.

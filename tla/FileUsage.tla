------------------------------ MODULE FileUsage ------------------------------
(***************************************************************************)
(* File-usage tracking (src/features/file-usage): which file contents a    *)
(* project's rows reference, how many bytes they take, and when the        *)
(* consumer may delete them from its object store.                         *)
(*                                                                         *)
(* A write registers its rows' files in its own serializable transaction,  *)
(* so registering is one action; its conflicts with the sweep's statements *)
(* end in a retry, or leave what it would have left had it run at the time *)
(* of its snapshot.  The sweep runs outside any transaction: each of its   *)
(* statements commits on its own, and is an action of its own.             *)
(***************************************************************************)
EXTENDS Integers, FiniteSets

CONSTANTS
  Projects,     \* project ids, opaque to the engine
  Hashes,       \* SHA-256 of file contents
  RowVersions,  \* Row.versionId values; the bound on live rows
  Sweepers,     \* concurrent calls of the sweep
  Size,         \* bytes of the content with a hash
  MaxBytes,     \* the bound on counters
  None,         \* no record
  Active,       \* FileBlob.deletedAt IS NULL
  InWrite       \* the deletedAt a write's own cleanup stamps

\* There are 2^256 hashes, and no more calls than connections.
ASSUME SizeAssumption ==
  /\ Size \in [Hashes -> Nat] /\ MaxBytes \in Nat
  /\ IsFiniteSet(Hashes) /\ IsFiniteSet(Sweepers)
ASSUME MarkerAssumption ==
  /\ None \notin Nat \cup Projects \cup Hashes
  /\ None # Active /\ InWrite \notin {None, Active} \cup Sweepers
  /\ None \notin Sweepers /\ Active \notin Sweepers

\* FileBlob: one to a project and a hash.
Blobs == Projects \X Hashes

\* A row version, the files its data refers to, and whether a revision has it.
RowRecord == [project : Projects, refs : SUBSET Hashes, reachable : BOOLEAN]
ASSUME NoRowAssumption == None \notin RowRecord

VARIABLES
  blob,       \* FileBlob: no record, active, or the mark of its tombstone
  links,      \* the join table _FileBlobToRow
  rows,       \* Row
  fileBytes,  \* ProjectFileUsage, by project
  sweep,      \* where each sweep is
  reported,   \* hashes the consumer was told to delete from its store
  deleted,    \* projects the consumer has deleted
  restore,    \* where the restoration of a counter is
  backfill    \* where the backfill of a project is

consumer == <<reported, deleted>>
data == <<blob, links, rows>>
repair == <<restore, backfill>>
vars == <<blob, links, rows, fileBytes, sweep, reported, deleted, restore, backfill>>

\* Two sweeps stamp different times: tombstones of one are not another's.
Marks == {InWrite} \cup Sweepers

NotRestoring == [at |-> "idle", project |-> None, current |-> 0, expected |-> 0]

\* Row versions still to be scanned, the planned blobs with the rows that refer
\* to each, and the content that is being created and linked.
NoBackfill == [at |-> "idle", project |-> None, unread |-> {}, plan |-> {}, hash |-> None]

\* A sweep of the orphans everywhere, or of all that one deleted project has.
Idle == [at |-> "idle", project |-> None, found |-> {}, stamped |-> {}, due |-> {}]

\* The engine only offers the sweep; a deployment need not schedule it.
Never == [Idle EXCEPT !.at = "never"]
NeverSwept == \A s \in Sweepers : sweep[s] = Never

\* Every column has its type, and no link dangles.
TypeOK ==
  /\ blob \in [Blobs -> {None, Active} \cup Marks]
  /\ links \subseteq Blobs \X RowVersions
  /\ rows \in [RowVersions -> RowRecord \cup {None}]
  /\ fileBytes \in [Projects -> Nat \cup {None}]
  /\ sweep \in [Sweepers ->
       [at : {"never", "idle", "found", "marked", "drop", "decrement", "reconcile", "retry",
              "clamp", "report"},
        project : Projects \cup {None}, found : SUBSET Blobs, stamped : SUBSET Blobs,
        due : SUBSET Projects]]
  /\ restore \in [at : {"idle", "read", "summed"}, project : Projects \cup {None},
                  current : Nat, expected : Nat]
  /\ backfill \in [at : {"idle", "scan", "find", "reactivate", "link"},
                   project : Projects \cup {None}, unread : SUBSET RowVersions,
                   plan : SUBSET (Hashes \X RowVersions), hash : Hashes \cup {None}]
  /\ reported \subseteq Hashes /\ deleted \subseteq Projects
  /\ \A l \in links : blob[l[1]] # None /\ rows[l[2]] # None

-----------------------------------------------------------------------------

ProjectOf(b) == b[1]
HashOf(b) == b[2]
\* Byte by byte.
BytesOf(S) == UNION {{b} \X (1..Size[HashOf(b)]) : b \in S}
Bytes(S) == Cardinality(BytesOf(S))

ActiveBlobs == {b \in Blobs : blob[b] = Active}
Tombstones == {b \in Blobs : blob[b] \in Marks}
LinkedTo(x) == {b \in Blobs : <<b, x>> \in links}
Linked(b, joins) == \E x \in RowVersions : <<b, x>> \in joins

\* Links of rows that are deleted go with them.
WithoutRows(S) == {l \in links : l[2] \notin S}

\* createMissingBlobs and reactivateTombstonedBlobs: what starts to count.
AddedBytes(x, wanted) == Bytes(wanted \ ActiveBlobs)

\* incrementProjectCounter: nothing is written for no bytes.
Incremented(current, bytes) ==
  IF bytes = 0 THEN current ELSE IF current = None THEN bytes ELSE current + bytes

\* decrementProjectCounter with no write in between: clamped at zero.
Decremented(current, bytes) ==
  IF bytes = 0 THEN current
  ELSE IF current # None /\ current >= bytes THEN current - bytes ELSE 0

\* Mutated: links that remain are not looked at.
ScopedOrphansUnlinked(S, p, joins) == {b \in S : ProjectOf(b) = p /\ blob[b] = Active}

\* CleanupFileBlobsByIds: which of these blobs no row links any more.
ScopedOrphans(S, p, joins) ==
  {b \in S : ProjectOf(b) = p /\ blob[b] = Active /\ ~Linked(b, joins)}

-----------------------------------------------------------------------------
(* Writes.  Each is a part of a draft operation's transaction. *)

\* RegisterFileReferencesForRows: the row version's links are brought in line
\* with its data.  A new row version is registered like one edited in place.
Register(x, p, refs) ==
  LET wanted == {p} \X refs
      stale == LinkedTo(x) \ wanted
      joins == WithoutRows({x}) \cup (wanted \X {x})
      orphans == ScopedOrphans(stale, p, joins)
  IN  /\ p \notin deleted
      /\ rows[x] # None => rows[x].reachable /\ rows[x].project = p
      /\ Incremented(fileBytes[p], AddedBytes(x, wanted)) \in 0..MaxBytes \cup {None}
      /\ rows' = [rows EXCEPT ![x] = [project |-> p, refs |-> refs, reachable |-> TRUE]]
      /\ links' = joins
      /\ blob' = [b \in Blobs |-> IF b \in wanted THEN Active
                                  ELSE IF b \in orphans THEN InWrite ELSE blob[b]]
      /\ fileBytes' = [fileBytes EXCEPT ![p] =
                         Decremented(Incremented(@, AddedBytes(x, wanted)), Bytes(orphans))]
      /\ UNCHANGED <<sweep, consumer, repair>>

\* removeRows of a row only the draft has: the blobs linked before are cleaned
\* up after.
RemoveRow(x) ==
  LET p == rows[x].project
      joins == WithoutRows({x})
      orphans == ScopedOrphans(LinkedTo(x), p, joins)
  IN  /\ rows[x] # None /\ rows[x].reachable
      /\ rows' = [rows EXCEPT ![x] = None]
      /\ links' = joins
      /\ blob' = [b \in Blobs |-> IF b \in orphans THEN InWrite ELSE blob[b]]
      /\ fileBytes' = [fileBytes EXCEPT ![p] = Decremented(@, Bytes(orphans))]
      /\ UNCHANGED <<sweep, consumer, repair>>

\* removeTable deletes the draft's own rows without this module hearing of it.
RemoveTable(S) ==
  /\ \A x \in S : rows[x] # None /\ rows[x].reachable
  /\ rows' = [x \in RowVersions |-> IF x \in S THEN None ELSE rows[x]]
  /\ links' = WithoutRows(S)
  /\ UNCHANGED <<blob, fileBytes, sweep, consumer, repair>>

\* A revert, a deleted branch, an unlinked row: no revision has the version.
Abandon(x) ==
  /\ rows[x] # None /\ rows[x].reachable
  /\ rows' = [rows EXCEPT ![x] = [@ EXCEPT !.reachable = FALSE]]
  /\ UNCHANGED <<blob, links, fileBytes, sweep, consumer, repair>>

\* The cleanup of orphaned data deletes rows before it sweeps blobs.
DeleteOrphanRows ==
  LET orphans == {x \in RowVersions : rows[x] # None /\ ~rows[x].reachable}
  IN  /\ rows' = [x \in RowVersions |-> IF x \in orphans THEN None ELSE rows[x]]
      /\ links' = WithoutRows(orphans)
      /\ UNCHANGED <<blob, fileBytes, sweep, consumer, repair>>

-----------------------------------------------------------------------------
(* The sweep, statement by statement. *)

Goto(s, next) == sweep' = [sweep EXCEPT ![s] = next]

\* Mutated: a content the consumer was told of is not swept again.
OrphansNotReported ==
  {b \in ActiveBlobs : ~Linked(b, links) /\ HashOf(b) \notin reported}

\* findOrphans
Orphans == {b \in ActiveBlobs : ~Linked(b, links)}

\* The sweep of all projects, or of one.
SweepFind(s, scope) ==
  LET found == {b \in Orphans : ProjectOf(b) \in scope}
  IN  /\ sweep[s].at = "idle" /\ found # {}
      /\ Goto(s, [Idle EXCEPT !.at = "found", !.found = found])
      /\ UNCHANGED <<data, fileBytes, consumer, repair>>

\* cleanupProjectFileUsage starts with all that is active, linked or not.
ProjectFind(s, p) ==
  LET found == {b \in ActiveBlobs : ProjectOf(b) = p}
  IN  /\ sweep[s].at = "idle" /\ p \in deleted
      /\ found # {} \/ fileBytes[p] # None
      /\ Goto(s, [Idle EXCEPT !.at = "found", !.project = p, !.found = found])
      /\ UNCHANGED <<data, fileBytes, consumer, repair>>

\* With nothing stamped a sweep is over; a project's counter goes all the same.
NothingStamped(s) ==
  IF sweep[s].project = None THEN Idle ELSE [sweep[s] EXCEPT !.at = "drop"]

\* tombstoneActive, its update: what is still active among what was found.
SweepMark(s) ==
  LET marked == sweep[s].found \cap ActiveBlobs
  IN  /\ sweep[s].at = "found"
      /\ blob' = [b \in Blobs |-> IF b \in marked THEN s ELSE blob[b]]
      /\ Goto(s, IF marked = {} THEN NothingStamped(s) ELSE [sweep[s] EXCEPT !.at = "marked"])
      /\ UNCHANGED <<links, rows, fileBytes, consumer, repair>>

\* Mutated: everything found counts as stamped.
StampedAsFound(s) == sweep[s].found

\* tombstoneActive, its read: what carries this sweep's mark.
Stamped(s) == {b \in sweep[s].found : blob[b] = s}

SweepReadMarked(s) ==
  /\ sweep[s].at = "marked"
  /\ Goto(s, IF Stamped(s) = {} THEN NothingStamped(s)
             ELSE [sweep[s] EXCEPT !.at = IF sweep[s].project = None THEN "decrement" ELSE "drop",
                                   !.found = {}, !.stamped = Stamped(s),
                                   !.due = {ProjectOf(b) : b \in Stamped(s)}])
  /\ UNCHANGED <<data, fileBytes, consumer, repair>>

\* deleteUsageCounter of cleanupProjectFileUsage.
DropCounter(s) ==
  /\ sweep[s].at = "drop"
  /\ fileBytes' = [fileBytes EXCEPT ![sweep[s].project] = None]
  /\ Goto(s, [sweep[s] EXCEPT !.at = "report", !.due = {}])
  /\ UNCHANGED <<data, consumer, repair>>

\* The counters are decremented one project after the other.
NextDue(s) == CHOOSE p \in sweep[s].due : TRUE
DueBytes(s) == Bytes({b \in sweep[s].stamped : ProjectOf(b) = NextDue(s)})
Paid(s) ==
  LET due == sweep[s].due \ {NextDue(s)}
  IN  [sweep[s] EXCEPT !.at = IF due = {} THEN "report" ELSE "decrement", !.due = due]

\* tryDecrementProjectCounter: one guarded update, tried once and once more
\* after the reconciliation's read.
SweepDecrement(s) ==
  LET p == NextDue(s)
      fits == fileBytes[p] # None /\ fileBytes[p] >= DueBytes(s)
  IN  /\ sweep[s].at \in {"decrement", "retry"}
      /\ fileBytes' = [fileBytes EXCEPT ![p] = IF fits THEN @ - DueBytes(s) ELSE @]
      /\ Goto(s, IF fits \/ DueBytes(s) = 0 THEN Paid(s)
                 ELSE [sweep[s] EXCEPT !.at =
                         IF sweep[s].at = "retry" THEN "clamp" ELSE "reconcile"])
      /\ UNCHANGED <<data, consumer, repair>>

\* reconcileProjectCounterAfterFailedDecrement: a missing counter is created.
SweepReconcile(s) ==
  /\ sweep[s].at = "reconcile"
  /\ IF fileBytes[NextDue(s)] = None
     THEN /\ fileBytes' = [fileBytes EXCEPT ![NextDue(s)] = 0]
          /\ Goto(s, Paid(s))
     ELSE /\ Goto(s, [sweep[s] EXCEPT !.at = "retry"])
          /\ UNCHANGED fileBytes
  /\ UNCHANGED <<data, consumer, repair>>

\* clampProjectCounter: guarded by the counter still being too low.
SweepClamp(s) ==
  LET p == NextDue(s)
  IN  /\ sweep[s].at = "clamp"
      /\ fileBytes' = [fileBytes EXCEPT ![p] = IF @ # None /\ @ < DueBytes(s) THEN 0 ELSE @]
      /\ Goto(s, Paid(s))
      /\ UNCHANGED <<data, consumer, repair>>

\* findGloballyOrphanHashes: hashes no project has an active blob of.
SweepReport(s) ==
  LET active == {HashOf(b) : b \in ActiveBlobs}
  IN  /\ sweep[s].at = "report"
      /\ reported' = reported \cup ({HashOf(b) : b \in sweep[s].stamped} \ active)
      /\ Goto(s, Idle)
      /\ UNCHANGED <<data, fileBytes, deleted, repair>>

-----------------------------------------------------------------------------
(* restoreProjectFileBytes: validate's reads, then the write. *)

Counter(p) == IF fileBytes[p] = None THEN 0 ELSE fileBytes[p]
ActiveBytes(p) == Bytes({b \in ActiveBlobs : ProjectOf(b) = p})

Restoring(p) ==
  /\ restore.at = "idle"
  /\ restore' = [NotRestoring EXCEPT !.at = "read", !.project = p, !.current = Counter(p)]

\* The consumer runs one repair at a time.
RestoreRead(p) ==
  /\ backfill.at = "idle" /\ Restoring(p)
  /\ UNCHANGED <<data, fileBytes, sweep, consumer, backfill>>

\* Mutated: tombstones count as well.
ExpectedWithTombstones(p) == Bytes({b \in ActiveBlobs \cup Tombstones : ProjectOf(b) = p})

\* aggregateExpectedFileBytes
Expected(p) == ActiveBytes(p)

\* Without drift nothing is written.
RestoreSum ==
  LET expected == Expected(restore.project)
  IN  /\ restore.at = "read"
      /\ restore' = IF expected = restore.current THEN NotRestoring
                    ELSE [restore EXCEPT !.at = "summed", !.current = 0, !.expected = expected]
      /\ UNCHANGED <<data, fileBytes, sweep, consumer, backfill>>

RestoreSet ==
  /\ restore.at = "summed"
  /\ fileBytes' = [fileBytes EXCEPT ![restore.project] = restore.expected]
  /\ restore' = NotRestoring
  /\ UNCHANGED <<data, sweep, consumer, backfill>>

-----------------------------------------------------------------------------
(* backfillProjectFileBlobs, for rows from before file usage existed: it plans *)
(* from a scan, and then creates, revives and links what it planned, each      *)
(* statement on its own beside writes and sweeps.                              *)

\* Rows written from here on are registered by their own writes.
BackfillStart(p) ==
  /\ backfill.at = "idle" /\ restore.at = "idle" /\ p \notin deleted
  /\ backfill' = [NoBackfill EXCEPT !.at = "scan", !.project = p,
                    !.unread = {x \in RowVersions : rows[x] # None /\ rows[x].reachable
                                                      /\ rows[x].project = p}]
  /\ UNCHANGED <<data, fileBytes, sweep, consumer, restore>>

\* mergeRowReferences, of a row that is still there when its turn comes.
BackfillScan(x) ==
  /\ backfill.at = "scan" /\ x \in backfill.unread
  /\ backfill' = [backfill EXCEPT !.unread = @ \ {x},
                    !.plan = IF rows[x] = None THEN @ ELSE @ \cup rows[x].refs \X {x}]
  /\ UNCHANGED <<data, fileBytes, sweep, consumer, restore>>

PlannedRows(c) == {x \in RowVersions : <<c, x>> \in backfill.plan}
Planned == {c \in Hashes : PlannedRows(c) # {}}
BackfillBlob == <<backfill.project, backfill.hash>>

\* This content is done with, linked or not.
PlanWithout(c) == [backfill EXCEPT !.at = "scan", !.hash = None, !.plan = @ \ ({c} \X RowVersions)]

\* upsertBlob of the next content planned: created unless there is a blob.
BackfillCreate(c) ==
  LET b == <<backfill.project, c>>
  IN  /\ backfill.at = "scan" /\ backfill.unread = {} /\ c \in Planned
      /\ blob' = IF blob[b] = None THEN [blob EXCEPT ![b] = Active] ELSE blob
      /\ backfill' = [backfill EXCEPT !.at = IF blob[b] = None THEN "link" ELSE "find", !.hash = c]
      /\ UNCHANGED <<links, rows, fileBytes, sweep, consumer, restore>>

\* Mutated: a tombstone is as good as a blob.
BackfillFindAny ==
  /\ backfill.at = "find"
  /\ backfill' = IF blob[BackfillBlob] = None THEN PlanWithout(backfill.hash)
                 ELSE [backfill EXCEPT !.at = "link"]
  /\ UNCHANGED <<data, fileBytes, sweep, consumer, restore>>

\* locateAndReactivateBlob, its read: a blob gone by now is passed over.
BackfillFind ==
  /\ backfill.at = "find"
  /\ backfill' = IF blob[BackfillBlob] = None THEN PlanWithout(backfill.hash)
                 ELSE [backfill EXCEPT !.at =
                         IF blob[BackfillBlob] = Active THEN "link" ELSE "reactivate"]
  /\ UNCHANGED <<data, fileBytes, sweep, consumer, restore>>

\* Its update, which throws when the blob is gone.
BackfillReactivate ==
  LET there == blob[BackfillBlob] # None
  IN  /\ backfill.at = "reactivate"
      /\ blob' = IF there THEN [blob EXCEPT ![BackfillBlob] = Active] ELSE blob
      /\ backfill' = IF there THEN [backfill EXCEPT !.at = "link"] ELSE NoBackfill
      /\ UNCHANGED <<links, rows, fileBytes, sweep, consumer, restore>>

\* filterMissingLinks
MissingLinks == {x \in PlannedRows(backfill.hash) : <<BackfillBlob, x>> \notin links}

\* linkRowVersions: all that are missing or, with one row or the blob gone, none.
BackfillLink ==
  LET throws == \/ MissingLinks # {} /\ blob[BackfillBlob] = None
                \/ \E x \in MissingLinks : rows[x] = None
  IN  /\ backfill.at = "link"
      /\ links' = IF throws THEN links ELSE links \cup {BackfillBlob} \X MissingLinks
      /\ backfill' = IF throws THEN NoBackfill ELSE PlanWithout(backfill.hash)
      /\ UNCHANGED <<blob, rows, fileBytes, sweep, consumer, restore>>

\* The counter is restored last; nothing of it was written before.
BackfillRestore ==
  /\ backfill.at = "scan" /\ backfill.unread = {} /\ backfill.plan = {}
  /\ Restoring(backfill.project)
  /\ backfill' = NoBackfill
  /\ UNCHANGED <<data, fileBytes, sweep, consumer>>

\* The process ends, or a statement fails: what was written stays.
BackfillFail ==
  /\ backfill.at # "idle"
  /\ backfill' = NoBackfill
  /\ UNCHANGED <<data, fileBytes, sweep, consumer, restore>>

-----------------------------------------------------------------------------
(* The consumer: it asks what to delete, deletes it, and confirms; it deletes *)
(* projects, and only then has their usage cleaned up. *)

DeleteProject(p) ==
  /\ p \notin deleted
  /\ deleted' = deleted \cup {p}
  /\ rows' = [x \in RowVersions |->
                IF rows[x] # None /\ rows[x].project = p
                THEN [rows[x] EXCEPT !.reachable = FALSE] ELSE rows[x]]
  /\ UNCHANGED <<blob, links, fileBytes, sweep, reported, repair>>

GetPendingStorageDeletions ==
  LET pending == {HashOf(b) : b \in Tombstones} \ {HashOf(b) : b \in ActiveBlobs}
  IN  /\ reported' = reported \cup pending
      /\ UNCHANGED <<data, fileBytes, sweep, deleted, repair>>

ConfirmStorageDeleted(h) ==
  LET confirmed == {b \in Tombstones : HashOf(b) = h}
  IN  /\ h \in reported
      /\ blob' = [b \in Blobs |-> IF b \in confirmed THEN None ELSE blob[b]]
      /\ links' = {l \in links : l[1] \notin confirmed}
      /\ reported' = reported \ {h}
      /\ UNCHANGED <<rows, fileBytes, sweep, deleted, repair>>

-----------------------------------------------------------------------------

Init ==
  /\ blob = [b \in Blobs |-> None]
  /\ links = {}
  /\ rows = [x \in RowVersions |-> None]
  /\ fileBytes = [p \in Projects |-> None]
  /\ sweep \in {[s \in Sweepers |-> Idle], [s \in Sweepers |-> Never]}
  /\ reported = {} /\ deleted \in SUBSET Projects
  /\ restore = NotRestoring /\ backfill = NoBackfill

Write ==
  \/ \E x \in RowVersions : RemoveRow(x) \/ Abandon(x)
  \/ \E x \in RowVersions, p \in Projects, refs \in SUBSET Hashes : Register(x, p, refs)
  \/ \E S \in (SUBSET RowVersions) \ {{}} : RemoveTable(S)

Consume ==
  \/ GetPendingStorageDeletions
  \/ \E h \in Hashes : ConfirmStorageDeleted(h)
  \/ \E p \in Projects : DeleteProject(p)

Sweep(s) ==
  \/ SweepFind(s, Projects)
  \/ \E p \in Projects : SweepFind(s, {p}) \/ ProjectFind(s, p)
  \/ SweepMark(s) \/ SweepReadMarked(s) \/ DropCounter(s)
  \/ SweepDecrement(s) \/ SweepReconcile(s) \/ SweepClamp(s) \/ SweepReport(s)

Next == Write \/ DeleteOrphanRows \/ Consume \/ \E s \in Sweepers : Sweep(s)

Spec == Init /\ [][Next]_vars

Restore == RestoreSum \/ RestoreSet \/ \E p \in Projects : RestoreRead(p)

Backfill ==
  \/ \E p \in Projects : BackfillStart(p)
  \/ \E x \in RowVersions : BackfillScan(x)
  \/ \E c \in Hashes : BackfillCreate(c)
  \/ BackfillFind \/ BackfillReactivate \/ BackfillLink \/ BackfillRestore

\* The same with backfills and restorations now and then.
RepairingNext == Next \/ Restore \/ Backfill \/ BackfillFail

\* Rows from before file usage existed are in revisions, and registered nowhere.
LegacyInit ==
  /\ rows \in [RowVersions -> {None} \cup [project : Projects, refs : SUBSET Hashes,
                                           reachable : {TRUE}]]
  /\ blob = [b \in Blobs |-> None] /\ links = {}
  /\ fileBytes = [p \in Projects |-> None]
  /\ sweep = [s \in Sweepers |-> Idle]
  /\ reported = {} /\ deleted = {}
  /\ restore = NotRestoring /\ backfill = NoBackfill

\* The consumer schedules the sweep and the repairs (docs/file-usage.md), and
\* restorations do not keep it from a backfill for ever.
FairSpec ==
  /\ LegacyInit /\ [][RepairingNext]_vars
  /\ \A s \in Sweepers : WF_vars(Sweep(s))
  /\ WF_vars(Restore) /\ SF_vars(Backfill)
-----------------------------------------------------------------------------
(* Properties. *)

\* A project's counter is the size of its active blobs.
CounterIsExact == \A p \in Projects : Counter(p) = ActiveBytes(p)

\* What a reachable row refers to is linked to it and active.
ReferencedIsActive ==
  \A x \in RowVersions : rows[x] # None /\ rows[x].reachable =>
    \A h \in rows[x].refs :
      LET b == <<rows[x].project, h>> IN <<b, x>> \in links /\ blob[b] = Active

\* Without a sweep, writes keep both, however they reuse, drop and revive
\* contents that rows and projects share.
WritesKeepFilesExact == NeverSwept => CounterIsExact /\ ReferencedIsActive

\* Sweeps that overlap each other, the writes and the consumer never make a
\* counter lower than what is active: a sweep takes off only what its own mark
\* took out, and each project's bytes once.
CounterCoversActive == \A p \in Projects : Counter(p) >= ActiveBytes(p)

\* A content that no row links is tombstoned, unless a row links it again.
OrphanIsEventuallyTombstoned ==
  \A b \in Blobs : (b \in ActiveBlobs /\ ~Linked(b, links)) ~>
                  (b \notin ActiveBlobs \/ Linked(b, links))

\* Whatever the races of sweeps, writes, restorations and backfills left, or a
\* backfill that failed half-way: once only repairs run, every file that a
\* reachable row refers to becomes linked and active, the counters exact, and
\* both stay so.
RepairsConverge ==
  <>[][Restore \/ Backfill]_vars => <>[](CounterIsExact /\ ReferencedIsActive)
=============================================================================

---------------------------- MODULE Versioning ----------------------------
(***************************************************************************)
(* The versioning core: branches, revisions, and the copy-on-write         *)
(* versions of tables and rows they share (src/features/draft-revision,    *)
(* src/features/branch, src/infrastructure/database/cleanup.service.ts).   *)
(*                                                                         *)
(* The state is the database: one function per relation of the Prisma      *)
(* schema and one per join table.  Every handler runs in one serializable  *)
(* transaction, so every handler is one action; a handler that throws      *)
(* rolls back, so its checks are guards.  The cleanup's two deletes are    *)
(* statements of their own, and so are two actions.                        *)
(*                                                                         *)
(* A revision of a branch is its head, its one draft, or history.  The     *)
(* draft's tables and rows are edited in place while they are mutable; a   *)
(* readonly version is cloned first ("touched"), and the clone takes its   *)
(* place in the draft.                                                     *)
(***************************************************************************)
EXTENDS Functions

CONSTANTS
  Branches,         \* branch ids
  RootBranch,       \* the branch a project is created with
  RevisionIds,      \* revision ids; the bound on live revisions
  RootHead,         \* the revisions a project is created with: the root
  RootDraft,        \*   branch's head, and its draft
  TableVersions,    \* Table.versionId values; the bound on live versions
  RowVersions,      \* Row.versionId values; the bound on live versions
  TableCreatedIds,  \* Table.createdId values
  RowCreatedIds,    \* Row.createdId values
  TableIds,         \* user-facing table names (Table.id)
  RowIds,           \* user-facing row names (Row.id)
  Folded,           \* a table name with its case folded
  Data,             \* row contents
  None              \* no record; SQL NULL

RevisionRecord ==
  [ branch : Branches, parent : RevisionIds \cup {None}, isHead : BOOLEAN,
    isDraft : BOOLEAN, isStart : BOOLEAN, hasChanges : BOOLEAN ]

TableRecord == [ createdId : TableCreatedIds, id : TableIds, readonly : BOOLEAN ]

RowRecord ==
  [ createdId : RowCreatedIds, id : RowIds, readonly : BOOLEAN, data : Data ]

ASSUME RootAssumption ==
  /\ RootBranch \in Branches
  /\ RootHead \in RevisionIds /\ RootDraft \in RevisionIds
  /\ RootHead # RootDraft

ASSUME NoneAssumption ==
  /\ None \notin RevisionRecord /\ None \notin TableRecord
  /\ None \notin RowRecord /\ None \notin RevisionIds

ASSUME FoldedAssumption == DOMAIN Folded = TableIds

VARIABLES
  revision,   \* Revision, by id
  table,      \* Table, by versionId
  row,        \* Row, by versionId
  tablesOf,   \* the join table _RevisionToTable
  rowsOf      \* the join table _RowToTable

vars == <<revision, table, row, tablesOf, rowsOf>>

TypeOK ==
  /\ revision \in [RevisionIds -> RevisionRecord \cup {None}]
  /\ table \in [TableVersions -> TableRecord \cup {None}]
  /\ row \in [RowVersions -> RowRecord \cup {None}]
  /\ tablesOf \in [RevisionIds -> SUBSET TableVersions]
  /\ rowsOf \in [TableVersions -> SUBSET RowVersions]

-----------------------------------------------------------------------------
(* Reading the database. *)

Live(relation) == {k \in DOMAIN relation : relation[k] # None}
Unused(relation) == DOMAIN relation \ Live(relation)

\* IdService.generate: an identifier no record has.
NewId(relation) == CHOOSE k \in Unused(relation) : TRUE

UnusedTableCreatedIds == TableCreatedIds \ {table[t].createdId : t \in Live(table)}
UnusedRowCreatedIds == RowCreatedIds \ {row[x].createdId : x \in Live(row)}

IsLive(r) == revision[r] # None
IsHead(r) == IsLive(r) /\ revision[r].isHead
IsDraft(r) == IsLive(r) /\ revision[r].isDraft
Committed(r) == IsLive(r) /\ ~revision[r].isDraft

RevisionsOf(b) == {r \in RevisionIds : IsLive(r) /\ revision[r].branch = b}
BranchExists(b) == RevisionsOf(b) # {}

\* The tables a revision finds under a name.
Named(r, n) == {t \in tablesOf[r] : table[t].id = n}

\* Mutated: a name is taken only by a table whose name has the same case.
NameTakenExactly(r, n) == \E t \in tablesOf[r] : table[t].id = n

\* ensureTableNotExists compares names without regard to case.
NameTaken(r, n) == \E t \in tablesOf[r] : Folded[table[t].id] = Folded[n]

\* Mutated: a pair differs only in name, so a new version of a table is no change.
TableSetsDifferByName(tables, from, to) ==
  \E t \in from \cup to :
    \/ \A u \in from : tables[u].createdId # tables[t].createdId
    \/ \A u \in to : tables[u].createdId # tables[t].createdId
    \/ \E u \in from \cup to :
         tables[t].createdId = tables[u].createdId /\ tables[t].id # tables[u].id

\* FULL OUTER JOIN of two sets of table versions on createdId: an unmatched
\* side, or a pair that differs in name or version.
TableSetsDiffer(tables, from, to) ==
  \/ \E t \in from \cup to :
        \/ \A u \in from : tables[u].createdId # tables[t].createdId
        \/ \A u \in to : tables[u].createdId # tables[t].createdId
  \/ \E t \in from, u \in to :
        /\ tables[t].createdId = tables[u].createdId
        /\ tables[t].id # tables[u].id \/ t # u

\* The same join for two sets of row versions.
RowSetsDiffer(from, to) ==
  \/ \E x \in from \cup to :
        \/ \A y \in from : row[y].createdId # row[x].createdId
        \/ \A y \in to : row[y].createdId # row[x].createdId
  \/ \E x \in from, y \in to : row[x].createdId = row[y].createdId /\ x # y

\* The rows of every version of a logical table among these tables.
RowsOfLineage(tables, createdId) ==
  UNION {rowsOf[t] : t \in {u \in tables : table[u].createdId = createdId}}

-----------------------------------------------------------------------------
(* Touching: what a draft edits in place of a readonly version. *)

\* Mutated: a readonly table is edited in place.
DraftTableInPlace(t) == t

\* getOrCreateDraftTable: the version the draft goes on with.
DraftTable(t) == IF table[t].readonly THEN NewId(table) ELSE t

CanTouch(t) == table[t].readonly => Unused(table) # {}

\* Mutated: the clone gets its own version for an identity.
SaveTableAnew(r, t, name, rows) ==
  /\ table' = [table EXCEPT ![DraftTable(t)] =
                 [createdId |-> DraftTable(t), id |-> name, readonly |-> FALSE]]
  /\ tablesOf' = [tablesOf EXCEPT ![r] = (@ \ {t}) \cup {DraftTable(t)}]
  /\ rowsOf' = [rowsOf EXCEPT ![DraftTable(t)] = rows]

\* The draft version of t takes t's place in r, under this name and with
\* these rows.
SaveTable(r, t, name, rows) ==
  /\ table' = [table EXCEPT ![DraftTable(t)] =
                 [createdId |-> table[t].createdId, id |-> name, readonly |-> FALSE]]
  /\ tablesOf' = [tablesOf EXCEPT ![r] = (@ \ {t}) \cup {DraftTable(t)}]
  /\ rowsOf' = [rowsOf EXCEPT ![DraftTable(t)] = rows]

\* Mutated: readonly rows are edited in place.
RowTouchesInPlace(S) == {w \in Injection(S, RowVersions) : \A x \in S : w[x] = x}

\* getOrCreateDraftRow, for a set of rows: which version each goes on with.
RowTouches(S) ==
  {w \in Injection(S, RowVersions) :
     \A x \in S : IF row[x].readonly THEN w[x] \in Unused(row) ELSE w[x] = x}
TouchRows(S) == CHOOSE w \in RowTouches(S) : TRUE

\* The draft versions of the rows in S, with new names and contents.
SaveRows(S, name, data) ==
  LET w == TouchRows(S)
      source(y) == CHOOSE x \in S : w[x] = y
  IN  row' = [y \in RowVersions |->
                IF y \in Range(w)
                THEN [createdId |-> row[source(y)].createdId,
                      id |-> name[source(y)],
                      readonly |-> FALSE,
                      data |-> data[source(y)]]
                ELSE row[y]]

\* A table's rows with those in S replaced by their draft versions.
RowsTouched(t, S) == (rowsOf[t] \ S) \cup Range(TouchRows(S))

MarkChanged(r) ==
  revision' = [revision EXCEPT ![r] = [@ EXCEPT !.hasChanges = TRUE]]

\* updateHasChanges: compare the draft with its parent, as the step leaves them.
UpdateHasChanges(r) ==
  revision' = [revision EXCEPT ![r] = [@ EXCEPT !.hasChanges =
                 TableSetsDiffer(table', tablesOf'[revision[r].parent], tablesOf'[r])]]

-----------------------------------------------------------------------------
(* The draft's operations. *)

CreateTable(r, n) ==
  /\ IsDraft(r)
  /\ ~NameTaken(r, n)
  /\ Unused(table) # {} /\ UnusedTableCreatedIds # {}
  /\ table' = [table EXCEPT ![NewId(table)] =
                 [createdId |-> CHOOSE c \in UnusedTableCreatedIds : TRUE,
                  id |-> n, readonly |-> FALSE]]
  /\ tablesOf' = [tablesOf EXCEPT ![r] = @ \cup {NewId(table)}]
  /\ MarkChanged(r)
  /\ UNCHANGED <<row, rowsOf>>

\* The name is checked before the clone, so no case variant of the table's own
\* name is accepted either.
RenameTable(r, t, n) ==
  /\ IsDraft(r) /\ t \in tablesOf[r] /\ CanTouch(t)
  /\ n # table[t].id
  /\ ~NameTaken(r, n)
  /\ SaveTable(r, t, n, rowsOf[t])
  /\ MarkChanged(r)
  /\ UNCHANGED row

\* A request for several rows creates them all or none; what it reaches, single
\* requests reach too.
CreateRow(r, t, n, d) ==
  /\ IsDraft(r) /\ t \in tablesOf[r] /\ CanTouch(t)
  /\ \A x \in rowsOf[t] : row[x].id # n
  /\ Unused(row) # {} /\ UnusedRowCreatedIds # {}
  /\ row' = [row EXCEPT ![NewId(row)] =
               [createdId |-> CHOOSE c \in UnusedRowCreatedIds : TRUE,
                id |-> n, readonly |-> FALSE, data |-> d]]
  /\ SaveTable(r, t, table[t].id, rowsOf[t] \cup {NewId(row)})
  /\ MarkChanged(r)

UpdateRows(r, t, S, d) ==
  /\ IsDraft(r) /\ t \in tablesOf[r] /\ CanTouch(t)
  /\ S \subseteq rowsOf[t] /\ RowTouches(S) # {}
  /\ SaveRows(S, [x \in S |-> row[x].id], [x \in S |-> d])
  /\ SaveTable(r, t, table[t].id, RowsTouched(t, S))
  /\ MarkChanged(r)

\* Mutated: rows outside the request may have the new names.
RenameRowsUnchecked(r, t, S, name) ==
  /\ IsDraft(r) /\ t \in tablesOf[r] /\ CanTouch(t)
  /\ S \subseteq rowsOf[t] /\ RowTouches(S) # {}
  /\ \A x \in S : name[x] # row[x].id
  /\ SaveRows(S, name, [x \in S |-> row[x].data])
  /\ SaveTable(r, t, table[t].id, RowsTouched(t, S))
  /\ MarkChanged(r)

\* A new name may be the old one of another row of the same request.
RenameRows(r, t, S, name) ==
  /\ IsDraft(r) /\ t \in tablesOf[r] /\ CanTouch(t)
  /\ S \subseteq rowsOf[t] /\ RowTouches(S) # {}
  /\ \A x \in S : name[x] # row[x].id
  /\ \A x \in rowsOf[t] \ S : row[x].id \notin Range(name)
  /\ SaveRows(S, name, [x \in S |-> row[x].data])
  /\ SaveTable(r, t, table[t].id, RowsTouched(t, S))
  /\ MarkChanged(r)

\* recomputeHasChanges decides whether the removal left the table as its parent
\* revision has it - by createdId - and if so relinks the head's table - by
\* name.  A draft always has a parent, so its early return is never taken.
AfterRemoval(r, t, kept, removed) ==
  LET createdId == table[t].createdId
      inDraft == kept \cup (RowsOfLineage(tablesOf[r] \ {t}, createdId) \ removed)
      inParent == RowsOfLineage(tablesOf[revision[r].parent], createdId)
      inHead == UNION {Named(h, table[t].id) :
                         h \in {q \in RevisionsOf(revision[r].branch) : IsHead(q)}}
  IN  IF RowSetsDiffer(inParent, inDraft) \/ inHead = {} THEN {DraftTable(t)} ELSE inHead

\* Rows only the draft has are deleted, the others unlinked.
RemoveRows(r, t, S) ==
  LET removed == {x \in S : ~row[x].readonly}
      kept == rowsOf[t] \ S
  IN  /\ IsDraft(r) /\ t \in tablesOf[r] /\ CanTouch(t)
      /\ S \subseteq rowsOf[t]
      /\ table' = [table EXCEPT ![DraftTable(t)] =
                     [createdId |-> table[t].createdId, id |-> table[t].id, readonly |-> FALSE]]
      /\ row' = [x \in RowVersions |-> IF x \in removed THEN None ELSE row[x]]
      /\ rowsOf' = [u \in TableVersions |->
                      IF u = DraftTable(t) THEN kept ELSE rowsOf[u] \ removed]
      /\ tablesOf' = [tablesOf EXCEPT ![r] = (@ \ {t}) \cup AfterRemoval(r, t, kept, removed)]
      /\ UpdateHasChanges(r)

\* A mutable table goes with the rows only it links; a readonly one is unlinked.
RemoveTable(r, t) ==
  /\ IsDraft(r) /\ t \in tablesOf[r]
  /\ \/ /\ table[t].readonly
        /\ tablesOf' = [tablesOf EXCEPT ![r] = @ \ {t}]
        /\ UNCHANGED <<table, row, rowsOf>>
     \/ /\ ~table[t].readonly
        /\ tablesOf' = [q \in RevisionIds |-> tablesOf[q] \ {t}]
        /\ table' = [table EXCEPT ![t] = None]
        /\ row' = [x \in RowVersions |->
                     IF x \in rowsOf[t] /\ \A u \in TableVersions \ {t} : x \notin rowsOf[u]
                     THEN None ELSE row[x]]
        /\ rowsOf' = [rowsOf EXCEPT ![t] = {}]
  /\ UpdateHasChanges(r)

-----------------------------------------------------------------------------
(* Commit and revert. *)

\* lockDraftOwnedRows: rows of the draft's mutable tables that the head's
\* versions of those tables do not link.
RowsToLock(h, r) ==
  LET draftTables == {t \in tablesOf[r] : ~table[t].readonly}
      headTables == {u \in tablesOf[h] :
                       /\ table[u].readonly
                       /\ \E t \in draftTables : table[t].createdId = table[u].createdId}
  IN  {x \in UNION {rowsOf[t] : t \in draftTables} :
         \A u \in headTables : x \notin rowsOf[u]}

LockRows(S) ==
  row' = [x \in RowVersions |->
            IF x \in S THEN [row[x] EXCEPT !.readonly = TRUE] ELSE row[x]]

\* Mutated: tables are left unlocked.
LockNoTables(S) == table' = table

LockTables(S) ==
  table' = [t \in TableVersions |->
              IF t \in S THEN [table[t] EXCEPT !.readonly = TRUE] ELSE table[t]]

\* Mutated: the old head keeps its flag.
RetireHeadInName(h) == [revision[h] EXCEPT !.isDraft = FALSE, !.hasChanges = FALSE]

RetireHead(h) ==
  [revision[h] EXCEPT !.isHead = FALSE, !.isDraft = FALSE, !.hasChanges = FALSE]

PromoteDraftToHead(r) ==
  [revision[r] EXCEPT !.isHead = TRUE, !.isDraft = FALSE, !.hasChanges = FALSE]

OpenNextDraft(b, r) ==
  [branch |-> b, parent |-> r, isHead |-> FALSE, isDraft |-> TRUE,
   isStart |-> FALSE, hasChanges |-> FALSE]

Commit(b, h, r) ==
  /\ IsHead(h) /\ IsDraft(r) /\ revision[r].hasChanges
  /\ revision[h].branch = b /\ revision[r].branch = b
  /\ Unused(revision) # {}
  /\ revision' =
       [revision EXCEPT ![h] = RetireHead(h), ![r] = PromoteDraftToHead(r),
                        ![NewId(revision)] = OpenNextDraft(b, r)]
  /\ tablesOf' = [tablesOf EXCEPT ![NewId(revision)] = tablesOf[r]]
  /\ LockRows(RowsToLock(h, r))
  /\ LockTables(tablesOf[r])
  /\ UNCHANGED rowsOf

\* The draft's own versions are left to the cleanup.
Revert(b, h, r) ==
  /\ IsHead(h) /\ IsDraft(r) /\ revision[r].hasChanges
  /\ revision[h].branch = b /\ revision[r].branch = b
  /\ revision' = [revision EXCEPT ![r] = [@ EXCEPT !.hasChanges = FALSE]]
  /\ tablesOf' = [tablesOf EXCEPT ![r] = tablesOf[h]]
  /\ UNCHANGED <<table, row, rowsOf>>

-----------------------------------------------------------------------------
(* Branches. *)

CreateBranch(source, b) ==
  LET h == NewId(revision)
      d == CHOOSE k \in Unused(revision) \ {h} : TRUE
  IN  /\ Committed(source)
      /\ ~BranchExists(b)
      /\ Unused(revision) # {} /\ Unused(revision) \ {h} # {}
      /\ revision' =
           [revision EXCEPT
              ![h] = [branch |-> b, parent |-> source, isHead |-> TRUE,
                      isDraft |-> FALSE, isStart |-> TRUE, hasChanges |-> FALSE],
              ![d] = [branch |-> b, parent |-> h, isHead |-> FALSE,
                      isDraft |-> TRUE, isStart |-> FALSE, hasChanges |-> FALSE]]
      /\ tablesOf' = [tablesOf EXCEPT ![h] = tablesOf[source], ![d] = tablesOf[source]]
      /\ UNCHANGED <<table, row, rowsOf>>

HasChildBranch(b) ==
  \E r \in Live(revision) :
    /\ revision[r].isStart
    /\ revision[r].parent \in RevisionsOf(b)

\* Deleting the branch cascades to its revisions and their table links; a
\* revision that outlives its parent has its parentId set to NULL.
DeleteBranch(b) ==
  /\ BranchExists(b) /\ b # RootBranch
  /\ ~HasChildBranch(b)
  /\ revision' =
       [r \in RevisionIds |->
          IF r \in RevisionsOf(b) THEN None
          ELSE IF IsLive(r) /\ revision[r].parent \in RevisionsOf(b)
               THEN [revision[r] EXCEPT !.parent = None]
               ELSE revision[r]]
  /\ tablesOf' = [r \in RevisionIds |-> IF r \in RevisionsOf(b) THEN {} ELSE tablesOf[r]]
  /\ UNCHANGED <<table, row, rowsOf>>

-----------------------------------------------------------------------------
(* Cleanup. *)

\* No migration runs in this module, so no orphan table is a live shadow.
DeleteOrphanTables ==
  LET orphans == {t \in Live(table) : \A r \in RevisionIds : t \notin tablesOf[r]}
  IN  /\ table' = [t \in TableVersions |-> IF t \in orphans THEN None ELSE table[t]]
      /\ rowsOf' = [t \in TableVersions |-> IF t \in orphans THEN {} ELSE rowsOf[t]]
      /\ UNCHANGED <<revision, row, tablesOf>>

DeleteOrphanRows ==
  LET orphans == {x \in Live(row) : \A t \in TableVersions : x \notin rowsOf[t]}
  IN  /\ row' = [x \in RowVersions |-> IF x \in orphans THEN None ELSE row[x]]
      /\ UNCHANGED <<revision, table, tablesOf, rowsOf>>

-----------------------------------------------------------------------------

\* A project starts with a root branch: an empty head and a draft of it.
Init ==
  /\ revision = [r \in RevisionIds |->
       IF r = RootHead
       THEN [branch |-> RootBranch, parent |-> None, isHead |-> TRUE,
             isDraft |-> FALSE, isStart |-> TRUE, hasChanges |-> FALSE]
       ELSE IF r = RootDraft
       THEN [branch |-> RootBranch, parent |-> RootHead, isHead |-> FALSE,
             isDraft |-> TRUE, isStart |-> FALSE, hasChanges |-> FALSE]
       ELSE None]
  /\ table = [t \in TableVersions |-> None]
  /\ row = [x \in RowVersions |-> None]
  /\ tablesOf = [r \in RevisionIds |-> {}]
  /\ rowsOf = [t \in TableVersions |-> {}]

EditTables(r) ==
  \/ \E n \in TableIds : CreateTable(r, n)
  \/ \E t \in tablesOf[r] : RemoveTable(r, t)
  \/ \E t \in tablesOf[r], n \in TableIds : RenameTable(r, t, n)

\* The API refuses a request for no rows ("array cannot be empty").
EditRows(r) ==
  \E t \in tablesOf[r] :
    \/ \E n \in RowIds, d \in Data : CreateRow(r, t, n, d)
    \/ \E S \in (SUBSET rowsOf[t]) \ {{}} :
         \/ \E d \in Data : UpdateRows(r, t, S, d)
         \/ \E name \in Injection(S, RowIds) : RenameRows(r, t, S, name)
         \/ RemoveRows(r, t, S)

Next ==
  \/ \E r \in RevisionIds : EditTables(r) \/ EditRows(r)
  \/ \E b \in Branches, h, r \in RevisionIds : Commit(b, h, r) \/ Revert(b, h, r)
  \/ \E source \in RevisionIds, b \in Branches : CreateBranch(source, b)
  \/ \E b \in Branches : DeleteBranch(b)
  \/ DeleteOrphanTables
  \/ DeleteOrphanRows

Spec == Init /\ [][Next]_vars
-----------------------------------------------------------------------------
(* Properties. *)

\* Every branch has one head and one draft; the draft follows the head, and no
\* other revision claims changes.
DraftFollowsHead ==
  \A b \in Branches :
    LET own == RevisionsOf(b)
    IN  own # {} =>
          \E h, d \in own :
            /\ IsHead(h) /\ IsDraft(d)
            /\ revision[d].parent = h /\ h # d
            /\ \A r \in own \ {h} : ~revision[r].isHead
            /\ \A r \in own \ {d} : ~revision[r].isDraft /\ ~revision[r].hasChanges

\* No link dangles, and what a committed revision reaches is locked: the tables
\* of a committed revision are readonly, and so are the rows of a readonly table.
CommittedIsReadonly ==
  /\ \A r \in RevisionIds : \A t \in tablesOf[r] :
       /\ IsLive(r) /\ table[t] # None
       /\ Committed(r) => table[t].readonly
  /\ \A t \in TableVersions : \A x \in rowsOf[t] :
       /\ table[t] # None /\ row[x] # None
       /\ table[t].readonly => row[x].readonly

\* A version that can still be edited in place is seen from one place only: a
\* mutable table from one revision, a mutable row from one table of a revision.
\* (A table version no revision links may keep a row until it is cleaned up.)
MutableIsUnshared ==
  /\ \A t \in Live(table) : ~table[t].readonly =>
       \A q, r \in RevisionIds : t \in tablesOf[q] /\ t \in tablesOf[r] => q = r
  /\ \A x \in Live(row) : ~row[x].readonly =>
       \A t, u \in UNION Range(tablesOf) : x \in rowsOf[t] /\ x \in rowsOf[u] => t = u

\* A revision has one table to a name (in any case), each of its tables one row
\* to a name.
NamesAreUnique ==
  \A r \in RevisionIds : \A t \in tablesOf[r] :
    /\ \A u \in tablesOf[r] : Folded[table[t].id] = Folded[table[u].id] => t = u
    /\ \A x, y \in rowsOf[t] : row[x].id = row[y].id => x = y

\* hasChanges, which gates commit and revert, tells whether the draft's tables
\* differ from the head's.  (It may also be set without a difference when the
\* head links two versions of one logical table: the join then pairs them.)
HasChangesIsExact ==
  \A d, h \in Live(revision) :
    IsDraft(d) /\ IsHead(h) /\ revision[d].branch = revision[h].branch =>
      /\ ~revision[d].hasChanges => tablesOf[d] = tablesOf[h]
      /\ /\ revision[d].hasChanges
         /\ \A t, u \in tablesOf[h] : table[t].createdId = table[u].createdId => t = u
         => tablesOf[d] # tablesOf[h]

\* What a revision says: each of its tables, with the rows of each.
RowSnapshot(x) == [versionId |-> x, createdId |-> row[x].createdId,
                   id |-> row[x].id, data |-> row[x].data]
TableSnapshot(t) == [versionId |-> t, createdId |-> table[t].createdId,
                     id |-> table[t].id, rows |-> {RowSnapshot(x) : x \in rowsOf[t]}]
Snapshot(r) == {TableSnapshot(t) : t \in tablesOf[r]}

\* As long as a committed revision exists, no operation on any branch, and no
\* cleanup, changes what it says.
CommittedNeverChanges ==
  [][\A r \in RevisionIds :
       Committed(r) /\ IsLive(r)' => Snapshot(r)' = Snapshot(r)]_vars

\* Invariant 4 of docs/versioning.md: removing rows never undoes the creation of
\* a table that has no counterpart in the head.
DraftOnly(r) ==
  {t \in tablesOf[r] :
     \A u \in tablesOf[revision[r].parent] : table[u].createdId # table[t].createdId}

DraftOnlyNeverAutoReverted ==
  [][\A r \in RevisionIds : \A t \in tablesOf[r] : \A S \in (SUBSET rowsOf[t]) \ {{}} :
       RemoveRows(r, t, S) =>
         \A u \in DraftOnly(r) :
           \E v \in tablesOf'[r] : table'[v].createdId = table[u].createdId]_vars

-----------------------------------------------------------------------------
(* What the versioning core promises: BranchHistory. *)

HeadOf(b) == CHOOSE r \in RevisionIds : IsHead(r) /\ revision[r].branch = b
DraftOf(b) == CHOOSE r \in RevisionIds : IsDraft(r) /\ revision[r].branch = b

\* What revisions may say; what it says makes every commit something.
Contents ==
  SUBSET [ versionId : TableVersions, createdId : TableCreatedIds, id : TableIds,
           rows : SUBSET [ versionId : RowVersions, createdId : RowCreatedIds,
                           id : RowIds, data : Data ] ]

ASSUME CommitAssumption ==
  None \notin [ branch : Branches, parent : RevisionIds \cup {None}, content : Contents ]

CommitsSaid ==
  [r \in RevisionIds |->
     IF Committed(r)
     THEN [branch |-> revision[r].branch, parent |-> revision[r].parent, content |-> Snapshot(r)]
     ELSE None]
HeadsThere == [b \in Branches |-> IF BranchExists(b) THEN HeadOf(b) ELSE None]
DraftsSaid == [b \in Branches |-> IF BranchExists(b) THEN Snapshot(DraftOf(b)) ELSE None]

History == INSTANCE BranchHistory WITH
  Empty <- {}, commits <- CommitsSaid, head <- HeadsThere, draft <- DraftsSaid

\* Copy-on-write is not observable: the database behaves as if every commit
\* kept a copy of its own, and every branch's draft were edited in isolation.
ImplementsBranchHistory == History!Spec
=============================================================================
